----------------------------- MODULE StreamLog -----------------------------
(***************************************************************************)
(* What the entity stream and the projection streams have in common        *)
(* (cknerv-server/src/ws.rs, packages/cache/src): a log of published       *)
(* entries, a bounded ring holding its newest part, the choice of how a    *)
(* reconnecting client catches up, and the client's batched cache.         *)
(*                                                                         *)
(* An entry is what one delta does to the state: it overwrites one item    *)
(* (a cell record, a counter, a tag).  The state after k entries is        *)
(* therefore the number of the last entry that wrote each item, which is   *)
(* enough to tell a lost entry and a stale one from a current view.        *)
(***************************************************************************)
EXTENDS Integers, Sequences, FiniteSets, FiniteSetsExt, SequencesExt

CONSTANTS
  Items,        \* what entries write
  RingCap,      \* capacity of the replay ring
  ChannelCap,   \* capacity of the broadcast channel
  ReplayMax     \* REPLAY_MAX_ENTRIES

ASSUME StreamAssumption ==
  /\ RingCap \in Nat \ {0}
  /\ ChannelCap \in Nat \ {0}
  /\ ReplayMax \in Nat
  /\ RingCap >= 2 * ReplayMax   \* asserted beside PROJECTION_DELTA_RING_CAP

Entry == [rev : Nat \ {0}, item : Items]

(* The state after the first k entries of a log.                           *)
Content(log, k) ==
  [i \in Items |-> Max({0} \cup {s \in 1 .. k : log[s].item = i})]

(* The newest revision a ring of entry numbers holds, and the oldest.      *)
RingLast(log, ring)  == log[Max(ring)].rev
RingFirst(log, ring) == log[Min(ring)].rev

Newer(log, ring, since) == {s \in ring : log[s].rev > since}

(* decide_action, and a slip in it kept for checking the properties.       *)
DecideOffByOne(log, ring, since, current) ==
  CASE since > current -> "full"
    [] since <= current /\ ring = {} -> IF since = 0 THEN "nothing" ELSE "full"
    [] OTHER ->
         IF since + 1 >= RingLast(log, ring) THEN "nothing"
         ELSE IF since + 1 >= RingFirst(log, ring)
                 /\ Cardinality(Newer(log, ring, since)) <= ReplayMax
              THEN "replay" ELSE "full"

Decide(log, ring, since, current) ==
  CASE since > current -> "full"
    [] since <= current /\ ring = {} -> IF since = 0 THEN "nothing" ELSE "full"
    [] OTHER ->
         IF since >= RingLast(log, ring) THEN "nothing"
         ELSE IF since + 1 >= RingFirst(log, ring)
                 /\ Cardinality(Newer(log, ring, since)) <= ReplayMax
              THEN "replay" ELSE "full"

(* Entry numbers of a set in the order they are sent.                      *)
InOrder(S) ==
  CHOOSE q \in [1 .. Cardinality(S) -> S] :
    /\ ToSet(q) = S
    /\ \A j, k \in DOMAIN q : j < k => q[j] < q[k]
=============================================================================
