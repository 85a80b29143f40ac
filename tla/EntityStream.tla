---------------------------- MODULE EntityStream ----------------------------
(***************************************************************************)
(* The chain entity and one browser reading it: apply_mutation             *)
(* (cknerv-server/src/state.rs), handle_chain_stream (ws.rs) and           *)
(* connectEntityStream (packages/cache/src).                               *)
(*                                                                         *)
(* Unlike a projection's runner, apply_mutation holds the coordination     *)
(* lock from the state change to the broadcast, and the handler reads      *)
(* (revision, ring) and the snapshot under it.  Subscribing and receiving  *)
(* take no lock.  A mutation is one entry of one revision; those hidden    *)
(* from the entity wire change nothing the client holds and only consume a *)
(* revision.                                                               *)
(*                                                                         *)
(* Some definitions come in pairs: the first is a plausible slip in the    *)
(* second, kept to check that a property notices it; nothing uses it.      *)
(***************************************************************************)
EXTENDS StreamClient

CONSTANTS
  MaxRevision,  \* bound: mutations applied
  Replays       \* whether BackfillProgress mutations occur

ASSUME EntityAssumption ==
  /\ MaxRevision \in Nat
  /\ Replays \in BOOLEAN

VARIABLES
  \* ServerState; log holds the mutations the entity wire shows
  revision,   \* revision
  ringFrom,   \* mutation_ring holds the entries ringFrom .. Len(log)
  sent,       \* mutations broadcast
  \* handle_chain_stream
  rx,         \* next entry the broadcast receiver will read
  lastSent    \* last_sent_revision

server  == <<log, revision, ringFrom, sent>>
handler == <<rx, lastSent>>
vars    == <<server, handler, socket, client, drops>>

Ring == ringFrom .. Len(log)

(* apply_mutation holds the coordination lock until it has broadcast.      *)
Locked == sent < Len(log)

-----------------------------------------------------------------------------
(* apply_mutation_locked: state, revision and ring; the ring's past is     *)
(* dropped at a replay barrier.                                            *)
ApplyVisible ==
  /\ ~ Locked /\ revision < MaxRevision
  /\ \E i \in Items : log' = Append(log, [rev |-> revision + 1, item |-> i])
  /\ revision' = revision + 1
  /\ \/ ringFrom' = Max({ringFrom, Len(log) + 2 - RingCap})
     \/ Replays /\ ringFrom' = Len(log) + 1
  /\ UNCHANGED <<sent, handler, socket, client, drops>>

(* Mutation::entity_wire_visible is false.                                 *)
ApplyHiddenSent ==
  /\ ~ Locked /\ revision < MaxRevision
  /\ revision' = revision + 1
  /\ sent' = sent + 1
  /\ UNCHANGED <<log, ringFrom, handler, socket, client, drops>>

ApplyHidden ==
  /\ ~ Locked /\ revision < MaxRevision
  /\ revision' = revision + 1
  /\ UNCHANGED <<log, ringFrom, sent, handler, socket, client, drops>>

Broadcast ==
  /\ Locked
  /\ sent' = sent + 1
  /\ UNCHANGED <<log, revision, ringFrom, handler, socket, client, drops>>

-----------------------------------------------------------------------------
(* handle_chain_stream.                                                    *)

Subscribe ==
  /\ pc = "accepted"
  /\ pc' = "subscribed"
  /\ rx' = sent + 1
  /\ lastSent' = since
  /\ UNCHANGED <<since, wire, client, server, drops>>

Nothing ==
  /\ Decide(log, Ring, since, revision) = "nothing"
  /\ pc' = "live"
  /\ UNCHANGED <<lastSent, wire>>

Replay ==
  /\ Decide(log, Ring, since, revision) = "replay"
  /\ pc' = "live"
  /\ lastSent' = RingLast(log, Ring)
  /\ Send([kind |-> "delta", deltas |-> InOrder(Newer(log, Ring, since))])

Full ==
  /\ Decide(log, Ring, since, revision) = "full"
  /\ pc' = "full"
  /\ UNCHANGED <<lastSent, wire>>

(* (revision, ring) is one observation; the decision follows from it.      *)
CatchUp ==
  /\ pc = "subscribed"
  /\ ~ Locked
  /\ Nothing \/ Replay \/ Full
  /\ UNCHANGED <<since, rx, client, server, drops>>

FullSnapshotUncounted ==
  /\ pc = "full"
  /\ ~ Locked
  /\ pc' = "live"
  /\ Send([kind |-> "snapshot", rev |-> revision, upTo |-> Len(log)])
  /\ UNCHANGED <<since, rx, lastSent, client, server, drops>>

FullSnapshot ==
  /\ pc = "full"
  /\ ~ Locked
  /\ pc' = "live"
  /\ Send([kind |-> "snapshot", rev |-> revision, upTo |-> Len(log)])
  /\ lastSent' = revision
  /\ UNCHANGED <<since, rx, client, server, drops>>

Overrun == rx + ChannelCap <= sent

ReportLag ==
  /\ pc = "live"
  /\ Overrun
  /\ Send([kind |-> "lagged"])
  /\ rx' = sent + 1 - ChannelCap
  /\ UNCHANGED <<pc, since, lastSent, client, server, drops>>

(* Entries the catch-up covered are skipped by revision.                   *)
ForwardRepeats ==
  /\ pc = "live"
  /\ ~ Overrun /\ rx <= sent
  /\ rx' = rx + 1
  /\ \/ /\ log[rx].rev < lastSent
        /\ UNCHANGED <<lastSent, wire>>
     \/ /\ log[rx].rev >= lastSent
        /\ lastSent' = log[rx].rev
        /\ Send([kind |-> "delta", deltas |-> <<rx>>])
  /\ UNCHANGED <<pc, since, client, server, drops>>

Forward ==
  /\ pc = "live"
  /\ ~ Overrun /\ rx <= sent
  /\ rx' = rx + 1
  /\ \/ /\ log[rx].rev <= lastSent
        /\ UNCHANGED <<lastSent, wire>>
     \/ /\ log[rx].rev > lastSent
        /\ lastSent' = log[rx].rev
        /\ Send([kind |-> "delta", deltas |-> <<rx>>])
  /\ UNCHANGED <<pc, since, client, server, drops>>

-----------------------------------------------------------------------------
(* connectEntityStream.                                                    *)

FetchSnapshot == ~ Locked /\ Fetched(revision) /\ UNCHANGED <<server, handler>>
Open          == Opens /\ UNCHANGED <<server, handler>>
Receive       == Receives /\ UNCHANGED <<server, handler>>
Flush         == Flushes /\ UNCHANGED <<server, handler>>
Disconnect    == Disconnects /\ UNCHANGED <<server, handler>>

-----------------------------------------------------------------------------
Init ==
  /\ log = <<>> /\ revision = 0 /\ ringFrom = 1 /\ sent = 0
  /\ rx = 1 /\ lastSent = 0
  /\ ClientInit

Apply  == ApplyVisible \/ ApplyHidden \/ Broadcast
Handle == Subscribe \/ CatchUp \/ FullSnapshot \/ ReportLag \/ Forward
Browse == FetchSnapshot \/ Open \/ Receive \/ Flush

Next == Apply \/ Handle \/ Browse \/ Disconnect

Spec == Init /\ [][Next]_vars

(* An applied mutation is broadcast, the handler's task and the page run.  *)
FairSpec == Spec /\ WF_vars(Broadcast) /\ WF_vars(Handle) /\ WF_vars(Browse)

-----------------------------------------------------------------------------
(* Properties, with those of StreamClient.                                 *)

TypeOK ==
  /\ ClientTypeOK
  /\ revision \in Nat /\ ringFrom \in 1 .. Len(log) + 1
  /\ sent \in {Len(log) - 1, Len(log)} \cap Nat
  /\ pc \in {"boot", "closed", "accepted", "subscribed", "full", "live"}
  /\ rx \in 1 .. sent + 1
  /\ lastSent \in 0 .. revision
  /\ cursor \in 0 .. revision

(* The server never calls a connection caught up when it is not: a client  *)
(* that has received, applied and is waiting for nothing shows the chain   *)
(* entity's state, after any drops, overruns and replay barriers.          *)
Quiet ==
  /\ pc = "live" /\ wire = <<>> /\ pending = <<>>
  /\ ~ Locked /\ rx = sent + 1
QuietClientIsCurrent == Quiet => view = Content(log, Len(log))

(* What a client claims to have by reconnecting with its cursor, it has:   *)
(* its view misses no mutation up to its own cursor.                       *)
CursorNeverPassesView ==
  \A s \in 1 .. Len(log) : log[s].rev <= cursor => view[log[s].item] >= s
=============================================================================
