-------------------------- MODULE ProjectionStream --------------------------
(***************************************************************************)
(* One projection and one browser reading it: ProjectionRunner::apply      *)
(* (cknerv-server/src/projection_registry.rs), handle_projection_stream    *)
(* (ws.rs) and connectProjectionStream (packages/cache/src).               *)
(*                                                                         *)
(* The three run concurrently.  The runner publishes without a lock the    *)
(* handler takes, so each read the handler makes (subscription, ring,      *)
(* revision, snapshot) is a step of its own.                               *)
(*                                                                         *)
(* Some definitions come in pairs: the first is a plausible slip in the    *)
(* second, kept to check that a property notices it; nothing uses it.      *)
(***************************************************************************)
EXTENDS StreamClient

CONSTANTS
  MaxRevision,  \* bound: mutations applied
  MaxBatch,     \* bound: deltas of one mutation
  Replays,      \* whether BackfillProgress mutations occur
  Warm          \* whether the ring already holds a delta at the start

ASSUME ProjectionAssumption ==
  /\ {MaxRevision, MaxBatch} \subseteq Nat
  /\ {Replays, Warm} \subseteq BOOLEAN

VARIABLES
  \* ProjectionRunner; log holds the deltas of committed mutations, and an
  \* index into it is a DeltaEntry.seq
  revision,   \* revision
  sent,       \* delta_seq: deltas pushed to ring and broadcast channel
  ringFrom,   \* the ring holds the entries ringFrom .. sent
  cleared,    \* a BackfillProgress cleared the ring and is not yet applied
  \* handle_projection_stream
  rx,         \* next entry the broadcast receiver will read
  held,       \* ring_snapshot
  lastSeq     \* last_sent_seq

runner  == <<log, revision, sent, ringFrom, cleared>>
handler == <<rx, held, lastSeq>>
vars    == <<runner, handler, socket, client, drops>>

Ring == ringFrom .. sent

-----------------------------------------------------------------------------
(* ProjectionRunner::apply.  The reducer applies one mutation at a time.   *)

Idle == sent = Len(log) /\ revision < MaxRevision

(* A BackfillProgress clears the ring before it is applied.                *)
ClearRing ==
  /\ Replays
  /\ Idle /\ ~ cleared
  /\ cleared' = TRUE
  /\ ringFrom' = sent + 1
  /\ UNCHANGED <<log, revision, sent, handler, socket, client, drops>>

(* State, revision and cache retirement are one commit under the write     *)
(* lock.  A BackfillProgress always has a delta of its own.                *)
Commit ==
  /\ Idle
  /\ \E n \in (IF cleared THEN 1 ELSE 0) .. MaxBatch :
       \E d \in [1 .. n -> Items] :
         log' = log \o [j \in 1 .. n |-> [rev |-> revision + 1, item |-> d[j]]]
  /\ revision' = revision + 1
  /\ cleared' = FALSE
  /\ UNCHANGED <<sent, ringFrom, handler, socket, client, drops>>

(* One delta of the committed mutation into the ring and the channel.      *)
Publish ==
  /\ sent < Len(log)
  /\ sent' = sent + 1
  /\ ringFrom' = Max({ringFrom, sent + 2 - RingCap})
  /\ UNCHANGED <<log, revision, cleared, handler, socket, client, drops>>

-----------------------------------------------------------------------------
(* handle_projection_stream.                                               *)

Subscribe ==
  /\ pc = "accepted"
  /\ pc' = "subscribed"
  /\ rx' = sent + 1
  /\ lastSeq' = 0
  /\ UNCHANGED <<since, held, wire, client, runner, drops>>

ReadRing ==
  /\ pc = "subscribed"
  /\ pc' = "ring"
  /\ held' = Ring
  /\ UNCHANGED <<since, rx, lastSeq, wire, client, runner, drops>>

(* The revision is read after the ring; the action follows.                *)
Nothing ==
  /\ Decide(log, held, since, revision) = "nothing"
  /\ pc' = "live"
  /\ lastSeq' = Max({0} \cup held)
  /\ UNCHANGED wire

ReplayUnmarked ==
  /\ Decide(log, held, since, revision) = "replay"
  /\ pc' = "live"
  /\ Send([kind |-> "delta", deltas |-> InOrder(Newer(log, held, since))])
  /\ UNCHANGED lastSeq

Replay ==
  /\ Decide(log, held, since, revision) = "replay"
  /\ pc' = "live"
  /\ lastSeq' = Max(Newer(log, held, since))
  /\ Send([kind |-> "delta", deltas |-> InOrder(Newer(log, held, since))])

Full ==
  /\ Decide(log, held, since, revision) = "full"
  /\ pc' = "full"
  /\ UNCHANGED <<lastSeq, wire>>

DecideActionThenSubscribe ==
  /\ pc = "ring"
  /\ Nothing \/ Replay \/ Full
  /\ rx' = sent + 1
  /\ UNCHANGED <<since, held, runner, client, drops>>

DecideAction ==
  /\ pc = "ring"
  /\ Nothing \/ Replay \/ Full
  /\ UNCHANGED <<since, rx, held, runner, client, drops>>

(* How far a snapshot of this revision covers the ring copy.               *)
CoversRevisions(rev) == rev
Covers(rev)          == Max({lastSeq} \cup {s \in held : log[s].rev <= rev})

(* The snapshot and its revision are read together, later than the ring.   *)
FullSnapshot ==
  /\ pc = "full"
  /\ pc' = "live"
  /\ Send([kind |-> "snapshot", rev |-> revision, upTo |-> Len(log)])
  /\ lastSeq' = Covers(revision)
  /\ UNCHANGED <<since, rx, held, runner, client, drops>>

(* The live loop: a receiver that fell behind the channel is told so once  *)
(* and continues with the oldest entry the channel still holds.            *)
Overrun == rx + ChannelCap <= sent

ReportLag ==
  /\ pc = "live"
  /\ Overrun
  /\ Send([kind |-> "lagged"])
  /\ rx' = sent + 1 - ChannelCap
  /\ UNCHANGED <<pc, since, held, lastSeq, runner, client, drops>>

Forward ==
  /\ pc = "live"
  /\ ~ Overrun /\ rx <= sent
  /\ rx' = rx + 1
  /\ \/ /\ rx <= lastSeq
        /\ UNCHANGED <<lastSeq, wire>>
     \/ /\ rx > lastSeq
        /\ lastSeq' = rx
        /\ Send([kind |-> "delta", deltas |-> <<rx>>])
  /\ UNCHANGED <<pc, since, held, runner, client, drops>>

-----------------------------------------------------------------------------
(* connectProjectionStream.                                                *)

FetchSnapshot == Fetched(revision) /\ UNCHANGED <<runner, handler>>
Open          == Opens /\ UNCHANGED <<runner, handler>>
Receive       == Receives /\ UNCHANGED <<runner, handler>>
Flush         == Flushes /\ UNCHANGED <<runner, handler>>
Disconnect    == Disconnects /\ UNCHANGED <<runner, handler>>

-----------------------------------------------------------------------------
Init ==
  /\ log \in IF Warm THEN {<<[rev |-> 1, item |-> i]>> : i \in Items} ELSE {<<>>}
  /\ revision = Len(log) /\ sent = Len(log) /\ ringFrom = 1 /\ cleared = FALSE
  /\ rx = 1 /\ held = {} /\ lastSeq = 0
  /\ ClientInit

Apply  == ClearRing \/ Commit \/ Publish
Handle == Subscribe \/ ReadRing \/ DecideAction \/ FullSnapshot \/ ReportLag \/ Forward
Browse == FetchSnapshot \/ Open \/ Receive \/ Flush

Next == Apply \/ Handle \/ Browse \/ Disconnect

Spec == Init /\ [][Next]_vars

(* A committed mutation is published, the handler's task and the page run. *)
FairSpec == Spec /\ WF_vars(Publish) /\ WF_vars(Handle) /\ WF_vars(Browse)

-----------------------------------------------------------------------------
(* Properties, with those of StreamClient.                                 *)

TypeOK ==
  /\ ClientTypeOK
  /\ revision \in Nat /\ sent \in 0 .. Len(log)
  /\ ringFrom \in 1 .. sent + 1 /\ cleared \in BOOLEAN
  /\ pc \in {"boot", "closed", "accepted", "subscribed", "ring", "full", "live"}
  /\ rx \in 1 .. sent + 1
  /\ held \subseteq 1 .. sent /\ lastSeq \in 0 .. sent

(* A client that has received, applied and is waiting for nothing shows    *)
(* the projection's state.                                                 *)
Quiet ==
  /\ pc = "live" /\ wire = <<>> /\ pending = <<>>
  /\ sent = Len(log) /\ ~ cleared /\ rx = sent + 1
QuietClientIsCurrent == Quiet => view = Content(log, Len(log))
=============================================================================
