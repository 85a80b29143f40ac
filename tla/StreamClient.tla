---------------------------- MODULE StreamClient ----------------------------
(***************************************************************************)
(* The browser's end of a stream: connectProjectionStream and              *)
(* connectEntityStream (packages/cache/src) follow the same protocol and   *)
(* differ in the reducer they feed.  The actions say what happens to the   *)
(* socket and to the cache; a module of one stream adds the server.        *)
(*                                                                         *)
(* Heartbeats, stream health and the choice between a JSON and a binary    *)
(* snapshot move no cursor and are left out.  The stale watchdog and an    *)
(* unreadable frame end a connection as Disconnects does.                  *)
(*                                                                         *)
(* ReceiveLaggedInPlace is a plausible slip in ReceiveLagged, kept to      *)
(* check that a property notices it; nothing uses it.                      *)
(***************************************************************************)
EXTENDS StreamLog

CONSTANTS
  MaxDrops,     \* bound: connections lost in transport
  WireCap       \* bound: frames a socket buffers

ASSUME ClientAssumption ==
  /\ MaxDrops \in Nat
  /\ WireCap \in Nat \ {0}

VARIABLES
  log,        \* the entries of the stream, in the order they are made
  pc,         \* where the server's handler is; "closed" without a connection
  since,      \* the client's cursor when it connected
  wire,       \* frames on their way to the client
  cursor,     \* cache.revision
  view,       \* the rest of the cache
  pending,    \* pendingDeltas
  drops       \* connections lost so far

socket == <<pc, since, wire>>
client == <<cursor, view, pending>>

Send(frame) == Len(wire) < WireCap /\ wire' = Append(wire, frame)

(* The page boots from the HTTP snapshot.                                  *)
Fetched(revision) ==
  /\ pc = "boot"
  /\ cursor' = revision
  /\ view' = Content(log, Len(log))
  /\ pc' = "closed"
  /\ UNCHANGED <<since, wire, pending, drops>>

Opens ==
  /\ pc = "closed"
  /\ pc' = "accepted"
  /\ since' = cursor
  /\ wire' = <<>>
  /\ UNCHANGED <<client, drops>>

(* scheduleReconnect detaches the socket: what it still carries is lost.   *)
Hangup == pc' = "closed" /\ wire' = <<>>

(* The reducer applies a batch in order; its cursor never falls.           *)
Applied(batch) ==
  [i \in Items |->
     LET hits == {j \in DOMAIN batch : log[batch[j]].item = i}
     IN  IF hits = {} THEN view[i] ELSE batch[Max(hits)]]

FlushPending ==
  /\ view' = Applied(pending)
  /\ cursor' = Max({cursor} \cup {log[s].rev : s \in ToSet(pending)})
  /\ pending' = <<>>

(* A snapshot is authoritative: older deltas must not apply after it.      *)
ReceiveSnapshot ==
  /\ Head(wire).kind = "snapshot"
  /\ pending' = <<>>
  /\ cursor' = Head(wire).rev
  /\ view' = Content(log, Head(wire).upTo)
  /\ wire' = Tail(wire)
  /\ UNCHANGED pc

ReceiveDelta ==
  /\ Head(wire).kind = "delta"
  /\ pending' = pending \o Head(wire).deltas
  /\ wire' = Tail(wire)
  /\ UNCHANGED <<pc, cursor, view>>

(* A lagged frame discards the batch and resets the cursor.                *)
ReceiveLaggedInPlace ==
  /\ Head(wire).kind = "lagged"
  /\ pending' = <<>>
  /\ cursor' = 0
  /\ wire' = Tail(wire)
  /\ UNCHANGED <<pc, view>>

ReceiveLagged ==
  /\ Head(wire).kind = "lagged"
  /\ pending' = <<>>
  /\ cursor' = 0
  /\ Hangup
  /\ UNCHANGED view

Receives ==
  /\ wire # <<>>
  /\ ReceiveSnapshot \/ ReceiveDelta \/ ReceiveLagged
  /\ UNCHANGED <<since, drops>>

(* The animation frame, or its timeout.                                    *)
Flushes ==
  /\ pending # <<>>
  /\ FlushPending
  /\ UNCHANGED <<socket, drops>>

(* The transport fails: frames received so far are committed first.        *)
Disconnects ==
  /\ drops < MaxDrops
  /\ pc \notin {"boot", "closed"}
  /\ drops' = drops + 1
  /\ FlushPending
  /\ Hangup
  /\ UNCHANGED since

ClientInit ==
  /\ pc = "boot" /\ since = 0 /\ wire = <<>>
  /\ cursor = 0 /\ view = Content(<<>>, 0) /\ pending = <<>>
  /\ drops = 0

-----------------------------------------------------------------------------
(* Properties of either stream.                                            *)

Frame ==
  [kind : {"snapshot"}, rev : Nat, upTo : Nat] \cup
  [kind : {"delta"}, deltas : Seq(Nat)] \cup [kind : {"lagged"}]

ClientTypeOK ==
  /\ log \in Seq(Entry)
  /\ since \in Nat
  /\ wire \in Seq(Frame)
  /\ cursor \in Nat
  /\ view \in [Items -> 0 .. Len(log)]
  /\ pending \in Seq(1 .. Len(log))
  /\ drops \in Nat

(* What is queued for the client: the batch, then the frames.              *)
Deltas(j) ==
  IF j = 0 THEN pending ELSE IF wire[j].kind = "delta" THEN wire[j].deltas ELSE <<>>

(* One connection never sends an entry twice or out of order, although     *)
(* entries reach it both from the ring the handler copied and from the     *)
(* channel it subscribed to before.                                        *)
ConnectionIsOrdered ==
  \A j \in 0 .. Len(wire) :
    /\ \A a, b \in DOMAIN Deltas(j) : a < b => Deltas(j)[a] < Deltas(j)[b]
    /\ \A k \in 0 .. Len(wire) : j < k =>
         \A s \in ToSet(Deltas(j)), t \in ToSet(Deltas(k)) : s < t

(* A batch that moves a cursor forward holds every entry between the two   *)
(* cursors, however often the channel overran, the ring was cleared or     *)
(* evicted and the connection was lost.  (A cursor of zero asks for a      *)
(* resync: QuietClientIsCurrent is about what it gets.)                    *)
FlushSkipsNothing ==
  [][cursor > 0 /\ cursor' > cursor /\ pending # <<>> /\ pending' = <<>>
     /\ view' = Applied(pending)
     => \A s \in 1 .. Len(log) :
          cursor < log[s].rev /\ log[s].rev < cursor' => s \in ToSet(pending)
    ]_<<client, pc, wire>>

(* After a snapshot of revision N no delta of a revision up to N follows.  *)
SnapshotCoversDeltas ==
  \A j, k \in DOMAIN wire :
    j < k /\ wire[j].kind = "snapshot" /\ wire[k].kind = "delta"
    => \A s \in ToSet(wire[k].deltas) : log[s].rev > wire[j].rev

(* The view only ever moves along the log (ReplicatedView).                *)
Replica == INSTANCE ReplicatedView
ImplementsReplica == Replica!Spec

(* Once mutations stop the client ends up with the server's state.         *)
EventuallyCurrent == <>[](view = Content(log, Len(log)))
=============================================================================
