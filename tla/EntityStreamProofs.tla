-------------------------- MODULE EntityStreamProofs --------------------------
(***************************************************************************)
(* Proofs about EntityStream, for any items, ring, channel, replay limit   *)
(* and bounds: the client's view only ever moves along the log, a cursor   *)
(* claims no more than the view has, and a client the server leaves alone  *)
(* is current.                                                             *)
(*                                                                         *)
(* The invariant follows one number: the client's view is the state after  *)
(* k entries.  What is queued for it, up to the first lagged frame, goes   *)
(* on from k entry by entry (BatchInv, WireInv), and the handler's cursor  *)
(* and receiver agree with where the queue ends (HandlerInv).              *)
(***************************************************************************)
EXTENDS EntityStream, StreamClientProofs

\* The entries up to the k-th are those of revisions up to r.
Reaches(k, r) == \A s \in DOMAIN log : s <= k <=> log[s].rev <= r

LogInv ==
  /\ log \in Seq(Entry)
  /\ \A s, t \in DOMAIN log : s < t => log[s].rev < log[t].rev
  /\ revision \in Nat /\ \A s \in DOMAIN log : log[s].rev <= revision
  /\ sent \in Nat /\ sent \in {Len(log) - 1, Len(log)}
  /\ ringFrom \in 1 .. Len(log) + 1
  /\ log # <<>> => ringFrom <= Len(log)

TypeInv ==
  /\ since \in Nat /\ cursor \in 0 .. revision /\ lastSent \in 0 .. revision
  /\ rx \in 1 .. sent + 1 /\ drops \in Nat
  /\ wire \in Seq(Frame)
  /\ pc \in {"boot", "closed", "accepted", "subscribed", "full", "live"}

ViewInv(k) ==
  /\ k \in 0 .. Len(log) /\ view = Content(log, k)
  /\ cursor > 0 => Reaches(k, cursor)

BatchInv(k) ==
  pending # <<>> => Run(pending) /\ pending[1] <= k + 1 /\ k <= pending[Len(pending)]

\* Where the client is once it has applied the first j frames.
Pos(k, j) ==
  IF j = 0 THEN IF pending = <<>> THEN k ELSE pending[Len(pending)]
  ELSE IF wire[j].kind = "snapshot" THEN wire[j].upTo
  ELSE wire[j].deltas[Len(wire[j].deltas)]

\* A frame's entries begin where the queue before it ends; the first of a
\* connection may repeat what the view has.
GoesOn(k, j) ==
  IF j = 1 /\ pending = <<>>
  THEN wire[j].deltas[1] <= k + 1 /\ k <= Pos(k, 1)
  ELSE wire[j].deltas[1] = Pos(k, j - 1) + 1

FrameInv(k, j) ==
  /\ wire[j].kind = "snapshot" =>
       /\ j = 1 /\ pending = <<>> /\ wire[j].upTo \in k .. Len(log)
       /\ Reaches(wire[j].upTo, wire[j].rev) /\ wire[j].rev <= lastSent
  /\ wire[j].kind = "delta" =>
       Run(wire[j].deltas) /\ (BeforeLag(j) => GoesOn(k, j))

WireInv(k) == \A j \in DOMAIN wire : FrameInv(k, j)

HandlerInv(k) ==
  /\ pc # "live" => wire = <<>> /\ pending = <<>>
  /\ pc \in {"accepted", "subscribed", "full"} => since = cursor
  /\ pc = "subscribed" => lastSent = since
  /\ pc = "live" /\ BeforeLag(Len(wire)) =>
       rx <= Pos(k, Len(wire)) + 1 /\ Reaches(Pos(k, Len(wire)), lastSent)

OrderInv ==
  /\ pc = "live" =>
       \A j \in 0 .. Len(wire) : \A s \in ToSet(Deltas(j)) : log[s].rev <= lastSent
  /\ \A i, j \in 0 .. Len(wire) : i < j =>
       \A s \in ToSet(Deltas(i)), t \in ToSet(Deltas(j)) : s < t
  /\ SnapshotCoversDeltas

PlaceInv(k) == ViewInv(k) /\ BatchInv(k) /\ WireInv(k) /\ HandlerInv(k)
IInv(k) == k \in Nat /\ LogInv /\ TypeInv /\ OrderInv /\ PlaceInv(k)

-----------------------------------------------------------------------------
(* Facts about positions and frames. *)

\* Every revision is past the entries it does not reach.
LEMMA LogGrew ==
  ASSUME LogInv, NEW e \in Entry, e.rev = revision + 1, log' = Append(log, e)
  PROVE  /\ Len(log') = Len(log) + 1 /\ log' \in Seq(Entry)
         /\ DOMAIN log' = 1 .. (Len(log) + 1) /\ DOMAIN log = 1 .. Len(log)
         /\ log'[Len(log) + 1] = e
         /\ \A s \in 1 .. Len(log) : log'[s] = log[s]
         /\ \A k \in 0 .. Len(log), r \in 0 .. revision : Reaches(k, r) => Reaches(k, r)'
         /\ \A k \in 0 .. Len(log) : Content(log', k) = Content(log, k)
         /\ \A q : Run(q) => Run(q)'
<1>1. log \in Seq(Entry) /\ revision \in Nat /\ Len(log) \in Nat
  BY DEF LogInv
<1>2. /\ Len(log') = Len(log) + 1 /\ log' \in Seq(Entry)
      /\ DOMAIN log' = 1 .. (Len(log) + 1) /\ DOMAIN log = 1 .. Len(log)
      /\ log'[Len(log) + 1] = e
      /\ \A s \in 1 .. Len(log) : log'[s] = log[s]
  BY <1>1
<1>3. ASSUME NEW k \in 0 .. Len(log), NEW r \in 0 .. revision, Reaches(k, r)
      PROVE  Reaches(k, r)'
  <2> SUFFICES ASSUME NEW s \in DOMAIN log' PROVE s <= k <=> log'[s].rev <= r
    BY DEF Reaches
  <2>1. CASE s \in DOMAIN log
    BY <1>2, <1>3, <2>1 DEF Reaches
  <2>2. CASE s = Len(log) + 1
    BY <1>1, <1>2, <2>2
  <2> QED BY <1>1, <1>2, <2>1, <2>2
<1>4. ASSUME NEW k \in 0 .. Len(log) PROVE Content(log', k) = Content(log, k)
  <2>1. k \in Nat /\ \A s \in 1 .. k : log'[s] = log[s]
    BY <1>1, <1>2
  <2> QED BY <2>1, ContentOfPrefix
<1>5. ASSUME NEW q, Run(q) PROVE Run(q)'
  <2>1. q \in Seq(1 .. Len(log')) 
    BY <1>1, <1>2, <1>5 DEF Run
  <2> QED BY <1>5, <2>1 DEF Run
<1> QED BY <1>2, <1>3, <1>4, <1>5

LEMMA WireFacts ==
  ASSUME TypeInv
  PROVE  Len(wire) \in Nat /\ DOMAIN wire = 1 .. Len(wire) /\ wire \in Seq(Frame)
BY DEF TypeInv

LEMMA FrameSent ==
  ASSUME TypeInv, NEW f, wire' = Append(wire, f), pending' = pending
  PROVE  \A k : \A j \in 0 .. Len(wire) : Pos(k, j)' = Pos(k, j)
<1>1. wire \in Seq(Frame)
  BY DEF TypeInv
<1> QED BY <1>1, QueueGrew DEF Pos

LEMMA FrameTaken ==
  ASSUME TypeInv, wire # <<>>, wire' = Tail(wire)
  PROVE  \A k, m : \A j \in 1 .. (Len(wire) - 1) : Pos(m, j)' = Pos(k, j + 1)
<1>1. wire \in Seq(Frame)
  BY DEF TypeInv
<1> QED BY <1>1, QueueShrank DEF Pos

\* What an unchanged log keeps.
LEMMA LogKept ==
  ASSUME UNCHANGED server
  PROVE  /\ LogInv => LogInv'
         /\ \A k, r : Reaches(k, r)' <=> Reaches(k, r)
         /\ \A q : Run(q)' <=> Run(q)
<1>1. UNCHANGED <<log, revision, ringFrom, sent>>
  BY DEF server
<1>2. LogInv => LogInv'
  BY <1>1 DEF LogInv
<1> QED BY <1>1, <1>2 DEF Reaches, Run

LEMMA EntryType ==
  ASSUME LogInv, NEW s \in 1 .. Len(log)
  PROVE  log[s].rev \in Nat \ {0} /\ log[s].item \in Items
<1>1. log[s] \in Entry
  BY DEF LogInv
<1> QED BY <1>1 DEF Entry

LEMMA LaterIsGreater ==
  ASSUME LogInv, NEW s \in 1 .. Len(log), NEW t \in 1 .. Len(log),
         log[s].rev < log[t].rev
  PROVE  s < t
<1>1. log[s].rev \in Nat /\ log[t].rev \in Nat
  BY EntryType
<1>2. DOMAIN log = 1 .. Len(log) /\ Len(log) \in Nat
  BY DEF LogInv
<1>3. ~ (t < s)
  <2> SUFFICES ASSUME t < s PROVE FALSE
    OBVIOUS
  <2>1. log[t].rev < log[s].rev
    BY <1>2 DEF LogInv
  <2> QED BY <1>1, <2>1
<1>4. t # s
  BY <1>1
<1> QED BY <1>2, <1>3, <1>4

LEMMA DeltasAreEntries ==
  ASSUME NEW k, IInv(k), NEW j \in 0 .. Len(wire)
  PROVE  /\ ToSet(Deltas(j)) \subseteq 1 .. Len(log)
         /\ \A a, b \in DOMAIN Deltas(j) : a < b => Deltas(j)[a] < Deltas(j)[b]
         /\ \A s \in ToSet(Deltas(j)) : log[s].rev <= lastSent
<1>1. log \in Seq(Entry)
  BY DEF IInv, LogInv
<1>2. Run(Deltas(j)) \/ Deltas(j) = <<>>
  <2>1. CASE j = 0
    BY <2>1 DEF IInv, PlaceInv, BatchInv, Deltas
  <2>2. CASE j # 0
    <3>1. FrameInv(k, j)
      BY <2>2, WireFacts DEF IInv, PlaceInv, WireInv
    <3> QED BY <2>2, <3>1 DEF FrameInv, Deltas
  <2> QED BY <2>1, <2>2
<1>3. CASE Deltas(j) = <<>>
  BY <1>3 DEF ToSet
<1>4. CASE Run(Deltas(j))
  <2> DEFINE q == Deltas(j)
  <2>1. /\ DOMAIN q = 1 .. Len(q) /\ q[1] \in 1 .. Len(log) /\ q[Len(q)] \in 1 .. Len(log)
        /\ ToSet(q) = q[1] .. q[Len(q)] /\ Len(log) \in Nat
    <3> HIDE DEF q
    <3> QED BY <1>1, <1>4, RunEnds DEF q
  <2>2. \A a \in DOMAIN q : q[a] = q[1] + a - 1
    BY <1>4 DEF Run
  <2> HIDE DEF q
  <2>3. ToSet(q) \subseteq 1 .. Len(log)
    BY <2>1
  <2>4. \A a, b \in DOMAIN q : a < b => q[a] < q[b]
    BY <2>1, <2>2
  <2>5. pc = "live"
    <3>1. ~ (wire = <<>> /\ pending = <<>>)
      <4> SUFFICES ASSUME wire = <<>>, pending = <<>> PROVE FALSE
        OBVIOUS
      <4>1. Deltas(j) = <<>>
        BY DEF Deltas
      <4> QED BY <1>4, <4>1 DEF Run
    <3> QED BY <3>1 DEF IInv, PlaceInv, HandlerInv
  <2>6. \A s \in ToSet(q) : log[s].rev <= lastSent
    BY <2>5 DEF IInv, OrderInv, q
  <2> QED BY <2>3, <2>4, <2>6 DEF q
<1> QED BY <1>2, <1>3, <1>4

-----------------------------------------------------------------------------
(* The handler sends a frame. *)

LEMMA SendDelta ==
  ASSUME NEW k, IInv(k), NEW d, Run(d),
         wire' = Append(wire, [kind |-> "delta", deltas |-> d]),
         UNCHANGED <<server, since, client, drops>>, pc' = "live",
         lastSent' \in lastSent .. revision, rx' \in 1 .. sent + 1,
         \A s \in ToSet(d) : lastSent < log[s].rev /\ log[s].rev <= lastSent',
         pc = "live" \/ (wire = <<>> /\ pending = <<>>),
         BeforeLag(Len(wire)) =>
           /\ IF wire = <<>> /\ pending = <<>>
              THEN d[1] <= k + 1 /\ k <= d[Len(d)]
              ELSE d[1] = Pos(k, Len(wire)) + 1
           /\ rx' <= d[Len(d)] + 1 /\ Reaches(d[Len(d)], lastSent')
  PROVE  IInv(k)'
<1> DEFINE f == [kind |-> "delta", deltas |-> d]
<1>1. UNCHANGED <<log, revision, ringFrom, sent, cursor, view, pending, since, drops>>
  BY DEF server, client
<1>2. PICK n : n = Len(wire) + 1
  OBVIOUS
<1>3. /\ Len(wire) \in Nat /\ DOMAIN wire = 1 .. Len(wire)
      /\ Len(wire') = n /\ DOMAIN wire' = 1 .. n /\ wire'[n] = f
      /\ \A j \in 1 .. Len(wire) : wire'[j] = wire[j]
      /\ \A j \in 0 .. Len(wire) : Deltas(j)' = Deltas(j)
      /\ \A j \in 0 .. Len(wire) : BeforeLag(j)' <=> BeforeLag(j)
      /\ \A j \in 0 .. Len(wire) : Pos(k, j)' = Pos(k, j)
      /\ Deltas(n)' = d /\ (BeforeLag(n)' <=> BeforeLag(Len(wire)))
  <2> HIDE DEF f
  <2>1. f.kind = "delta" /\ f.deltas = d
    BY DEF f
  <2> QED BY <1>1, <1>2, <2>1, FrameSent, QueueGrew DEF IInv, TypeInv, f
<1>4. LogInv' /\ log \in Seq(Entry)
  BY LogKept DEF IInv, LogInv
<1>5. TypeInv'
  <2>1. d \in Seq(Nat)
    <3>1. d \in Seq(1 .. Len(log)) /\ Len(log) \in Nat
      BY <1>4 DEF Run
    <3>2. 1 .. Len(log) \subseteq Nat
      OBVIOUS
    <3> QED BY <3>1, <3>2
  <2>2. f \in Frame
    BY <2>1 DEF Frame
  <2>3. wire' \in Seq(Frame)
    BY <2>2 DEF IInv, TypeInv
  <2>4. lastSent' \in 0 .. revision'
    BY <1>1 DEF IInv, TypeInv, LogInv
  <2> QED BY <1>1, <2>3, <2>4 DEF IInv, TypeInv
<1>6. Pos(k, n)' = d[Len(d)]
  BY <1>2, <1>3 DEF Pos
<1>7. ASSUME NEW j \in DOMAIN wire' PROVE FrameInv(k, j)'
  <2>1. CASE j \in 1 .. Len(wire)
    <3>1. FrameInv(k, j)
      BY <1>3, <2>1 DEF IInv, PlaceInv, WireInv
    <3>2. wire'[j] = wire[j] /\ j \in 0 .. Len(wire) /\ j - 1 \in 0 .. Len(wire)
      BY <1>3, <2>1
    <3>3. GoesOn(k, j) => GoesOn(k, j)'
      <4>1. j = 1 => Pos(k, 1)' = Pos(k, 1)
        BY <1>3, <3>2
      <4>2. Pos(k, j - 1)' = Pos(k, j - 1)
        BY <1>3, <3>2
      <4> QED BY <1>1, <3>2, <4>1, <4>2 DEF GoesOn
    <3>4. wire[j].kind = "snapshot" => wire[j].rev <= lastSent'
      <4>1. CASE wire[j].kind = "snapshot"
        <5>1. wire[j] \in Frame
          BY <1>3, <2>1 DEF IInv, TypeInv
        <5>2. wire[j].rev \in Nat
          BY <4>1, <5>1 DEF Frame
        <5>3. wire[j].rev <= lastSent
          BY <3>1, <4>1 DEF FrameInv
        <5> QED BY <5>2, <5>3 DEF IInv, TypeInv, LogInv
      <4> QED BY <4>1
    <3> QED BY <1>1, <1>3, <3>1, <3>2, <3>3, <3>4, LogKept DEF FrameInv
  <2>2. CASE j = n
    <3>1. wire'[j] = f /\ Run(d)'
      BY <1>3, <2>2, LogKept
    <3>2. BeforeLag(j)' => GoesOn(k, j)'
      <4> SUFFICES ASSUME BeforeLag(n)' PROVE GoesOn(k, n)'
        BY <2>2
      <4>1. BeforeLag(Len(wire)) /\ Pos(k, Len(wire))
                                       = Pos(k, n - 1) /\ n - 1 \in 0 .. Len(wire)
        BY <1>2, <1>3
      <4>2. Pos(k, n - 1)' = Pos(k, n - 1)
        BY <1>3, <4>1
      <4>3. wire = <<>> <=> n = 1
        BY <1>2, <1>3
      <4>4. CASE wire = <<>> /\ pending = <<>>
        BY <1>1, <1>3, <1>6, <4>1, <4>3, <4>4 DEF GoesOn
      <4>5. CASE ~ (wire = <<>> /\ pending = <<>>)
        BY <1>1, <1>3, <4>1, <4>2, <4>3, <4>5 DEF GoesOn
      <4> QED BY <4>4, <4>5
    <3> QED BY <3>1, <3>2 DEF FrameInv
  <2> QED BY <1>2, <1>3, <2>1, <2>2
<1>8. HandlerInv(k)'
  BY <1>3, <1>6, <1>1, LogKept DEF HandlerInv
<1>9. ViewInv(k)' /\ BatchInv(k)'
  BY <1>1, LogKept DEF IInv, PlaceInv, ViewInv, BatchInv
<1>10. OrderInv'
  <2>1. \A j \in 0 .. Len(wire) : \A s \in ToSet(Deltas(j)) :
          s \in 1 .. Len(log) /\ log[s].rev <= lastSent
    BY DeltasAreEntries DEF IInv, OrderInv
  <2>2. \A s \in ToSet(d) : s \in 1 .. Len(log)
    BY <1>4, RunEnds
  <2>3. ASSUME NEW j \in 0 .. n, NEW s \in ToSet(Deltas(j))' PROVE log'[s].rev <= lastSent'
    <3>1. CASE j \in 0 .. Len(wire)
      <4>1. s \in 1 .. Len(log) /\ log[s].rev <= lastSent
        BY <1>3, <2>1, <2>3, <3>1
      <4>2. log[s].rev \in Nat /\ lastSent \in Nat /\ revision \in Nat
        <5>1. LogInv /\ lastSent \in Nat /\ revision \in Nat
          BY DEF IInv, TypeInv, LogInv
        <5>2. log[s].rev \in Nat \ {0}
          BY <4>1, <5>1, EntryType, Zenon
        <5> QED BY <5>1, <5>2
      <4>3. log[s].rev <= lastSent'
        BY <4>1, <4>2
      <4> QED BY <1>1, <4>3
    <3>2. CASE j = n
      BY <1>1, <1>3, <2>3, <3>2
    <3> QED BY <1>2, <1>3, <3>1, <3>2
  <2>4. ASSUME NEW i \in 0 .. n, NEW j \in 0 .. n, i < j,
               NEW s \in ToSet(Deltas(i))', NEW t \in ToSet(Deltas(j))'
        PROVE  s < t
    <3>1. i \in 0 .. Len(wire) /\ s \in ToSet(Deltas(i))
      BY <1>2, <1>3, <2>4
    <3>2. CASE j \in 0 .. Len(wire)
      <4>1. t \in ToSet(Deltas(j))
        BY <1>3, <2>4, <3>2
      <4> QED BY <2>4, <3>1, <3>2, <4>1 DEF IInv, OrderInv
    <3>3. CASE j = n
      <4>1. t \in ToSet(d)
        BY <1>3, <2>4, <3>3
      <4>2. /\ s \in 1 .. Len(log) /\ t \in 1 .. Len(log)
            /\ log[s].rev <= lastSent /\ lastSent < log[t].rev
        <5>1. s \in 1 .. Len(log) /\ log[s].rev <= lastSent
          BY <2>1, <3>1, Zenon
        <5>2. t \in 1 .. Len(log) /\ lastSent < log[t].rev
          BY <2>2, <4>1, Zenon
        <5> QED BY <5>1, <5>2
      <4>3. log[s].rev \in Nat /\ log[t].rev \in Nat /\ lastSent \in Nat
        <5>1. LogInv /\ lastSent \in Nat
          BY DEF IInv, TypeInv, LogInv
        <5>2. log[s].rev \in Nat \ {0} /\ log[t].rev \in Nat \ {0}
          BY <4>2, <5>1, EntryType, Zenon
        <5> QED BY <5>1, <5>2
      <4>4. log[s].rev < log[t].rev
        BY <4>2, <4>3
      <4> QED BY <4>2, <4>4, LaterIsGreater DEF IInv
    <3> QED BY <1>2, <1>3, <3>2, <3>3
  <2>5. SnapshotCoversDeltas'
    <3> SUFFICES ASSUME NEW i \in DOMAIN wire', NEW j \in DOMAIN wire', i < j,
                        wire'[i].kind = "snapshot", wire'[j].kind = "delta",
                        NEW s \in ToSet(wire'[j].deltas)
                 PROVE  log'[s].rev > wire'[i].rev
      BY DEF SnapshotCoversDeltas
    <3>1. i \in 1 .. Len(wire) /\ wire'[i] = wire[i]
      BY <1>2, <1>3
    <3>2. CASE j \in 1 .. Len(wire)
      BY <1>1, <1>3, <3>1, <3>2 DEF IInv, OrderInv, SnapshotCoversDeltas
    <3>3. CASE j = n
      <4>1. s \in 1 .. Len(log) /\ lastSent < log[s].rev
        BY <1>3, <2>2, <3>3
      <4>2. wire[i] \in Frame /\ wire[i].kind = "snapshot"
        BY <3>1, <1>3 DEF IInv, TypeInv
      <4>3. wire[i].rev \in Nat
        BY <4>2 DEF Frame
      <4>4. FrameInv(k, i)
        BY <1>3, <3>1 DEF IInv, PlaceInv, WireInv
      <4>5. wire[i].rev <= lastSent
        BY <4>2, <4>4 DEF FrameInv
      <4>6. lastSent \in Nat /\ log[s].rev \in Nat
        BY <4>1, EntryType DEF IInv, TypeInv, LogInv
      <4> QED BY <1>1, <3>1, <4>1, <4>3, <4>5, <4>6
    <3> QED BY <1>2, <1>3, <3>2, <3>3
  <2> QED BY <1>3, <2>3, <2>4, <2>5 DEF OrderInv
<1> QED BY <1>4, <1>5, <1>7, <1>8, <1>9, <1>10 DEF IInv, PlaceInv, WireInv

LEMMA SendLagged ==
  ASSUME NEW k, IInv(k), wire' = Append(wire, [kind |-> "lagged"]),
         UNCHANGED <<server, pc, since, lastSent, client, drops>>, pc = "live",
         rx' \in 1 .. sent + 1
  PROVE  IInv(k)'
<1> DEFINE f == [kind |-> "lagged"]
<1>1. UNCHANGED <<log, revision, ringFrom, sent, cursor, view, pending, since, drops>>
  BY DEF server, client
<1>2. PICK n : n = Len(wire) + 1
  OBVIOUS
<1>3. /\ Len(wire) \in Nat /\ DOMAIN wire = 1 .. Len(wire)
      /\ Len(wire') = n /\ DOMAIN wire' = 1 .. n /\ wire'[n] = f
      /\ \A j \in 1 .. Len(wire) : wire'[j] = wire[j]
      /\ \A j \in 0 .. Len(wire) : Deltas(j)' = Deltas(j)
      /\ \A j \in 0 .. Len(wire) : BeforeLag(j)' <=> BeforeLag(j)
      /\ \A j \in 0 .. Len(wire) : Pos(k, j)' = Pos(k, j)
      /\ Deltas(n)' = <<>> /\ ~ BeforeLag(n)'
  <2> HIDE DEF f
  <2>1. f.kind = "lagged"
    BY DEF f
  <2> QED BY <1>1, <1>2, <2>1, FrameSent, QueueGrew DEF IInv, TypeInv, f
<1>4. LogInv'
  BY LogKept DEF IInv
<1>5. TypeInv'
  <2>1. f \in Frame
    BY DEF Frame
  <2>2. wire' \in Seq(Frame)
    BY <2>1 DEF IInv, TypeInv
  <2> QED BY <1>1, <2>2 DEF IInv, TypeInv
<1>6. ASSUME NEW j \in DOMAIN wire' PROVE FrameInv(k, j)'
  <2>1. CASE j \in 1 .. Len(wire)
    <3>1. FrameInv(k, j)
      BY <1>3, <2>1 DEF IInv, PlaceInv, WireInv
    <3>2. wire'[j] = wire[j] /\ j \in 0 .. Len(wire) /\ j - 1 \in 0 .. Len(wire)
      BY <1>3, <2>1
    <3>3. GoesOn(k, j) => GoesOn(k, j)'
      <4>1. j = 1 => Pos(k, 1)' = Pos(k, 1)
        BY <1>3, <3>2
      <4>2. Pos(k, j - 1)' = Pos(k, j - 1)
        BY <1>3, <3>2
      <4> QED BY <1>1, <3>2, <4>1, <4>2 DEF GoesOn
    <3> QED BY <1>1, <1>3, <3>1, <3>2, <3>3, LogKept DEF FrameInv
  <2>2. CASE j = n
    BY <1>3, <2>2 DEF FrameInv
  <2> QED BY <1>2, <1>3, <2>1, <2>2
<1>7. HandlerInv(k)'
  BY <1>3, <1>1 DEF HandlerInv
<1>8. ViewInv(k)' /\ BatchInv(k)'
  BY <1>1, LogKept DEF IInv, PlaceInv, ViewInv, BatchInv
<1>9. OrderInv'
  <2>1. ASSUME NEW j \in 0 .. n PROVE Deltas(j)' = IF j = n THEN <<>> ELSE Deltas(j)
    BY <1>2, <1>3
  <2>2. ToSet(<<>>) = {}
    BY DEF ToSet
  <2>3. \A j \in 0 .. n : \A s \in ToSet(Deltas(j))' : j \in 0 .. Len(wire) /\ s \in ToSet(Deltas(j))
    BY <1>2, <1>3, <2>1, <2>2
  <2>4. \A j \in 0 .. n : \A s \in ToSet(Deltas(j))' : log'[s].rev <= lastSent'
    BY <1>1, <2>3 DEF IInv, OrderInv
  <2>5. \A i, j \in 0 .. n : i < j =>
          \A s \in ToSet(Deltas(i))', t \in ToSet(Deltas(j))' : s < t
    BY <2>3 DEF IInv, OrderInv
  <2>6. SnapshotCoversDeltas'
    <3> SUFFICES ASSUME NEW i \in DOMAIN wire', NEW j \in DOMAIN wire', i < j,
                        wire'[i].kind = "snapshot", wire'[j].kind = "delta",
                        NEW s \in ToSet(wire'[j].deltas)
                 PROVE  log'[s].rev > wire'[i].rev
      BY DEF SnapshotCoversDeltas
    <3>1. i \in 1 .. Len(wire) /\ j \in 1 .. Len(wire)
      BY <1>2, <1>3
    <3> QED BY <1>1, <1>3, <3>1 DEF IInv, OrderInv, SnapshotCoversDeltas
  <2> QED BY <1>3, <2>4, <2>5, <2>6 DEF OrderInv
<1> QED BY <1>4, <1>5, <1>6, <1>7, <1>8, <1>9 DEF IInv, PlaceInv, WireInv

\* The snapshot is the connection's first frame, made under the lock.
LEMMA SendSnapshot ==
  ASSUME NEW k, IInv(k), FullSnapshot
  PROVE  IInv(k)'
<1> DEFINE f == [kind |-> "snapshot", rev |-> revision, upTo |-> Len(log)]
<1>1. /\ UNCHANGED <<log, revision, ringFrom, sent, cursor, view, pending, since, drops, rx>>
      /\ UNCHANGED server
      /\ pc = "full" /\ pc' = "live" /\ wire' = Append(wire, f) /\ lastSent' = revision
  BY DEF FullSnapshot, Send, server, client
<1>2. wire = <<>> /\ pending = <<>>
  BY <1>1 DEF IInv, PlaceInv, HandlerInv
<1>3. wire' = <<f>> /\ Len(wire') = 1 /\ DOMAIN wire' = {1} /\ wire'[1] = f
  BY <1>1, <1>2
<1>4. LogInv' /\ log \in Seq(Entry) /\ Len(log) \in Nat /\ revision \in Nat
  BY <1>1, LogKept DEF IInv, LogInv
<1>5. TypeInv'
  <2>1. f \in Frame
    BY <1>4 DEF Frame
  <2>2. wire' \in Seq(Frame)
    BY <1>3, <2>1
  <2> QED BY <1>1, <1>4, <2>2 DEF IInv, TypeInv
<1>6. Reaches(Len(log), revision)
  <2> SUFFICES ASSUME NEW s \in DOMAIN log PROVE s <= Len(log) /\ log[s].rev <= revision
    BY DEF Reaches
  <2> QED BY <1>4 DEF IInv, LogInv
<1>7. Reaches(Len(log), revision)'
  BY <1>1, <1>6 DEF Reaches
<1>8. ViewInv(k)' /\ BatchInv(k)' /\ k \in 0 .. Len(log)
  BY <1>1, LogKept DEF IInv, PlaceInv, ViewInv, BatchInv
<1>9. WireInv(k)'
  <2>1. FrameInv(k, 1)'
    BY <1>1, <1>2, <1>3, <1>4, <1>7, <1>8 DEF FrameInv, Reaches
  <2> QED BY <1>3, <2>1 DEF WireInv
<1>10. HandlerInv(k)'
  <2>1. \A n : n = 1 => Pos(k, n)' = Len(log)
    BY <1>3 DEF Pos
  <2>2. Pos(k, Len(wire))' = Len(log)
    BY <1>3, <2>1
  <2>3. rx <= Len(log) + 1
    BY <1>4 DEF IInv, TypeInv, LogInv
  <2> QED BY <1>1, <1>6, <2>2, <2>3 DEF HandlerInv, Reaches
<1>11. OrderInv'
  <2>1. \A j \in 0 .. 1 : Deltas(j)' = <<>>
    BY <1>1, <1>2, <1>3 DEF Deltas
  <2>2. \A j \in 0 .. 1 : ToSet(Deltas(j))' = {}
    BY <2>1 DEF ToSet
  <2>3. SnapshotCoversDeltas'
    BY <1>3 DEF SnapshotCoversDeltas
  <2> QED BY <1>3, <2>2, <2>3 DEF OrderInv
<1> QED BY <1>4, <1>5, <1>8, <1>9, <1>10, <1>11 DEF IInv, PlaceInv

-----------------------------------------------------------------------------
(* The chain entity. *)

LEMMA PositionIsEntry ==
  ASSUME NEW k, IInv(k), NEW j \in 0 .. Len(wire), BeforeLag(j)
  PROVE  Pos(k, j) \in 0 .. Len(log)
<1>1. log \in Seq(Entry) /\ k \in 0 .. Len(log) /\ Len(log) \in Nat
  BY DEF IInv, LogInv, PlaceInv, ViewInv
<1>2. CASE j = 0
  <2>1. CASE pending = <<>>
    BY <1>1, <1>2, <2>1 DEF Pos
  <2>2. CASE pending # <<>>
    <3>1. Run(pending)
      BY <2>2 DEF IInv, PlaceInv, BatchInv
    <3>2. pending[Len(pending)] \in 1 .. Len(log)
      BY <1>1, <3>1, RunEnds
    <3> QED BY <1>1, <1>2, <2>2, <3>2 DEF Pos
  <2> QED BY <2>1, <2>2
<1>3. CASE j # 0
  <2>1. /\ j \in 1 .. Len(wire) /\ wire[j] \in Frame /\ wire[j].kind # "lagged"
        /\ FrameInv(k, j)
    BY <1>3, WireFacts DEF BeforeLag, IInv, PlaceInv, WireInv
  <2>2. CASE wire[j].kind = "snapshot"
    <3>1. wire[j].upTo \in k .. Len(log)
      BY <2>1, <2>2 DEF FrameInv
    <3> QED BY <1>1, <1>3, <2>2, <3>1 DEF Pos
  <2>3. CASE wire[j].kind = "delta"
    <3>1. Run(wire[j].deltas)
      BY <2>1, <2>3 DEF FrameInv
    <3>2. wire[j].deltas[Len(wire[j].deltas)] \in 1 .. Len(log)
      BY <1>1, <3>1, RunEnds
    <3> QED BY <1>1, <1>3, <2>3, <3>2 DEF Pos
  <2> QED BY <2>1, <2>2, <2>3 DEF Frame
<1> QED BY <1>2, <1>3

LEMMA EntryApplied ==
  ASSUME NEW k, IInv(k), ApplyVisible
  PROVE  IInv(k)'
<1>1. /\ log \in Seq(Entry) /\ Len(log) \in Nat /\ revision \in Nat /\ sent \in Nat
      /\ sent = Len(log) /\ revision' = revision + 1
      /\ UNCHANGED <<sent, rx, lastSent, pc, since, wire, cursor, view, pending, drops>>
  BY DEF ApplyVisible, Locked, IInv, LogInv, handler, socket, client
<1>2. PICK x \in Items : log' = Append(log, [rev |-> revision + 1, item |-> x])
  BY DEF ApplyVisible
<1> DEFINE e == [rev |-> revision + 1, item |-> x]
<1>3. /\ Len(log') = Len(log) + 1 /\ log' \in Seq(Entry)
      /\ DOMAIN log' = 1 .. (Len(log) + 1) /\ DOMAIN log = 1 .. Len(log)
      /\ log'[Len(log) + 1] = e
      /\ \A s \in 1 .. Len(log) : log'[s] = log[s]
      /\ \A m \in 0 .. Len(log), r \in 0 .. revision : Reaches(m, r) => Reaches(m, r)'
      /\ \A m \in 0 .. Len(log) : Content(log', m) = Content(log, m)
      /\ \A q : Run(q) => Run(q)'
  <2>1. e \in Entry /\ e.rev = revision + 1
    BY <1>1 DEF Entry
  <2> HIDE DEF e
  <2> QED BY <1>2, <2>1, LogGrew DEF e, IInv
<1>4. LogInv'
  <2>1. \A s \in 1 .. Len(log) : log[s].rev \in Nat /\ log[s].rev <= revision
    BY <1>3, EntryType DEF IInv, LogInv
  <2>2. \A s, t \in DOMAIN log' : s < t => log'[s].rev < log'[t].rev
    <3> SUFFICES ASSUME NEW s \in DOMAIN log', NEW t \in DOMAIN log', s < t
                 PROVE  log'[s].rev < log'[t].rev
      OBVIOUS
    <3>1. s \in 1 .. Len(log) /\ log'[s] = log[s]
      BY <1>1, <1>3
    <3>2. CASE t \in 1 .. Len(log)
      BY <1>3, <3>1, <3>2 DEF IInv, LogInv
    <3>3. CASE t = Len(log) + 1
      BY <1>1, <1>3, <2>1, <3>1, <3>3
    <3> QED BY <1>1, <1>3, <3>2, <3>3
  <2>3. \A s \in DOMAIN log' : log'[s].rev <= revision'
    <3> SUFFICES ASSUME NEW s \in DOMAIN log' PROVE log'[s].rev <= revision + 1
      BY <1>1
    <3>1. CASE s \in 1 .. Len(log)
      BY <1>1, <1>3, <2>1, <3>1
    <3>2. CASE s = Len(log) + 1
      BY <1>1, <1>3, <3>2
    <3> QED BY <1>1, <1>3, <3>1, <3>2
  <2>4. ringFrom' \in 1 .. Len(log')
    <3>1. ringFrom \in 1 .. Len(log) + 1 /\ RingCap \in Nat \ {0}
      BY StreamAssumption DEF IInv, LogInv
    <3>2. CASE ringFrom' = Max({ringFrom, Len(log) + 2 - RingCap})
      <4>1. ringFrom' \in {ringFrom, Len(log) + 2 - RingCap} /\ ringFrom' >= ringFrom
        BY <1>1, <3>1, <3>2, MaxOfTwo
      <4> QED BY <1>1, <1>3, <3>1, <4>1
    <3>3. CASE ringFrom' = Len(log) + 1
      BY <1>1, <1>3, <3>3
    <3> QED BY <3>2, <3>3 DEF ApplyVisible
  <2> QED BY <1>1, <1>3, <2>2, <2>3, <2>4 DEF LogInv
<1>5. TypeInv'
  BY <1>1 DEF IInv, TypeInv
<1>6. ViewInv(k)' /\ BatchInv(k)'
  <2>1. k \in 0 .. Len(log) /\ cursor \in 0 .. revision /\ ViewInv(k) /\ BatchInv(k)
    BY DEF IInv, PlaceInv, ViewInv, TypeInv
  <2> QED BY <1>1, <1>3, <2>1 DEF ViewInv, BatchInv
<1>7. \A j : Pos(k, j)' = Pos(k, j) /\ (BeforeLag(j)' <=> BeforeLag(j)) /\ Deltas(j)' = Deltas(j)
  BY <1>1 DEF Pos, BeforeLag, Deltas
<1>8. WireInv(k)'
  <2> SUFFICES ASSUME NEW j \in DOMAIN wire PROVE FrameInv(k, j)'
    BY <1>1 DEF WireInv
  <2>1. FrameInv(k, j) /\ k \in Nat /\ lastSent \in 0 .. revision /\ wire[j] \in Frame
    BY DEF IInv, PlaceInv, WireInv, TypeInv
  <2>2. CASE wire[j].kind = "snapshot"
    <3>1. /\ j = 1 /\ pending = <<>> /\ wire[j].upTo \in k .. Len(log)
          /\ Reaches(wire[j].upTo, wire[j].rev) /\ wire[j].rev <= lastSent
      BY <2>1, <2>2 DEF FrameInv
    <3>2. wire[j].rev \in Nat
      BY <2>1, <2>2 DEF Frame
    <3>3. Reaches(wire[j].upTo, wire[j].rev)'
      <4> DEFINE u == wire[j].upTo  r == wire[j].rev
      <4>1. u \in 0 .. Len(log) /\ r \in 0 .. revision /\ Reaches(u, r)
        BY <1>1, <2>1, <3>1, <3>2
      <4>2. PICK a : a = u
        OBVIOUS
      <4>3. PICK b : b = r
        OBVIOUS
      <4>4. Reaches(a, b)'
        BY <1>3, <4>1, <4>2, <4>3
      <4> QED BY <1>1, <4>2, <4>3, <4>4 DEF Reaches
    <3>4. wire[j].upTo \in k .. Len(log')
      BY <1>1, <1>3, <2>1, <3>1
    <3> QED BY <1>1, <2>2, <3>1, <3>3, <3>4 DEF FrameInv
  <2>3. CASE wire[j].kind # "snapshot"
    <3>1. wire[j].kind = "delta" => Run(wire[j].deltas)'
      <4> DEFINE d == wire[j].deltas
      <4>1. PICK a : a = d
        OBVIOUS
      <4>2. wire[j].kind = "delta" => Run(a)'
        BY <1>3, <2>1, <4>1 DEF FrameInv
      <4> QED BY <1>1, <4>1, <4>2 DEF Run
    <3>2. GoesOn(k, j) => GoesOn(k, j)'
      BY <1>1 DEF GoesOn, Pos
    <3> QED BY <1>1, <1>7, <2>1, <2>3, <3>1, <3>2 DEF FrameInv
  <2> QED BY <2>2, <2>3
<1>9. HandlerInv(k)'
  <2>1. HandlerInv(k) /\ Len(wire) \in Nat /\ lastSent \in 0 .. revision
    BY WireFacts DEF IInv, PlaceInv, TypeInv
  <2>2. CASE pc = "live" /\ BeforeLag(Len(wire))
    <3>1. Pos(k, Len(wire)) \in 0 .. Len(log)
      BY <2>1, <2>2, PositionIsEntry
    <3>2. PICK a : a = Pos(k, Len(wire))
      OBVIOUS
    <3>3. PICK b : b = lastSent
      OBVIOUS
    <3>4. Reaches(a, b)'
      BY <1>3, <2>1, <2>2, <3>1, <3>2, <3>3 DEF HandlerInv
    <3>5. Pos(k, Len(wire))' = a
      BY <1>1, <3>2 DEF Pos
    <3>6. Reaches(Pos(k, Len(wire)), lastSent)'
      BY <1>1, <3>3, <3>4, <3>5 DEF Reaches
    <3> QED BY <1>1, <2>1, <2>2, <3>2, <3>5, <3>6 DEF HandlerInv
  <2>3. CASE ~ (pc = "live" /\ BeforeLag(Len(wire)))
    BY <1>1, <2>1, <2>3 DEF HandlerInv, BeforeLag
  <2> QED BY <2>2, <2>3
<1>10. OrderInv'
  <2>1. \A j \in 0 .. Len(wire) : \A s \in ToSet(Deltas(j)) : log'[s] = log[s]
    BY <1>3, DeltasAreEntries
  <2>2. SnapshotCoversDeltas'
    <3> SUFFICES ASSUME NEW i \in DOMAIN wire, NEW j \in DOMAIN wire, i < j,
                        wire[i].kind = "snapshot", wire[j].kind = "delta",
                        NEW s \in ToSet(wire[j].deltas)
                 PROVE  log'[s].rev > wire[i].rev
      BY <1>1 DEF SnapshotCoversDeltas
    <3>1. j \in 0 .. Len(wire) /\ Deltas(j) = wire[j].deltas
      BY WireFacts DEF Deltas, IInv
    <3> QED BY <2>1, <3>1 DEF IInv, OrderInv, SnapshotCoversDeltas
  <2> QED BY <1>1, <1>7, <2>1, <2>2 DEF OrderInv, IInv
<1> QED BY <1>4, <1>5, <1>6, <1>8, <1>9, <1>10 DEF IInv, PlaceInv

\* A hidden mutation, and the broadcast of a shown one.
LEMMA ChainMoved ==
  ASSUME NEW k, IInv(k), revision' \in {revision, revision + 1},
         sent' = sent \/ (sent' = sent + 1 /\ Locked),
         UNCHANGED <<log, ringFrom, handler, socket, client, drops>>
  PROVE  IInv(k)'
<1>1. UNCHANGED <<log, ringFrom, rx, lastSent, pc, since, wire, cursor, view, pending, drops>>
  BY DEF handler, socket, client
<1>2. revision \in Nat /\ sent \in Nat /\ Len(log) \in Nat /\ log \in Seq(Entry)
  BY DEF IInv, LogInv
<1>3. LogInv'
  <2>1. \A s \in DOMAIN log : log[s].rev <= revision'
    <3> SUFFICES ASSUME NEW s \in DOMAIN log PROVE log[s].rev <= revision'
      OBVIOUS
    <3>1. log[s].rev \in Nat /\ log[s].rev <= revision
      BY EntryType, <1>2 DEF IInv, LogInv
    <3> QED BY <1>2, <3>1
  <2>2. sent' \in Nat /\ sent' \in {Len(log) - 1, Len(log)}
    BY <1>2 DEF IInv, LogInv, Locked
  <2>3. revision' \in Nat
    BY <1>2
  <2> QED BY <1>1, <2>1, <2>2, <2>3 DEF IInv, LogInv
<1>4. TypeInv'
  BY <1>1, <1>2 DEF IInv, TypeInv
<1>5. \A m, r : Reaches(m, r)' <=> Reaches(m, r)
  BY <1>1 DEF Reaches
<1>6. \A q : Run(q)' <=> Run(q)
  BY <1>1 DEF Run
<1>7. PlaceInv(k)'
  <2>1. ViewInv(k)' /\ BatchInv(k)'
    BY <1>1, <1>5, <1>6 DEF IInv, PlaceInv, ViewInv, BatchInv
  <2>2. WireInv(k)'
    BY <1>1 DEF IInv, PlaceInv, WireInv, FrameInv, Reaches, Run, BeforeLag, GoesOn, Pos
  <2>3. HandlerInv(k)'
    BY <1>1 DEF IInv, PlaceInv, HandlerInv, Reaches, BeforeLag, Pos
  <2> QED BY <2>1, <2>2, <2>3 DEF PlaceInv
<1>8. OrderInv'
  BY <1>1 DEF IInv, OrderInv, Deltas, SnapshotCoversDeltas
<1> QED BY <1>3, <1>4, <1>7, <1>8 DEF IInv

LEMMA ChainStep ==
  ASSUME NEW k, IInv(k), Apply
  PROVE  IInv(k)'
<1>1. CASE ApplyVisible
  BY <1>1, EntryApplied
<1>2. CASE ApplyHidden
  BY <1>2, ChainMoved DEF ApplyHidden
<1>3. CASE Broadcast
  BY <1>3, ChainMoved DEF Broadcast
<1> QED BY <1>1, <1>2, <1>3 DEF Apply

-----------------------------------------------------------------------------
(* The handler. *)

\* While nothing is queued only the view and the handler are at stake.
LEMMA EmptyQueue ==
  ASSUME NEW k, IInv(k), NEW m \in Nat, UNCHANGED server, wire' = <<>>, pending' = <<>>,
         TypeInv', ViewInv(m)', HandlerInv(m)'
  PROVE  IInv(m)'
<1>1. LogInv'
  BY LogKept DEF IInv
<1>2. Len(wire') = 0 /\ DOMAIN wire' = {}
  OBVIOUS
<1>3. BatchInv(m)' /\ WireInv(m)'
  BY <1>2 DEF BatchInv, WireInv
<1>4. OrderInv'
  <2>1. \A j \in 0 .. 0 : ToSet(Deltas(j))' = {}
    BY DEF Deltas, ToSet
  <2> QED BY <1>2, <2>1 DEF OrderInv, SnapshotCoversDeltas
<1> QED BY <1>1, <1>3, <1>4 DEF IInv, PlaceInv

LEMMA NothingQueued ==
  ASSUME NEW k, IInv(k), wire = <<>>, pending = <<>>,
         UNCHANGED <<server, wire, client, drops>>, TypeInv', HandlerInv(k)'
  PROVE  IInv(k)'
<1>1. UNCHANGED <<log, cursor, view, pending>> /\ k \in Nat
  BY DEF server, client, IInv
<1>2. ViewInv(k)'
  BY <1>1, LogKept DEF IInv, PlaceInv, ViewInv
<1> QED BY <1>1, <1>2, EmptyQueue

LEMMA Subscribed ==
  ASSUME NEW k, IInv(k), Subscribe
  PROVE  IInv(k)'
<1>1. /\ wire = <<>> /\ pending = <<>> /\ since = cursor
      /\ UNCHANGED <<server, wire, client, drops, since>>
      /\ pc' = "subscribed" /\ rx' = sent + 1 /\ lastSent' = since
  BY DEF Subscribe, IInv, PlaceInv, HandlerInv
<1>2. UNCHANGED <<revision, sent, cursor, pending>> /\ sent \in Nat
  BY <1>1 DEF server, client, IInv, LogInv
<1>3. TypeInv'
  BY <1>1, <1>2 DEF IInv, TypeInv
<1>4. HandlerInv(k)'
  BY <1>1, <1>2 DEF HandlerInv
<1> QED BY <1>1, <1>3, <1>4, NothingQueued

\* The newest revision of the ring is the log's.
LEMMA RingFacts ==
  ASSUME LogInv, log # <<>>
  PROVE  /\ Len(log) \in 1 .. Len(log) /\ ringFrom \in 1 .. Len(log)
         /\ RingLast(log, Ring) = log[Len(log)].rev
         /\ RingFirst(log, Ring) = log[ringFrom].rev
         /\ Reaches(Len(log), log[Len(log)].rev)
<1>1. /\ log \in Seq(Entry) /\ Len(log) \in Nat \ {0} /\ DOMAIN log = 1 .. Len(log)
      /\ ringFrom \in 1 .. Len(log)
  BY DEF LogInv
<1>2. Max(Ring) = Len(log) /\ Min(Ring) = ringFrom
  BY <1>1, IntervalEnds DEF Ring
<1>3. Reaches(Len(log), log[Len(log)].rev)
  <2> SUFFICES ASSUME NEW s \in 1 .. Len(log)
               PROVE  s <= Len(log) /\ log[s].rev <= log[Len(log)].rev
    BY <1>1 DEF Reaches
  <2>1. Len(log) \in 1 .. Len(log) /\ log[s].rev \in Nat /\ log[Len(log)].rev \in Nat
    BY <1>1, EntryType
  <2>2. \A x, y \in 1 .. Len(log) : x < y => log[x].rev < log[y].rev
    BY <1>1 DEF LogInv
  <2> QED BY <1>1, <2>1, <2>2
<1> QED BY <1>1, <1>2, <1>3 DEF RingLast, RingFirst

\* A client told it misses nothing has the whole log.
LEMMA CaughtUp ==
  ASSUME NEW k, IInv(k), CatchUp, Nothing
  PROVE  IInv(k)'
<1>1. /\ wire = <<>> /\ pending = <<>> /\ since = cursor /\ lastSent = since
      /\ UNCHANGED <<server, wire, client, drops, since, rx, lastSent>> /\ pc' = "live"
  BY DEF CatchUp, Nothing, IInv, PlaceInv, HandlerInv
<1>2. UNCHANGED <<log, revision, sent, cursor, pending>>
  BY <1>1 DEF server, client
<1>3. /\ log \in Seq(Entry) /\ Len(log) \in Nat /\ k \in 0 .. Len(log)
      /\ rx \in 1 .. sent + 1 /\ sent <= Len(log) /\ sent \in Nat
      /\ cursor \in 0 .. revision /\ revision \in Nat
  BY DEF IInv, LogInv, TypeInv, PlaceInv, ViewInv
<1>4. k = Len(log) /\ Reaches(k, since)
  <2>1. CASE log = <<>>
    BY <1>3, <2>1 DEF Reaches
  <2>2. CASE log # <<>>
    <3>1. /\ Len(log) \in 1 .. Len(log) /\ ringFrom \in 1 .. Len(log)
          /\ RingLast(log, Ring) = log[Len(log)].rev
      BY <2>2, RingFacts DEF IInv
    <3>2. Ring # {}
      BY <3>1 DEF Ring
    <3>3. since >= log[Len(log)].rev
      BY <1>1, <1>3, <3>1, <3>2 DEF CatchUp, Nothing, Decide
    <3>4. log[Len(log)].rev \in Nat \ {0}
      BY <3>1, EntryType DEF IInv
    <3>5. Reaches(k, since)
      BY <1>1, <1>3, <3>3, <3>4 DEF IInv, PlaceInv, ViewInv
    <3>6. Len(log) <= k
      BY <1>1, <1>3, <3>1, <3>3, <3>4, <3>5 DEF Reaches
    <3> QED BY <1>3, <3>5, <3>6
  <2> QED BY <2>1, <2>2
<1>5. TypeInv'
  BY <1>1, <1>2 DEF IInv, TypeInv
<1>6. HandlerInv(k)'
  <2>1. Pos(k, Len(wire))' = k
    BY <1>1, <1>2 DEF Pos
  <2>2. rx <= k + 1
    BY <1>3, <1>4
  <2> QED BY <1>1, <1>2, <1>4, <2>1, <2>2 DEF HandlerInv, Reaches
<1> QED BY <1>1, <1>5, <1>6, NothingQueued

\* The ring holds every entry the client lacks, and they follow its view.
LEMMA Replayed ==
  ASSUME NEW k, IInv(k), CatchUp, Replay
  PROVE  IInv(k)'
<1>1. /\ wire = <<>> /\ pending = <<>> /\ since = cursor /\ lastSent = since
      /\ UNCHANGED <<server, client, drops, since, rx>> /\ pc' = "live"
      /\ lastSent' = RingLast(log, Ring)
      /\ wire' = Append(wire, [kind |-> "delta", deltas |-> InOrder(Newer(log, Ring, since))])
  BY DEF CatchUp, Replay, Send, IInv, PlaceInv, HandlerInv
<1>2. UNCHANGED <<log, revision, sent, cursor, pending>>
  BY <1>1 DEF server, client
<1>3. /\ log \in Seq(Entry) /\ Len(log) \in Nat /\ k \in 0 .. Len(log)
      /\ rx \in 1 .. sent + 1 /\ sent <= Len(log) /\ sent \in Nat
      /\ since \in 0 .. revision /\ revision \in Nat
      /\ DOMAIN log = 1 .. Len(log)
  BY <1>1 DEF IInv, LogInv, TypeInv, PlaceInv, ViewInv
<1>4. log # <<>> /\ ~ (since >= RingLast(log, Ring)) /\ since + 1 >= RingFirst(log, Ring)
  <2>1. Ring # {}
    BY <1>3 DEF Replay, Decide
  <2> QED BY <1>3, <2>1 DEF Replay, Decide, Ring, IInv, LogInv
<1>5. /\ Len(log) \in 1 .. Len(log) /\ ringFrom \in 1 .. Len(log)
      /\ RingLast(log, Ring) = log[Len(log)].rev
      /\ RingFirst(log, Ring) = log[ringFrom].rev
      /\ Reaches(Len(log), log[Len(log)].rev)
  BY <1>4, RingFacts DEF IInv
<1>6. \A s \in 1 .. Len(log) : log[s].rev \in Nat \ {0} /\ log[s].rev <= revision
  BY <1>3, EntryType DEF IInv, LogInv
<1>7. \A s, t \in 1 .. Len(log) : s < t => log[s].rev < log[t].rev
  BY <1>3 DEF IInv, LogInv
<1> DEFINE S == Newer(log, Ring, since)
<1>8. S = {s \in ringFrom .. Len(log) : log[s].rev > since}
  BY DEF Newer, Ring
<1>9. Len(log) \in S
  BY <1>3, <1>4, <1>5, <1>6, <1>8
<1>10. PICK a \in S : \A s \in S : a <= s
  <2>1. S \subseteq Nat
    BY <1>3, <1>5, <1>8
  <2> HIDE DEF S
  <2> QED BY <1>9, <2>1, LeastNatural
<1>11. a \in 1 .. Len(log) /\ a <= Len(log) /\ log[a].rev > since
  BY <1>3, <1>5, <1>8, <1>10
<1>12. S = a .. Len(log)
  <2>1. ASSUME NEW s \in a .. Len(log) PROVE s \in S
    <3>1. s \in ringFrom .. Len(log) /\ s \in 1 .. Len(log)
      BY <1>3, <1>5, <1>8, <1>10, <1>11
    <3>2. log[a].rev <= log[s].rev
      BY <1>6, <1>7, <1>11, <3>1
    <3> QED BY <1>3, <1>6, <1>8, <1>11, <3>1, <3>2
  <2>2. \A s \in S : s \in a .. Len(log)
    BY <1>3, <1>5, <1>8, <1>10
  <2> HIDE DEF S
  <2> QED BY <2>1, <2>2
<1> DEFINE d == InOrder(S)
<1>13. Run(d) /\ d[1] = a /\ d[Len(d)] = Len(log) /\ ToSet(d) = a .. Len(log)
  <2> HIDE DEF S
  <2> QED BY <1>3, <1>11, <1>12, IntervalRun
<1>14. a <= k + 1
  <2>1. CASE a = 1
    BY <1>3, <2>1
  <2>2. CASE a # 1
    <3>1. a - 1 \in 1 .. Len(log) /\ log[a - 1].rev < log[a].rev
      BY <1>3, <1>7, <1>11, <2>2
    <3>2. log[a - 1].rev <= since
      <4>1. CASE a = ringFrom
        BY <1>3, <1>4, <1>5, <1>6, <1>11, <3>1, <4>1
      <4>2. CASE a # ringFrom
        <5>1. a - 1 \in ringFrom .. Len(log) /\ ~ (a <= a - 1)
          BY <1>3, <1>5, <1>8, <1>10, <1>11, <3>1, <4>2
        <5>2. a - 1 \notin S
          BY <1>10, <5>1
        <5> QED BY <1>3, <1>6, <1>8, <3>1, <5>1, <5>2
      <4> QED BY <4>1, <4>2
    <3>3. since > 0
      BY <1>3, <1>6, <3>1, <3>2
    <3>4. Reaches(k, since)
      BY <1>1, <3>3 DEF IInv, PlaceInv, ViewInv
    <3> QED BY <1>3, <1>11, <3>1, <3>2, <3>4 DEF Reaches
  <2> QED BY <2>1, <2>2
<1>15. lastSent' = log[Len(log)].rev /\ lastSent' \in lastSent .. revision
  BY <1>1, <1>3, <1>4, <1>5, <1>6
<1>16. \A s \in ToSet(d) : lastSent < log[s].rev /\ log[s].rev <= lastSent'
  <2> SUFFICES ASSUME NEW s \in a .. Len(log)
               PROVE  since < log[s].rev /\ log[s].rev <= log[Len(log)].rev
    BY <1>1, <1>13, <1>15
  <2>1. s \in 1 .. Len(log) /\ log[s].rev > since
    BY <1>3, <1>5, <1>8, <1>12
  <2> QED BY <1>3, <1>5, <1>6, <2>1 DEF Reaches
<1>17. rx' \in 1 .. sent + 1 /\ rx' <= d[Len(d)] + 1
  BY <1>1, <1>3, <1>13
<1>18. Reaches(d[Len(d)], lastSent')
  BY <1>5, <1>13, <1>15 DEF Reaches
<1> HIDE DEF d, S
<1>19. wire' = Append(wire, [kind |-> "delta", deltas |-> d]) /\ k <= d[Len(d)]
  BY <1>1, <1>3, <1>13 DEF d, S
<1> QED BY <1>1, <1>13, <1>14, <1>15, <1>16, <1>17, <1>18, <1>19, SendDelta

LEMMA CatchUpStep ==
  ASSUME NEW k, IInv(k), CatchUp
  PROVE  IInv(k)'
<1>1. CASE Nothing
  BY <1>1, CaughtUp
<1>2. CASE Replay
  BY <1>2, Replayed
<1>3. CASE Full
  <2>1. /\ wire = <<>> /\ pending = <<>> /\ since = cursor
        /\ UNCHANGED <<server, wire, client, drops, since, rx, lastSent>> /\ pc' = "full"
    BY <1>3 DEF CatchUp, Full, IInv, PlaceInv, HandlerInv
  <2>2. UNCHANGED <<revision, sent, cursor, pending>>
    BY <2>1 DEF server, client
  <2>3. TypeInv' /\ HandlerInv(k)'
    BY <2>1, <2>2 DEF IInv, TypeInv, HandlerInv
  <2> QED BY <2>1, <2>3, NothingQueued
<1> QED BY <1>1, <1>2, <1>3 DEF CatchUp

\* An entry the catch-up covered is before the end of the queue.
LEMMA ForwardStep ==
  ASSUME NEW k, IInv(k), Forward
  PROVE  IInv(k)'
<1>1. /\ pc = "live" /\ pc' = "live" /\ rx <= sent /\ rx' = rx + 1
      /\ UNCHANGED <<server, since, client, drops>>
  BY DEF Forward
<1>2. /\ log \in Seq(Entry) /\ Len(log) \in Nat /\ k \in 0 .. Len(log)
      /\ rx \in 1 .. Len(log) /\ rx' \in 1 .. sent + 1 /\ sent \in Nat
      /\ lastSent \in 0 .. revision /\ revision \in Nat
      /\ DOMAIN log = 1 .. Len(log) /\ Len(wire) \in Nat
      /\ log[rx].rev \in Nat /\ log[rx].rev <= revision
  <2>1. /\ log \in Seq(Entry) /\ Len(log) \in Nat /\ k \in 0 .. Len(log)
        /\ rx \in 1 .. Len(log) /\ rx' \in 1 .. sent + 1 /\ sent \in Nat
        /\ lastSent \in 0 .. revision /\ revision \in Nat
        /\ DOMAIN log = 1 .. Len(log)
    BY <1>1 DEF IInv, LogInv, TypeInv, PlaceInv, ViewInv
  <2> QED BY <2>1, EntryType, WireFacts DEF IInv, LogInv
<1>3. BeforeLag(Len(wire)) =>
        /\ Pos(k, Len(wire)) \in 0 .. Len(log)
        /\ rx <= Pos(k, Len(wire)) + 1 /\ Reaches(Pos(k, Len(wire)), lastSent)
  <2>1. Len(wire) \in 0 .. Len(wire)
    BY <1>2
  <2> QED BY <1>1, <2>1, PositionIsEntry DEF IInv, PlaceInv, HandlerInv
<1>4. CASE log[rx].rev <= lastSent /\ UNCHANGED <<lastSent, wire>>
  <2>1. UNCHANGED <<log, revision, sent, ringFrom, cursor, view, pending, since, drops, pc, wire, lastSent>>
    BY <1>1, <1>4 DEF server, client
  <2>2. LogInv' /\ TypeInv'
    BY <1>1, <1>2, <2>1, LogKept DEF IInv, TypeInv
  <2>3. ViewInv(k)' /\ BatchInv(k)'
    BY <2>1, LogKept, <1>1 DEF IInv, PlaceInv, ViewInv, BatchInv
  <2>4. WireInv(k)'
    BY <2>1 DEF IInv, PlaceInv, WireInv, FrameInv, Reaches, Run, BeforeLag, GoesOn, Pos
  <2>5. BeforeLag(Len(wire)) => rx <= Pos(k, Len(wire))
    BY <1>2, <1>3, <1>4 DEF Reaches
  <2>6. BeforeLag(Len(wire)) => rx' <= Pos(k, Len(wire)) + 1
    BY <1>1, <1>2, <1>3, <2>5
  <2>7. Pos(k, Len(wire))' = Pos(k, Len(wire)) /\ (BeforeLag(Len(wire))' <=> BeforeLag(Len(wire)))
    BY <2>1 DEF Pos, BeforeLag
  <2>8. HandlerInv(k)'
    BY <1>1, <1>3, <2>1, <2>6, <2>7 DEF HandlerInv, Reaches
  <2>9. OrderInv'
    BY <2>1 DEF IInv, OrderInv, Deltas, SnapshotCoversDeltas
  <2> QED BY <2>2, <2>3, <2>4, <2>8, <2>9 DEF IInv, PlaceInv
<1>5. CASE /\ log[rx].rev > lastSent /\ lastSent' = log[rx].rev
           /\ Send([kind |-> "delta", deltas |-> <<rx>>])
  <2> DEFINE d == <<rx>>
  <2>1. Run(d) /\ d[1] = rx /\ d[Len(d)] = rx /\ ToSet(d) = {rx}
    BY <1>2 DEF Run, ToSet
  <2>2. wire' = Append(wire, [kind |-> "delta", deltas |-> d])
    BY <1>5 DEF Send
  <2>3. BeforeLag(Len(wire)) => rx = Pos(k, Len(wire)) + 1
    BY <1>2, <1>3, <1>5 DEF Reaches
  <2>4. Reaches(rx, lastSent')
    <3> SUFFICES ASSUME NEW s \in 1 .. Len(log)
                 PROVE  s <= rx <=> log[s].rev <= log[rx].rev
      BY <1>2, <1>5 DEF Reaches
    <3>1. log[s].rev \in Nat
      BY EntryType DEF IInv
    <3>2. s < rx => log[s].rev < log[rx].rev
      BY <1>2 DEF IInv, LogInv
    <3>3. rx < s => log[rx].rev < log[s].rev
      BY <1>2 DEF IInv, LogInv
    <3> QED BY <1>2, <3>1, <3>2, <3>3
  <2>5. wire = <<>> /\ pending = <<>> => Pos(k, Len(wire)) = k
    BY DEF Pos
  <2>6. lastSent' \in lastSent .. revision
    BY <1>2, <1>5
  <2>7. BeforeLag(Len(wire)) =>
          IF wire = <<>> /\ pending = <<>>
          THEN rx <= k + 1 /\ k <= rx ELSE rx = Pos(k, Len(wire)) + 1
    BY <1>2, <2>3, <2>5
  <2>8. rx' <= rx + 1
    BY <1>1, <1>2
  <2>9. \A s \in {rx} : lastSent < log[s].rev /\ log[s].rev <= lastSent'
    BY <1>2, <1>5
  <2> HIDE DEF d
  <2> QED BY <1>1, <1>2, <2>1, <2>2, <2>4, <2>6, <2>7, <2>8, <2>9, SendDelta
<1> QED BY <1>4, <1>5 DEF Forward

LEMMA HandlerStep ==
  ASSUME NEW k, IInv(k), Handle
  PROVE  IInv(k)'
<1>1. CASE ReportLag
  <2>1. rx' \in 1 .. sent + 1
    BY <1>1, StreamAssumption DEF ReportLag, Overrun, IInv, TypeInv, LogInv
  <2> QED BY <1>1, <2>1, SendLagged DEF ReportLag, Send
<1> QED BY <1>1, Subscribed, CatchUpStep, SendSnapshot, ForwardStep DEF Handle

-----------------------------------------------------------------------------
(* The client. *)

\* A prefix of the log is reached by its last entry's revision.
LEMMA ReachesItsLast ==
  ASSUME LogInv, NEW m \in 1 .. Len(log)
  PROVE  Reaches(m, log[m].rev)
<1>1. DOMAIN log = 1 .. Len(log) /\ Len(log) \in Nat
  BY DEF LogInv
<1> SUFFICES ASSUME NEW s \in 1 .. Len(log) PROVE s <= m <=> log[s].rev <= log[m].rev
  BY <1>1 DEF Reaches
<1>2. log[s].rev \in Nat /\ log[m].rev \in Nat
  BY EntryType
<1>3. s < m => log[s].rev < log[m].rev
  BY <1>1 DEF LogInv
<1>4. m < s => log[m].rev < log[s].rev
  BY <1>1 DEF LogInv
<1> QED BY <1>1, <1>2, <1>3, <1>4

\* What a committed batch leaves: the view is where the queue was.
LEMMA Committed ==
  ASSUME NEW k, IInv(k), FlushPending
  PROVE  /\ Pos(k, 0) \in k .. Len(log) /\ view' = Content(log, Pos(k, 0))
         /\ cursor' \in cursor .. revision
         /\ cursor' > 0 => Reaches(Pos(k, 0), cursor')
<1>1. /\ log \in Seq(Entry) /\ Len(log) \in Nat /\ k \in 0 .. Len(log) /\ k \in Nat
      /\ view = Content(log, k) /\ cursor \in 0 .. revision /\ revision \in Nat
      /\ cursor > 0 => Reaches(k, cursor)
  BY DEF IInv, LogInv, TypeInv, PlaceInv, ViewInv
<1> DEFINE R == {log[s].rev : s \in ToSet(pending)}
<1>2. view' = Applied(pending) /\ cursor' = Max({cursor} \cup R)
  BY DEF FlushPending
<1>3. CASE pending = <<>>
  <2>1. Pos(k, 0) = k /\ ToSet(pending) = {}
    BY <1>3 DEF Pos, ToSet
  <2>2. {cursor} \cup R = {cursor}
    BY <2>1
  <2>3. {cursor} \subseteq Int /\ cursor \in {cursor} /\ \A x \in {cursor} : x <= cursor
    BY <1>1
  <2>4. cursor' = cursor
    BY <1>2, <2>2, <2>3, MaxIs
  <2>5. view' = view
    BY <1>1, <1>2, <1>3, AppliedNothing
  <2> QED BY <1>1, <2>1, <2>4, <2>5
<1>4. CASE pending # <<>>
  <2>1. Run(pending) /\ pending[1] <= k + 1 /\ k <= pending[Len(pending)]
    BY <1>4 DEF IInv, PlaceInv, BatchInv
  <2>2. PICK m : m = pending[Len(pending)]
    OBVIOUS
  <2>3. /\ m \in 1 .. Len(log) /\ k <= m /\ Pos(k, 0) = m
        /\ pending[1] \in 1 .. Len(log) /\ pending[1] <= m
        /\ ToSet(pending) = pending[1] .. m
    <3>1. /\ Len(pending) \in Nat \ {0} /\ m = pending[1] + Len(pending) - 1
          /\ pending[1] \in 1 .. Len(log) /\ m \in 1 .. Len(log)
          /\ ToSet(pending) = pending[1] .. m
      BY <1>1, <2>1, <2>2, RunEnds
    <3> QED BY <1>1, <1>4, <2>1, <2>2, <3>1 DEF Pos
  <2>4. view' = Content(log, m)
    BY <1>1, <1>2, <2>1, <2>2, AppliedRun
  <2>5. Reaches(m, log[m].rev) /\ log[m].rev \in Nat \ {0} /\ log[m].rev <= revision
    BY <2>3, ReachesItsLast, EntryType DEF IInv, LogInv
  <2>6. \A s \in ToSet(pending) : log[s].rev \in Nat /\ log[s].rev <= log[m].rev
    <3> SUFFICES ASSUME NEW s \in ToSet(pending)
                 PROVE  log[s].rev \in Nat /\ log[s].rev <= log[m].rev
      OBVIOUS
    <3>1. s \in 1 .. Len(log) /\ s <= m /\ DOMAIN log = 1 .. Len(log)
      BY <1>1, <2>3
    <3> QED BY <2>5, <3>1, EntryType DEF Reaches, IInv
  <2>7. R \subseteq Int /\ log[m].rev \in R /\ \A x \in R : x <= log[m].rev
    BY <1>1, <2>3, <2>6
  <2>8. {cursor} \cup R \subseteq Int
    BY <1>1, <2>7
  <2> HIDE DEF R
  <2>9. CASE cursor <= log[m].rev
    <3>1. cursor' = log[m].rev
      BY <1>2, <2>7, <2>8, <2>9, MaxIs
    <3> QED BY <1>1, <2>3, <2>4, <2>5, <2>9, <3>1
  <2>10. CASE ~ (cursor <= log[m].rev)
    <3>1. \A x \in {cursor} \cup R : x <= cursor
      <4> SUFFICES ASSUME NEW x \in R PROVE x <= cursor
        BY <1>1
      <4>1. x \in Int /\ x <= log[m].rev
        BY <2>7
      <4> QED BY <1>1, <2>5, <2>10, <4>1
    <3>2. cursor' = cursor
      BY <1>2, <2>8, <3>1, MaxIs
    <3>3. m <= k
      BY <1>1, <2>3, <2>5, <2>10 DEF Reaches
    <3> QED BY <1>1, <2>3, <2>4, <3>2, <3>3
  <2> QED BY <1>1, <2>5, <2>9, <2>10
<1> QED BY <1>3, <1>4

\* The first frame is taken off the queue, and nothing else moves.
LEMMA QueueShifted ==
  ASSUME NEW k, IInv(k), NEW m \in Nat, wire # <<>>, wire' = Tail(wire),
         wire[1].kind # "lagged", UNCHANGED <<server, handler, pc, since>>,
         Pos(m, 0)' = Pos(k, 1), pending' = <<>> => m = Pos(k, 1),
         ToSet(Deltas(0))' \subseteq ToSet(Deltas(0)) \cup ToSet(Deltas(1)),
         TypeInv', ViewInv(m)', BatchInv(m)'
  PROVE  IInv(m)'
<1>1. UNCHANGED <<log, revision, ringFrom, sent, rx, lastSent>>
  BY DEF server, handler
<1>2. PICK n : n = Len(wire) - 1
  OBVIOUS
<1>3. /\ Len(wire) = n + 1 /\ n \in Nat /\ DOMAIN wire = 1 .. (n + 1)
      /\ Len(wire') = n /\ DOMAIN wire' = 1 .. n
      /\ \A j \in 1 .. n : wire'[j] = wire[j + 1]
      /\ \A j \in 1 .. n : Deltas(j)' = Deltas(j + 1)
      /\ \A j \in 1 .. n : Pos(m, j)' = Pos(k, j + 1)
      /\ \A j \in 0 .. n : BeforeLag(j)' <=> BeforeLag(j + 1)
  BY <1>2, FrameTaken, QueueShrank DEF IInv, TypeInv
<1>4. \A j \in 0 .. n : Pos(m, j)' = Pos(k, j + 1)
  BY <1>3
<1>5. LogInv' /\ log \in Seq(Entry)
  BY LogKept DEF IInv, LogInv
<1>6. pc = "live"
  BY DEF IInv, PlaceInv, HandlerInv
<1>7. WireInv(m)'
  <2> SUFFICES ASSUME NEW j \in 1 .. n PROVE FrameInv(m, j)'
    BY <1>3 DEF WireInv
  <2>1. wire'[j] = wire[j + 1] /\ j + 1 \in DOMAIN wire /\ j + 1 # 1 /\ j - 1 \in 0 .. n
    BY <1>3
  <2>2. FrameInv(k, j + 1)
    BY <2>1 DEF IInv, PlaceInv, WireInv
  <2>3. wire[j + 1].kind # "snapshot"
    BY <2>1, <2>2 DEF FrameInv
  <2>4. CASE wire[j + 1].kind = "delta"
    <3>1. Run(wire[j + 1].deltas) /\ (BeforeLag(j + 1) => GoesOn(k, j + 1))
      BY <2>2, <2>4 DEF FrameInv
    <3>2. ASSUME BeforeLag(j)' PROVE GoesOn(m, j)'
      <4>1. wire[j + 1].deltas[1] = Pos(k, j) + 1
        BY <1>3, <2>1, <3>1, <3>2 DEF GoesOn
      <4>2. CASE j = 1 /\ pending' = <<>>
        <5>1. Pos(m, 1)' = wire[2].deltas[Len(wire[2].deltas)]
          BY <2>1, <2>4, <4>2 DEF Pos
        <5>2. /\ Len(wire[2].deltas) \in Nat \ {0} /\ wire[2].deltas[1] \in 1 .. Len(log)
              /\ wire[2].deltas[Len(wire[2].deltas)] = wire[2].deltas[1] + Len(wire[2].deltas) - 1
          <6>1. PICK q : q = wire[2].deltas
            OBVIOUS
          <6>2. Run(q)
            BY <3>1, <4>2, <6>1
          <6>3. Len(q) \in Nat \ {0} /\ q[1] \in 1 .. Len(log) /\ q[Len(q)] = q[1] + Len(q) - 1
            BY <1>5, <6>2, RunEnds
          <6> QED BY <6>1, <6>3
        <5>3. wire'[j].deltas[1] = m + 1
          BY <2>1, <4>1, <4>2
        <5>4. m <= Pos(m, 1)'
          BY <4>2, <5>1, <5>2, <5>3, <2>1
        <5>5. m + 1 <= m + 1
          OBVIOUS
        <5>6. wire'[1] = wire'[j]
          BY <4>2
        <5>7. wire'[1].deltas[1] = m + 1
          BY <5>3, <5>6, Zenon
        <5>8. wire'[1].deltas[1] <= m + 1
          BY <5>5, <5>7, Zenon
        <5> QED BY <4>2, <5>4, <5>8 DEF GoesOn
      <4>3. CASE ~ (j = 1 /\ pending' = <<>>)
        <5>1. PICK i : i = j - 1
          OBVIOUS
        <5>2. Pos(m, i)' = Pos(k, j)
          BY <1>4, <2>1, <5>1
        <5>3. Pos(m, j - 1)' = Pos(k, j)
          BY <5>1, <5>2
        <5> QED BY <2>1, <4>1, <4>3, <5>3 DEF GoesOn
      <4> QED BY <4>2, <4>3
    <3> QED BY <1>1, <2>1, <2>4, <3>1, <3>2, LogKept DEF FrameInv
  <2>5. CASE wire[j + 1].kind # "delta"
    BY <2>1, <2>3, <2>5 DEF FrameInv
  <2> QED BY <2>4, <2>5
<1>8. HandlerInv(m)'
  <2>1. BeforeLag(n)' => rx <= Pos(k, n + 1) + 1 /\ Reaches(Pos(k, n + 1), lastSent)
    BY <1>3, <1>6 DEF IInv, PlaceInv, HandlerInv
  <2>2. Pos(m, n)' = Pos(k, n + 1)
    BY <1>3, <1>4
  <2> QED BY <1>1, <1>3, <1>6, <2>1, <2>2 DEF HandlerInv, Reaches
<1>9. OrderInv'
  <2>1. ASSUME NEW j \in 0 .. n, NEW s \in ToSet(Deltas(j))'
        PROVE  \E i \in {j, j + 1} : (i = 0 \/ i \in 1 .. (n + 1)) /\ s \in ToSet(Deltas(i)) /\ (j > 0 => i = j + 1)
    <3>1. CASE j = 0
      BY <1>3, <2>1, <3>1
    <3>2. CASE j # 0
      BY <1>3, <2>1, <3>2
    <3> QED BY <3>1, <3>2
  <2>2. \A j \in 0 .. n : \A s \in ToSet(Deltas(j))' : log[s].rev <= lastSent
    BY <1>3, <1>6, <2>1 DEF IInv, OrderInv
  <2>3. ASSUME NEW i \in 0 .. n, NEW j \in 0 .. n, i < j,
               NEW s \in ToSet(Deltas(i))', NEW t \in ToSet(Deltas(j))'
        PROVE  s < t
    <3>1. PICK a \in {i, i + 1} : a \in 0 .. (n + 1) /\ s \in ToSet(Deltas(a))
      BY <1>3, <2>1
    <3>2. j + 1 \in 0 .. (n + 1) /\ t \in ToSet(Deltas(j + 1)) /\ a < j + 1
      BY <1>3, <2>1, <2>3, <3>1
    <3> QED BY <1>3, <3>1, <3>2 DEF IInv, OrderInv
  <2>4. SnapshotCoversDeltas'
    <3> SUFFICES ASSUME NEW i \in 1 .. n, NEW j \in 1 .. n, i < j,
                        wire'[i].kind = "snapshot", wire'[j].kind = "delta",
                        NEW s \in ToSet(wire'[j].deltas)
                 PROVE  log'[s].rev > wire'[i].rev
      BY <1>3 DEF SnapshotCoversDeltas
    <3>1. /\ i + 1 \in DOMAIN wire /\ j + 1 \in DOMAIN wire /\ i + 1 < j + 1
          /\ wire'[i] = wire[i + 1] /\ wire'[j] = wire[j + 1]
      BY <1>3
    <3> QED BY <1>1, <3>1 DEF IInv, OrderInv, SnapshotCoversDeltas
  <2> QED BY <1>1, <1>3, <2>2, <2>3, <2>4 DEF OrderInv
<1> QED BY <1>5, <1>7, <1>8, <1>9 DEF IInv, PlaceInv

LEMMA SnapshotReceived ==
  ASSUME NEW k, IInv(k), Receive, ReceiveSnapshot
  PROVE  \E m \in k .. Len(log) : IInv(m)'
<1>1. /\ wire # <<>> /\ wire' = Tail(wire) /\ UNCHANGED <<server, handler, pc, since, drops>>
      /\ Head(wire).kind = "snapshot" /\ pending' = <<>>
      /\ cursor' = Head(wire).rev /\ view' = Content(log, Head(wire).upTo)
  BY DEF Receive, Receives, ReceiveSnapshot
<1>2. /\ Head(wire) = wire[1] /\ wire[1] \in Frame /\ wire' \in Seq(Frame)
      /\ 1 \in DOMAIN wire
  BY <1>1, FrameTaken, QueueShrank DEF IInv, TypeInv
<1>3. FrameInv(k, 1)
  BY <1>2 DEF IInv, PlaceInv, WireInv
<1>4. PICK m : m = wire[1].upTo
  OBVIOUS
<1>5. /\ m \in k .. Len(log) /\ Reaches(m, wire[1].rev) /\ wire[1].rev <= lastSent
      /\ wire[1].rev \in Nat /\ pending = <<>> /\ Pos(k, 1) = m /\ m \in Nat
  BY <1>1, <1>2, <1>3, <1>4 DEF FrameInv, Frame, Pos
<1>6. UNCHANGED <<log, revision, sent, rx, lastSent>> /\ revision \in Nat /\ lastSent \in 0 .. revision
      /\ Len(log) \in Nat /\ k \in Nat
  BY <1>1 DEF server, handler, IInv, LogInv, TypeInv
<1>7. TypeInv'
  BY <1>1, <1>2, <1>5, <1>6 DEF IInv, TypeInv
<1>8. ViewInv(m)' /\ BatchInv(m)'
  BY <1>1, <1>2, <1>4, <1>5, <1>6 DEF ViewInv, BatchInv, Reaches
<1>9. Pos(m, 0)' = m /\ ToSet(Deltas(0))' = {}
  BY <1>1 DEF Pos, Deltas, ToSet
<1>10. IInv(m)'
  BY <1>1, <1>2, <1>5, <1>7, <1>8, <1>9, QueueShifted
<1> QED BY <1>5, <1>10

LEMMA DeltaReceived ==
  ASSUME NEW k, IInv(k), Receive, ReceiveDelta
  PROVE  IInv(k)'
<1>1. /\ wire # <<>> /\ wire' = Tail(wire)
      /\ UNCHANGED <<server, handler, pc, since, drops, cursor, view>>
      /\ Head(wire).kind = "delta" /\ pending' = pending \o Head(wire).deltas
  BY DEF Receive, Receives, ReceiveDelta
<1>2. /\ Head(wire) = wire[1] /\ wire[1] \in Frame /\ wire' \in Seq(Frame)
      /\ 1 \in DOMAIN wire /\ DOMAIN wire = 1 .. Len(wire)
  BY <1>1, FrameTaken, QueueShrank DEF IInv, TypeInv
<1>3. FrameInv(k, 1) /\ BeforeLag(1)
  BY <1>1, <1>2 DEF IInv, PlaceInv, WireInv, BeforeLag
<1>4. PICK d : d = wire[1].deltas
  OBVIOUS
<1>5. /\ Run(d) /\ GoesOn(k, 1) /\ Deltas(1) = d /\ Deltas(0) = pending
      /\ Pos(k, 1) = d[Len(d)] /\ pending' = pending \o d
  BY <1>1, <1>2, <1>3, <1>4 DEF FrameInv, Pos, Deltas
<1>6. /\ UNCHANGED <<log, revision, sent, rx, lastSent>> /\ log \in Seq(Entry) /\ Len(log) \in Nat
      /\ k \in Nat
  BY <1>1 DEF server, handler, IInv, LogInv
<1>7. d \in Seq(1 .. Len(log)) /\ d # <<>> /\ d[Len(d)] \in 1 .. Len(log) /\ d[1] \in 1 .. Len(log)
  BY <1>5, <1>6, RunEnds DEF Run
<1>8. /\ Run(pending') /\ pending'[1] <= k + 1 /\ k <= pending'[Len(pending')]
      /\ pending'[Len(pending')] = d[Len(d)] /\ pending' # <<>>
      /\ ToSet(pending') \subseteq ToSet(pending) \cup ToSet(d)
  <2>1. CASE pending = <<>>
    <3>1. pending' = d
      BY <1>5, <1>7, <2>1
    <3> QED BY <1>4, <1>5, <1>7, <2>1, <3>1 DEF GoesOn
  <2>2. CASE pending # <<>>
    <3>1. Run(pending) /\ pending[1] <= k + 1 /\ k <= pending[Len(pending)]
      BY <2>2 DEF IInv, PlaceInv, BatchInv
    <3>2. d[1] = pending[Len(pending)] + 1
      BY <1>4, <1>5, <2>2 DEF GoesOn, Pos
    <3>3. /\ Run(pending \o d) /\ (pending \o d)[1] = pending[1]
          /\ (pending \o d)[Len(pending \o d)] = d[Len(d)]
      BY <1>5, <1>6, <3>1, <3>2, RunsJoin
    <3>4. pending[Len(pending)] \in 1 .. Len(log) /\ pending \in Seq(1 .. Len(log))
      BY <1>6, <3>1, RunEnds DEF Run
    <3>5. k <= d[Len(d)]
      <4>1. Len(d) \in Nat \ {0} /\ d[Len(d)] = d[1] + Len(d) - 1
        BY <1>5, <1>6, RunEnds
      <4> QED BY <1>6, <1>7, <3>1, <3>2, <3>4, <4>1
    <3>6. pending \o d # <<>>
      BY <3>3 DEF Run
    <3>7. ToSet(pending \o d) \subseteq ToSet(pending) \cup ToSet(d)
      BY <1>7, <3>4 DEF ToSet
    <3>8. Run(pending') <=> Run(pending \o d)
      BY <1>5
    <3> QED BY <1>5, <3>1, <3>3, <3>5, <3>6, <3>7, <3>8
  <2> QED BY <2>1, <2>2
<1>9. TypeInv'
  BY <1>1, <1>2, <1>6 DEF IInv, TypeInv
<1>10. ViewInv(k)'
  BY <1>1, <1>6 DEF IInv, PlaceInv, ViewInv, Reaches
<1>11. BatchInv(k)'
  BY <1>6, <1>8 DEF BatchInv, Run
<1>12. Pos(k, 0)' = Pos(k, 1) /\ Deltas(0)' = pending'
  BY <1>5, <1>8 DEF Pos, Deltas
<1>13. ToSet(Deltas(0))' \subseteq ToSet(Deltas(0)) \cup ToSet(Deltas(1))
  BY <1>5, <1>8, <1>12
<1> QED BY <1>1, <1>2, <1>6, <1>8, <1>9, <1>10, <1>11, <1>12, <1>13, QueueShifted

LEMMA LaggedReceived ==
  ASSUME NEW k, IInv(k), Receive, ReceiveLagged
  PROVE  IInv(k)'
<1>1. /\ wire' = <<>> /\ pending' = <<>> /\ pc' = "closed" /\ cursor' = 0
      /\ UNCHANGED <<server, handler, since, drops, view>>
  BY DEF Receive, Receives, ReceiveLagged, Hangup
<1>2. UNCHANGED <<log, revision, sent, rx, lastSent>> /\ revision \in Nat
  BY <1>1 DEF server, handler, IInv, LogInv
<1>3. TypeInv' /\ ViewInv(k)' /\ HandlerInv(k)' /\ k \in Nat
  BY <1>1, <1>2 DEF IInv, TypeInv, PlaceInv, ViewInv, HandlerInv
<1> QED BY <1>1, <1>3, EmptyQueue

LEMMA Flushed ==
  ASSUME NEW k, IInv(k), Flush
  PROVE  \E m \in k .. Len(log) : IInv(m)'
<1>1. /\ pending # <<>> /\ FlushPending /\ pending' = <<>>
      /\ UNCHANGED <<server, handler, pc, since, wire, drops>>
  BY DEF Flush, Flushes, FlushPending, socket
<1>2. UNCHANGED <<log, revision, sent, rx, lastSent>> /\ revision \in Nat /\ Len(log) \in Nat
      /\ k \in Nat /\ Len(wire) \in Nat /\ log \in Seq(Entry) /\ cursor \in Nat
  BY <1>1, WireFacts DEF server, handler, IInv, LogInv, TypeInv
<1>3. PICK m : m = Pos(k, 0)
  OBVIOUS
<1>4. /\ m \in k .. Len(log) /\ view' = Content(log, m) /\ cursor' \in 0 .. revision
      /\ cursor' > 0 => Reaches(m, cursor')
  BY <1>1, <1>2, <1>3, Committed
<1>5. m \in Nat /\ m \in 0 .. Len(log)
  BY <1>2, <1>4
<1>6. TypeInv' /\ LogInv'
  BY <1>1, <1>2, <1>4, LogKept DEF IInv, TypeInv
<1>7. ViewInv(m)' /\ BatchInv(m)'
  BY <1>1, <1>2, <1>4, <1>5 DEF ViewInv, BatchInv, Reaches
<1>8. \A j : Pos(m, j)' = Pos(k, j)
  BY <1>1, <1>3 DEF Pos
<1>9. \A j : BeforeLag(j)' <=> BeforeLag(j)
  BY <1>1 DEF BeforeLag
<1>10. WireInv(m)'
  <2> SUFFICES ASSUME NEW j \in DOMAIN wire PROVE FrameInv(m, j)'
    BY <1>1 DEF WireInv
  <2>1. FrameInv(k, j) /\ j \in 1 .. Len(wire)
    BY WireFacts DEF IInv, PlaceInv, WireInv
  <2>2. wire[j].kind # "snapshot"
    BY <1>1, <2>1 DEF FrameInv
  <2>3. CASE wire[j].kind = "delta"
    <3>1. Run(wire[j].deltas) /\ (BeforeLag(j) => wire[j].deltas[1] = Pos(k, j - 1) + 1)
      BY <1>1, <2>1, <2>3 DEF FrameInv, GoesOn
    <3>2. ASSUME BeforeLag(j) PROVE GoesOn(m, j)'
      <4>1. CASE j = 1
        <5>1. wire[j].deltas[1] = m + 1
          BY <1>3, <3>1, <3>2, <4>1
        <5>2. Pos(m, 1)' = wire[1].deltas[Len(wire[1].deltas)]
          BY <1>1, <2>3, <4>1 DEF Pos
        <5>3. /\ Len(wire[1].deltas) \in Nat \ {0}
              /\ wire[1].deltas[Len(wire[1].deltas)] = wire[1].deltas[1] + Len(wire[1].deltas) - 1
          BY <1>2, <3>1, <4>1, RunEnds
        <5>4. m <= Pos(m, 1)'
          BY <1>5, <4>1, <5>1, <5>2, <5>3
        <5>5. wire[j].deltas[1] <= m + 1
          BY <1>5, <5>1
        <5> QED BY <1>1, <4>1, <5>4, <5>5 DEF GoesOn
      <4>2. CASE j # 1
        <5>1. Pos(m, j - 1)' = Pos(k, j - 1)
          BY <1>8
        <5> QED BY <1>1, <3>1, <3>2, <4>2, <5>1 DEF GoesOn
      <4> QED BY <4>1, <4>2
    <3> QED BY <1>1, <1>9, <2>3, <3>1, <3>2, LogKept DEF FrameInv
  <2>4. CASE wire[j].kind # "delta"
    BY <1>1, <2>2, <2>4 DEF FrameInv
  <2> QED BY <2>3, <2>4
<1>11. HandlerInv(m)'
  <2>1. Pos(m, Len(wire))' = Pos(k, Len(wire))
    BY <1>1, <1>3 DEF Pos
  <2> QED BY <1>1, <1>2, <1>9, <2>1 DEF IInv, PlaceInv, HandlerInv, Reaches
<1>12. OrderInv'
  <2>1. \A j \in 0 .. Len(wire) : \A s \in ToSet(Deltas(j))' : s \in ToSet(Deltas(j))
    BY <1>1 DEF Deltas, ToSet
  <2> QED BY <1>1, <1>2, <2>1 DEF IInv, OrderInv, SnapshotCoversDeltas
<1>13. IInv(m)'
  BY <1>5, <1>6, <1>7, <1>10, <1>11, <1>12 DEF IInv, PlaceInv
<1> QED BY <1>4, <1>13

LEMMA Disconnected ==
  ASSUME NEW k, IInv(k), Disconnect
  PROVE  \E m \in k .. Len(log) : IInv(m)'
<1>1. /\ FlushPending /\ pending' = <<>> /\ wire' = <<>> /\ pc' = "closed"
      /\ UNCHANGED <<server, handler, since>> /\ drops' = drops + 1
  BY DEF Disconnect, Disconnects, FlushPending, Hangup
<1>2. /\ UNCHANGED <<log, revision, sent, rx, lastSent>> /\ revision \in Nat /\ Len(log) \in Nat
      /\ k \in Nat /\ cursor \in Nat
  BY <1>1 DEF server, handler, IInv, LogInv, TypeInv
<1>3. PICK m : m = Pos(k, 0)
  OBVIOUS
<1>4. /\ m \in k .. Len(log) /\ view' = Content(log, m) /\ cursor' \in 0 .. revision
      /\ cursor' > 0 => Reaches(m, cursor')
  BY <1>1, <1>2, <1>3, Committed
<1>5. m \in Nat /\ m \in 0 .. Len(log)
  BY <1>2, <1>4
<1>6. TypeInv'
  BY <1>1, <1>2, <1>4 DEF IInv, TypeInv
<1>7. ViewInv(m)' /\ HandlerInv(m)'
  BY <1>1, <1>2, <1>4, <1>5 DEF ViewInv, HandlerInv, Reaches
<1>8. IInv(m)'
  BY <1>1, <1>5, <1>6, <1>7, EmptyQueue
<1> QED BY <1>4, <1>8

LEMMA SnapshotFetched ==
  ASSUME NEW k, IInv(k), FetchSnapshot
  PROVE  \E m \in k .. Len(log) : IInv(m)'
<1>1. /\ pc = "boot" /\ pc' = "closed" /\ cursor' = revision
      /\ view' = Content(log, Len(log))
      /\ UNCHANGED <<server, handler, since, wire, pending, drops>>
  BY DEF FetchSnapshot, Fetched
<1>2. /\ UNCHANGED <<log, revision, sent, rx, lastSent>> /\ revision \in Nat
      /\ log \in Seq(Entry) /\ k \in 0 .. Len(log) /\ Len(log) \in Nat
      /\ wire = <<>> /\ pending = <<>>
  BY <1>1 DEF server, handler, IInv, LogInv, PlaceInv, ViewInv, HandlerInv
<1>3. PICK m : m = Len(log)
  OBVIOUS
<1>4. TypeInv'
  BY <1>1, <1>2 DEF IInv, TypeInv
<1>5. Reaches(m, revision)
  BY <1>2, <1>3 DEF IInv, LogInv, Reaches
<1>6. ViewInv(m)' /\ HandlerInv(m)'
  BY <1>1, <1>2, <1>3, <1>5 DEF ViewInv, HandlerInv, Reaches
<1>7. IInv(m)'
  BY <1>1, <1>2, <1>3, <1>4, <1>6, EmptyQueue
<1> QED BY <1>2, <1>3, <1>7

LEMMA Opened ==
  ASSUME NEW k, IInv(k), Open
  PROVE  IInv(k)'
<1>1. /\ pc = "closed" /\ pc' = "accepted" /\ since' = cursor /\ wire' = <<>>
      /\ UNCHANGED <<server, handler, cursor, view, pending, drops>> /\ pending = <<>>
  BY DEF Open, Opens, client, IInv, PlaceInv, HandlerInv
<1>2. UNCHANGED <<log, revision, sent, rx, lastSent>> /\ revision \in Nat
  BY <1>1 DEF server, handler, IInv, LogInv
<1>3. TypeInv' /\ ViewInv(k)' /\ HandlerInv(k)' /\ k \in Nat
  BY <1>1, <1>2 DEF IInv, TypeInv, PlaceInv, ViewInv, HandlerInv, Reaches
<1> QED BY <1>1, <1>3, EmptyQueue

-----------------------------------------------------------------------------
(* The invariant: each step moves the number the view stands at forward. *)

LEMMA Starts == Init => IInv(0)
<1> SUFFICES ASSUME Init PROVE IInv(0)
  OBVIOUS
<1> USE DEF Init, ClientInit
<1>1. LogInv
  BY DEF LogInv
<1>2. TypeInv
  BY DEF TypeInv
<1>3. OrderInv
  <2>1. \A j \in 0 .. 0 : ToSet(Deltas(j)) = {}
    BY DEF Deltas, ToSet
  <2>2. Len(wire) = 0 /\ DOMAIN wire = {}
    OBVIOUS
  <2> QED BY <2>1, <2>2 DEF OrderInv, SnapshotCoversDeltas
<1>4. PlaceInv(0)
  BY DEF PlaceInv, ViewInv, BatchInv, WireInv, HandlerInv
<1> QED BY <1>1, <1>2, <1>3, <1>4 DEF IInv

LEMMA StepForward ==
  ASSUME NEW k, IInv(k), [Next]_vars
  PROVE  \E m \in Nat : k <= m /\ IInv(m)'
<1>1. k \in Nat /\ k <= k /\ Len(log) \in Nat
  BY DEF IInv, LogInv
<1>2. \A m \in k .. Len(log) : m \in Nat /\ k <= m
  BY <1>1
<1>3. CASE Apply
  BY <1>1, <1>3, ChainStep
<1>4. CASE Handle
  BY <1>1, <1>4, HandlerStep
<1>5. CASE FetchSnapshot
  BY <1>2, <1>5, SnapshotFetched
<1>6. CASE Open
  BY <1>1, <1>6, Opened
<1>7. CASE Receive
  BY <1>1, <1>2, <1>7, SnapshotReceived, DeltaReceived, LaggedReceived
     DEF Receive, Receives
<1>8. CASE Flush
  BY <1>2, <1>8, Flushed
<1>9. CASE Disconnect
  BY <1>2, <1>9, Disconnected
<1>10. CASE UNCHANGED vars
  <2>1. UNCHANGED <<log, ringFrom, handler, socket, client, drops>>
        /\ revision' = revision /\ sent' = sent
    BY <1>10 DEF vars, server
  <2>2. IInv(k)'
    BY <2>1, ChainMoved
  <2> QED BY <1>1, <2>2
<1> QED BY <1>3, <1>4, <1>5, <1>6, <1>7, <1>8, <1>9, <1>10 DEF Next, Browse

Followed == \E k \in Nat : IInv(k)

\* The invariant the other theorems rest on: some number of entries places
\* the client's view, its queue and the handler.
THEOREM ViewIsFollowed == Spec => []Followed
<1>1. Init => Followed
  BY Starts DEF Followed
<1>2. Followed /\ [Next]_vars => Followed'
  BY StepForward DEF Followed
<1> QED BY <1>1, <1>2, PTL DEF Spec

-----------------------------------------------------------------------------
(* What it gives. *)

LEMMA FollowedIsTyped == ASSUME NEW k, IInv(k) PROVE TypeOK
<1>1. /\ log \in Seq(Entry) /\ Len(log) \in Nat /\ k \in 0 .. Len(log) /\ revision \in Nat
      /\ view = Content(log, k)
  BY DEF IInv, LogInv, PlaceInv, ViewInv
<1>2. view \in [Items -> 0 .. Len(log)]
  <2>1. view \in [Items -> 0 .. k]
    BY <1>1, ContentType
  <2> QED BY <1>1, <2>1
<1>3. pending \in Seq(1 .. Len(log))
  <2>1. CASE pending # <<>>
    BY <2>1 DEF IInv, PlaceInv, BatchInv, Run
  <2>2. CASE pending = <<>>
    BY <2>2
  <2> QED BY <2>1, <2>2
<1>4. ClientTypeOK
  BY <1>1, <1>2, <1>3 DEF ClientTypeOK, IInv, TypeInv
<1> QED BY <1>1, <1>4 DEF TypeOK, IInv, LogInv, TypeInv

\* Every reachable state is of the declared types: the ring lies in the log,
\* the receiver is never past what was broadcast, and neither the handler's
\* cursor nor the client's is past the revision.
THEOREM TypeCorrect == Spec => []TypeOK
<1>1. Followed => TypeOK
  BY FollowedIsTyped DEF Followed
<1> QED BY <1>1, ViewIsFollowed, PTL

\* A client that the handler considers caught up, with nothing on its way to
\* it, shows the chain entity's state (handle_chain_stream's catch-up and
\* its skipping of what the catch-up covered lose nothing).
THEOREM QuietIsCurrent == Spec => []QuietClientIsCurrent
<1>1. ASSUME NEW k, IInv(k), Quiet PROVE view = Content(log, Len(log))
  <2>1. Pos(k, Len(wire)) = k /\ BeforeLag(Len(wire)) /\ pc = "live"
    BY <1>1 DEF Quiet, Pos, BeforeLag
  <2>2. /\ rx <= k + 1 /\ rx = sent + 1 /\ ~ (sent < Len(log)) /\ sent \in Nat
        /\ k \in 0 .. Len(log) /\ Len(log) \in Nat /\ view = Content(log, k)
    BY <1>1, <2>1 DEF Quiet, Locked, IInv, LogInv, PlaceInv, ViewInv, HandlerInv
  <2>3. k = Len(log)
    BY <2>2
  <2> QED BY <2>2, <2>3
<1>2. Followed => QuietClientIsCurrent
  BY <1>1 DEF Followed, QuietClientIsCurrent
<1> QED BY <1>2, ViewIsFollowed, PTL

\* A client never reconnects with a cursor past what its view has, so a
\* replay from that cursor misses nothing.
THEOREM CursorIsHonest == Spec => []CursorNeverPassesView
<1>1. ASSUME NEW k, IInv(k), NEW s \in 1 .. Len(log), log[s].rev <= cursor
      PROVE  view[log[s].item] >= s
  <2>1. log[s].rev \in Nat \ {0} /\ cursor \in Nat
    BY <1>1, EntryType DEF IInv, LogInv, TypeInv
  <2>2. /\ Reaches(k, cursor) /\ view = Content(log, k) /\ k \in 0 .. Len(log)
        /\ log \in Seq(Entry) /\ Len(log) \in Nat
    BY <1>1, <2>1 DEF IInv, LogInv, PlaceInv, ViewInv
  <2>3. s \in 1 .. k /\ k \in Nat /\ k <= Len(log)
    BY <1>1, <2>2 DEF Reaches
  <2> QED BY <2>2, <2>3, ContentCovers
<1>2. Followed => CursorNeverPassesView
  BY <1>1 DEF Followed, CursorNeverPassesView
<1> QED BY <1>2, ViewIsFollowed, PTL

\* On one connection of the entity stream no mutation is sent twice or out
\* of order, whether it comes from the ring or from the channel.
THEOREM ConnectionOrdered == Spec => []ConnectionIsOrdered
<1>1. ASSUME NEW k, IInv(k) PROVE ConnectionIsOrdered
  <2>1. \A i, j \in 0 .. Len(wire) : i < j =>
          \A s \in ToSet(Deltas(i)), t \in ToSet(Deltas(j)) : s < t
    BY <1>1 DEF IInv, OrderInv
  <2>2. \A j \in 0 .. Len(wire) :
          \A a, b \in DOMAIN Deltas(j) : a < b => Deltas(j)[a] < Deltas(j)[b]
    BY <1>1, DeltasAreEntries
  <2> QED BY <2>1, <2>2 DEF ConnectionIsOrdered
<1>2. Followed => ConnectionIsOrdered
  BY <1>1 DEF Followed
<1> QED BY <1>2, ViewIsFollowed, PTL

\* No delta of a revision a snapshot covers is queued after that snapshot.
THEOREM SnapshotCovers == Spec => []SnapshotCoversDeltas
<1>1. Followed => SnapshotCoversDeltas
  BY DEF Followed, IInv, OrderInv
<1> QED BY <1>1, ViewIsFollowed, PTL

LEMMA CommitSkipsNothing ==
  ASSUME NEW k, IInv(k), FlushPending, cursor > 0, cursor' > cursor, pending # <<>>,
         NEW s \in 1 .. Len(log), cursor < log[s].rev, log[s].rev < cursor'
  PROVE  s \in ToSet(pending)
<1>1. /\ log \in Seq(Entry) /\ Len(log) \in Nat /\ k \in 0 .. Len(log) /\ k \in Nat
      /\ cursor \in Nat /\ Reaches(k, cursor) /\ DOMAIN log = 1 .. Len(log)
      /\ cursor' \in cursor .. revision /\ revision \in Nat
  BY Committed DEF IInv, LogInv, TypeInv, PlaceInv, ViewInv
<1>2. log[s].rev \in Nat
  BY EntryType DEF IInv
<1>3. Run(pending) /\ pending[1] <= k + 1
  BY DEF IInv, PlaceInv, BatchInv
<1>4. /\ Len(pending) \in Nat \ {0} /\ pending[1] \in 1 .. Len(log)
      /\ pending[Len(pending)] \in 1 .. Len(log)
      /\ ToSet(pending) = pending[1] .. pending[Len(pending)]
  BY <1>1, <1>3, RunEnds
<1>5. Reaches(pending[Len(pending)], cursor')
  BY <1>1, Committed DEF Pos
<1>6. ~ (s <= k)
  BY <1>1, <1>2 DEF Reaches
<1>7. s <= pending[Len(pending)]
  BY <1>1, <1>2, <1>5 DEF Reaches
<1> QED BY <1>1, <1>3, <1>4, <1>6, <1>7

\* A batch that moves the client's cursor forward holds every mutation
\* between the two cursors, so no reconnection skips one.
THEOREM FlushesSkipNothing == Spec => FlushSkipsNothing
<1> DEFINE Skips == /\ cursor > 0 /\ cursor' > cursor /\ pending # <<>> /\ pending' = <<>>
                    /\ view' = Applied(pending)
           Holds == \A s \in 1 .. Len(log) :
                      cursor < log[s].rev /\ log[s].rev < cursor' => s \in ToSet(pending)
<1>1. ASSUME NEW k, IInv(k), [Next]_vars, Skips PROVE Holds
  <2>1. cursor \in Nat /\ cursor' > cursor /\ pending # <<>>
    BY <1>1 DEF IInv, TypeInv, LogInv
  <2>2. cursor' # cursor
    BY <2>1
  <2>3. ~ Apply /\ ~ Handle /\ ~ UNCHANGED vars /\ ~ Open
    BY <2>2 DEF Apply, ApplyVisible, ApplyHidden, Broadcast, Handle, Subscribe, CatchUp,
                FullSnapshot, ReportLag, Forward, vars, client, Open, Opens
  <2>4. ~ FetchSnapshot
    BY <1>1, <2>1 DEF FetchSnapshot, Fetched, IInv, PlaceInv, HandlerInv
  <2>5. ~ Receive
    <3>1. ASSUME Receive, ReceiveSnapshot PROVE FALSE
      <4>1. /\ wire # <<>> /\ wire' = Tail(wire) /\ Head(wire).kind = "snapshot"
        BY <3>1 DEF Receive, Receives, ReceiveSnapshot
      <4>2. Head(wire) = wire[1] /\ 1 \in DOMAIN wire
        BY <1>1, <4>1, FrameTaken, QueueShrank DEF IInv, TypeInv
      <4>3. FrameInv(k, 1)
        BY <1>1, <4>2 DEF IInv, PlaceInv, WireInv
      <4> QED BY <2>1, <4>1, <4>2, <4>3 DEF FrameInv
    <3>2. ~ ReceiveDelta
      BY <2>2 DEF ReceiveDelta
    <3>3. ~ ReceiveLagged
      BY <2>1 DEF ReceiveLagged
    <3> QED BY <3>1, <3>2, <3>3 DEF Receive, Receives
  <2>6. FlushPending
    BY <1>1, <2>3, <2>4, <2>5
       DEF Next, Browse, Flush, Flushes, Disconnect, Disconnects
  <2> QED BY <1>1, <2>6, CommitSkipsNothing
<1>2. Followed /\ [Next]_vars => [Skips => Holds]_<<client, pc, wire>>
  BY <1>1 DEF Followed
<1> QED BY <1>2, ViewIsFollowed, PTL DEF Spec, FlushSkipsNothing

\* The entity stream is a ReplicatedView: the client's view is always the
\* state after some prefix of the mutations, never of a shorter one later.
THEOREM ViewFollowsLog == Spec => ImplementsReplica
<1>0. Replica!Entry = Entry /\ \A lg, n : Replica!Content(lg, n) = Content(lg, n)
  BY DEF Replica!Content, Replica!Max, Replica!Entry, Content, Max, Entry
<1>1. Init => Replica!Init
  <2> SUFFICES ASSUME Init PROVE Replica!Init
    OBVIOUS
  <2>1. log = <<>> /\ view = Content(<<>>, 0)
    BY DEF Init, ClientInit
  <2>2. log \in Seq(Entry) /\ view = Content(log, 0)
    BY <2>1
  <2> QED BY <1>0, <2>2 DEF Replica!Init
<1>2. ASSUME NEW k, IInv(k), NEW m \in Nat, k <= m, IInv(m)', [Next]_vars
      PROVE  [Replica!Next]_<<log, view>>
  <2>1. CASE ApplyVisible
    <3>1. UNCHANGED view /\ log \in Seq(Entry)
      BY <1>2, <2>1 DEF ApplyVisible, client, IInv, LogInv
    <3>2. PICK e : log' = Append(log, e)
      BY <2>1 DEF ApplyVisible
    <3>3. /\ DOMAIN log = 1 .. Len(log) /\ DOMAIN log' = 1 .. (Len(log) + 1)
          /\ Len(log) \in Nat /\ \A s \in 1 .. Len(log) : log'[s] = log[s]
      <4>1. log \in Seq(Entry \cup {e}) /\ e \in Entry \cup {e}
        BY <3>1
      <4> QED BY <3>2, <4>1
    <3>4. Replica!IsPrefix(log, log')
      BY <3>3 DEF Replica!IsPrefix
    <3>5. Replica!Grow
      BY <3>1, <3>4 DEF Replica!Grow
    <3> QED BY <3>5 DEF Replica!Next
  <2>2. CASE ~ ApplyVisible
    <3>1. UNCHANGED log
      BY <1>2, <2>2 DEF Next, vars, server, Apply, ApplyHidden, Broadcast, Handle, Subscribe,
           CatchUp, FullSnapshot, ReportLag, Forward, Browse, FetchSnapshot, Open, Receive,
           Flush, Disconnect
    <3>2. /\ view = Content(log, k) /\ view' = Content(log, m)
          /\ m \in 0 .. Len(log) /\ k \in Nat
      BY <1>2, <3>1 DEF IInv, PlaceInv, ViewInv
    <3>3. \A i \in Items : view'[i] >= view[i]
      BY <1>2, <3>2, ContentGrows
    <3>4. \E n \in 0 .. Len(log) : view' = Replica!Content(log, n)
      BY <1>0, <3>2
    <3>5. Replica!Refresh
      BY <3>1, <3>3, <3>4 DEF Replica!Refresh
    <3> QED BY <3>5 DEF Replica!Next
  <2> QED BY <2>1, <2>2
<1>3. Followed /\ [Next]_vars => [Replica!Next]_<<log, view>>
  BY <1>2, StepForward DEF Followed
<1>4. Followed /\ [Next]_vars => [Replica!Next]_(Replica!rvars)
  BY <1>3 DEF Replica!rvars
<1> QED BY <1>1, <1>4, ViewIsFollowed, PTL DEF Spec, ImplementsReplica, Replica!Spec
=============================================================================
