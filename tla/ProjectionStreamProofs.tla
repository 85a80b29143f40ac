------------------------ MODULE ProjectionStreamProofs ------------------------
(***************************************************************************)
(* Proofs about ProjectionStream, for any items, ring, channel, replay     *)
(* limit and bounds: one connection sends no delta twice or out of order,  *)
(* and a flush that moves the client's cursor skips none.                  *)
(*                                                                         *)
(* Several entries share a revision, so the client's cursor does not say   *)
(* how many entries its view holds, as it does in EntityStreamProofs.  The *)
(* invariant says instead which entry may come next (Follows): after a     *)
(* batch or a delta frame the one after its last; after a snapshot, or for *)
(* a client with nothing queued, one before which every entry is of a      *)
(* revision the client has.                                                *)
(***************************************************************************)
EXTENDS ProjectionStream, StreamClientProofs

\* Every entry before the n-th is of a revision up to r.
Before(n, r) == \A s \in DOMAIN log : s < n => log[s].rev <= r

\* The a-th entry is the first of its mutation.
Fresh(a) == \A s, t \in DOMAIN log : s < a /\ a <= t => log[s].rev < log[t].rev

\* The ring begins with a mutation's first delta or has evicted the ones
\* before: only then may it begin in the middle of one.
LogInv ==
  /\ log \in Seq(Entry)
  /\ \A s, t \in DOMAIN log : s <= t => log[s].rev <= log[t].rev
  /\ revision \in Nat /\ \A s \in DOMAIN log : log[s].rev <= revision
  /\ sent \in 0 .. Len(log) /\ ringFrom \in 1 .. sent + 1 /\ cleared \in BOOLEAN
  /\ Fresh(ringFrom) \/ sent + 1 - ringFrom = RingCap

TypeInv ==
  /\ since \in Nat /\ cursor \in Nat /\ drops \in Nat
  /\ wire \in Seq(Frame) /\ view \in [Items -> 0 .. Len(log)]
  /\ rx \in 1 .. sent + 1 /\ held \subseteq 1 .. sent /\ lastSeq \in 0 .. sent
  /\ pc \in {"boot", "closed", "accepted", "subscribed", "ring", "full", "live"}

\* May the n-th entry be the next one once the first j frames are applied?
\* A cursor of zero asks for everything and promises nothing.
Follows(j, n) ==
  IF j = 0
  THEN IF pending = <<>> THEN cursor > 0 => Before(n, cursor)
                         ELSE n = pending[Len(pending)] + 1
  ELSE IF wire[j].kind = "snapshot" THEN Before(n, wire[j].rev)
  ELSE n = wire[j].deltas[Len(wire[j].deltas)] + 1

PendingInv ==
  pending # <<>> => Run(pending) /\ (cursor > 0 => Before(pending[1], cursor))

FrameInv(j) ==
  /\ wire[j].kind = "snapshot" => j = 1 /\ pending = <<>> /\ wire[j].upTo <= Len(log)
  /\ wire[j].kind = "delta" =>
       Run(wire[j].deltas) /\ (BeforeLag(j) => Follows(j - 1, wire[j].deltas[1]))

WireInv == \A j \in DOMAIN wire : FrameInv(j)

\* The entry the live loop will forward next.
NextSent == IF rx <= lastSeq THEN lastSeq + 1 ELSE rx

\* The copied ring, and the receiver that subscribed before it was copied.
HeldInv ==
  held = {} \/ \E a, b \in 1 .. sent :
     /\ held = a .. b /\ a <= b /\ rx <= b + 1
     /\ Fresh(a) \/ b + 1 - a = RingCap

HandlerInv ==
  /\ pc # "live" => wire = <<>> /\ pending = <<>>
  /\ pc \in {"accepted", "subscribed", "ring", "full"} => since = cursor
  /\ pc \in {"subscribed", "ring", "full"} => lastSeq = 0
  /\ pc \in {"ring", "full"} => HeldInv
  /\ pc = "live" /\ BeforeLag(Len(wire)) => Follows(Len(wire), NextSent)

OrderInv ==
  /\ pc = "live" => \A j \in 0 .. Len(wire) : \A s \in ToSet(Deltas(j)) : s <= lastSeq
  /\ \A i, j \in 0 .. Len(wire) : i < j =>
       \A s \in ToSet(Deltas(i)), t \in ToSet(Deltas(j)) : s < t

IInv == LogInv /\ TypeInv /\ PendingInv /\ WireInv /\ HandlerInv /\ OrderInv

-----------------------------------------------------------------------------
(* Facts about entries. *)

LEMMA LogFacts ==
  ASSUME LogInv
  PROVE  /\ log \in Seq(Entry) /\ Len(log) \in Nat /\ DOMAIN log = 1 .. Len(log)
         /\ \A s \in 1 .. Len(log) :
              log[s].rev \in Nat \ {0} /\ log[s].item \in Items /\ log[s].rev <= revision
         /\ \A s, t \in 1 .. Len(log) : s <= t => log[s].rev <= log[t].rev
         /\ sent \in Nat /\ sent <= Len(log) /\ revision \in Nat /\ ringFrom \in Nat \ {0}
<1>1. log \in Seq(Entry) /\ Len(log) \in Nat /\ DOMAIN log = 1 .. Len(log)
  BY DEF LogInv
<1>2. \A s \in 1 .. Len(log) : log[s] \in Entry
  BY <1>1
<1>3. \A s \in 1 .. Len(log) : log[s].rev \in Nat \ {0} /\ log[s].item \in Items
  BY <1>2 DEF Entry
<1>4. \A s \in 1 .. Len(log) : log[s].rev <= revision
  BY <1>1 DEF LogInv
<1>5. \A s, t \in 1 .. Len(log) : s <= t => log[s].rev <= log[t].rev
  BY <1>1 DEF LogInv
<1>6. sent \in Nat /\ sent <= Len(log) /\ revision \in Nat /\ ringFrom \in Nat \ {0}
  BY <1>1 DEF LogInv
<1> QED BY <1>1, <1>3, <1>4, <1>5, <1>6

\* An entry after the log says nothing of a revision the log has.
LEMMA BeforeRevision ==
  ASSUME LogInv, NEW n PROVE Before(n, revision)
BY DEF LogInv, Before

LEMMA DeltasAreRuns ==
  ASSUME TypeInv, PendingInv, WireInv, NEW j \in 0 .. Len(wire)
  PROVE  Run(Deltas(j)) \/ Deltas(j) = <<>>
<1>1. CASE j = 0
  BY <1>1 DEF PendingInv, Deltas
<1>2. CASE j # 0
  <2>1. j \in DOMAIN wire
    BY <1>2 DEF TypeInv
  <2> QED BY <1>2, <2>1 DEF WireInv, FrameInv, Deltas
<1> QED BY <1>1, <1>2

\* Without frames and without a batch nothing is queued.
LEMMA NothingQueued ==
  ASSUME wire = <<>>, pending = <<>>, NEW j \in 0 .. Len(wire)
  PROVE  ToSet(Deltas(j)) = {}
BY DEF Deltas, ToSet

-----------------------------------------------------------------------------
(* The runner. *)

\* What the client and the handler keep when the log grows.
LEMMA RunnerMoved ==
  ASSUME IInv, LogInv', UNCHANGED <<handler, socket, client, drops>>, sent <= sent',
         Len(log) <= Len(log'), \A s \in 1 .. Len(log) : log'[s] = log[s],
         \A a \in 1 .. Len(log) : Fresh(a) => Fresh(a)'
  PROVE  IInv'
<1>1. UNCHANGED <<rx, held, lastSeq, pc, since, wire, cursor, view, pending, drops>>
  BY DEF handler, socket, client
<1>2. /\ log \in Seq(Entry) /\ Len(log) \in Nat /\ DOMAIN log = 1 .. Len(log)
      /\ sent \in Nat /\ sent <= Len(log)
  BY LogFacts DEF IInv
<1>3. /\ Len(log') \in Nat /\ DOMAIN log' = 1 .. Len(log')
      /\ sent' \in Nat /\ sent' <= Len(log')
  BY DEF LogInv
<1>4. ASSUME NEW n \in 1 .. Len(log) + 1, NEW r, Before(n, r) PROVE Before(n, r)'
  BY <1>2, <1>3, <1>4 DEF Before
<1>5. ASSUME NEW q, Run(q) PROVE Run(q)' /\ q[1] \in 1 .. Len(log)
  <2>1. q \in Seq(1 .. Len(log'))
    BY <1>2, <1>3, <1>5 DEF Run
  <2> QED BY <1>2, <1>5, <2>1, RunEnds DEF Run
<1>6. ASSUME NEW j, NEW n \in 1 .. Len(log) + 1, Follows(j, n) PROVE Follows(j, n)'
  BY <1>1, <1>4, <1>6 DEF Follows
<1>7. TypeInv'
  <2>1. view' \in [Items -> 0 .. Len(log')]
    BY <1>1, <1>2, <1>3 DEF IInv, TypeInv
  <2>2. rx' \in 1 .. sent' + 1
    <3>1. rx \in 1 .. sent + 1
      BY DEF IInv, TypeInv
    <3>2. PICK a \in Nat : a = sent'
      BY <1>3
    <3>3. sent <= a /\ sent \in Nat
      BY <1>2, <3>2
    <3>4. rx \in 1 .. a + 1
      BY <3>1, <3>3
    <3> QED BY <1>1, <3>2, <3>4
  <2>3. held' \subseteq 1 .. sent'
    <3>1. 1 .. sent \subseteq 1 .. sent'
      BY <1>2, <1>3
    <3> QED BY <1>1, <3>1 DEF IInv, TypeInv
  <2>4. lastSeq' \in 0 .. sent'
    BY <1>1, <1>2, <1>3 DEF IInv, TypeInv
  <2> QED BY <1>1, <2>1, <2>2, <2>3, <2>4 DEF IInv, TypeInv
<1>8. PendingInv'
  <2>1. CASE pending = <<>>
    BY <1>1, <2>1 DEF PendingInv
  <2>2. CASE pending # <<>>
    <3>1. Run(pending) /\ (cursor > 0 => Before(pending[1], cursor))
      BY <2>2 DEF IInv, PendingInv
    <3>2. Run(pending)' /\ pending[1] \in 1 .. Len(log) + 1
      BY <1>1, <1>2, <1>5, <3>1
    <3> QED BY <1>1, <1>4, <3>1, <3>2 DEF PendingInv
  <2> QED BY <2>1, <2>2
<1>9. WireInv'
  <2> SUFFICES ASSUME NEW j \in DOMAIN wire PROVE FrameInv(j)'
    BY <1>1 DEF WireInv
  <2>1. FrameInv(j)
    BY DEF IInv, WireInv
  <2>2. CASE wire[j].kind = "snapshot"
    <3>1. j = 1 /\ pending = <<>> /\ wire[j].upTo <= Len(log) /\ wire[j] \in Frame
      BY <2>1, <2>2 DEF FrameInv, IInv, TypeInv
    <3>2. wire[j].upTo \in Nat
      BY <2>2, <3>1 DEF Frame
    <3> QED BY <1>1, <1>2, <1>3, <2>2, <3>1, <3>2 DEF FrameInv
  <2>3. CASE wire[j].kind = "delta"
    <3>1. Run(wire[j].deltas) /\ (BeforeLag(j) => Follows(j - 1, wire[j].deltas[1]))
      BY <2>1, <2>3 DEF FrameInv
    <3>2. PICK i, n : i = j - 1 /\ n = wire[j].deltas[1]
      OBVIOUS
    <3>3. Run(wire[j].deltas)' /\ n \in 1 .. Len(log) + 1
      BY <1>1, <1>2, <1>5, <3>1, <3>2
    <3>4. BeforeLag(j)' <=> BeforeLag(j)
      BY <1>1 DEF BeforeLag
    <3>5. BeforeLag(j)' => Follows(i, n)'
      BY <1>6, <3>1, <3>2, <3>3, <3>4
    <3>6. BeforeLag(j)' => Follows(j - 1, wire[j].deltas[1])'
      BY <1>1, <3>2, <3>5
    <3> QED BY <1>1, <2>3, <3>3, <3>6 DEF FrameInv
  <2>4. CASE wire[j].kind \notin {"snapshot", "delta"}
    BY <1>1, <2>4 DEF FrameInv
  <2> QED BY <2>2, <2>3, <2>4
<1>10. HandlerInv'
  <2>1. HeldInv => HeldInv'
    <3>1. ASSUME NEW a \in 1 .. sent, NEW b \in 1 .. sent, held = a .. b, a <= b, rx <= b + 1,
                 Fresh(a) \/ b + 1 - a = RingCap
          PROVE  HeldInv'
      <4>1. a \in 1 .. sent' /\ b \in 1 .. sent' /\ a \in 1 .. Len(log)
        BY <1>2, <1>3
      <4>2. Fresh(a)' \/ b + 1 - a = RingCap
        BY <3>1, <4>1
      <4> QED BY <1>1, <3>1, <4>1, <4>2 DEF HeldInv
    <3> QED BY <1>1, <3>1 DEF HeldInv
  <2>2. NextSent \in 1 .. Len(log) + 1
    BY <1>2 DEF NextSent, IInv, TypeInv
  <2>3. PICK i, n : i = Len(wire) /\ n = NextSent
    OBVIOUS
  <2>4. pc = "live" /\ BeforeLag(i) => Follows(i, n)'
    BY <1>6, <2>2, <2>3 DEF IInv, HandlerInv
  <2>5. n = NextSent' /\ i = Len(wire') /\ (BeforeLag(i)' <=> BeforeLag(i))
    BY <1>1, <2>3 DEF NextSent, BeforeLag
  <2>6. pc' = "live" /\ BeforeLag(Len(wire))' => Follows(Len(wire), NextSent)'
    BY <1>1, <2>4, <2>5
  <2> QED BY <1>1, <2>1, <2>6 DEF IInv, HandlerInv
<1>11. OrderInv'
  <2>1. \A j : Deltas(j)' = Deltas(j)
    BY <1>1 DEF Deltas
  <2> QED BY <1>1, <2>1 DEF IInv, OrderInv
<1> QED BY <1>7, <1>8, <1>9, <1>10, <1>11 DEF IInv

LEMMA RunnerStep == ASSUME IInv, Apply \/ UNCHANGED vars PROVE IInv'
<1>1. /\ log \in Seq(Entry) /\ Len(log) \in Nat /\ DOMAIN log = 1 .. Len(log)
      /\ \A s \in 1 .. Len(log) : log[s].rev \in Nat \ {0} /\ log[s].rev <= revision
      /\ \A s, t \in 1 .. Len(log) : s <= t => log[s].rev <= log[t].rev
      /\ sent \in Nat /\ sent <= Len(log) /\ revision \in Nat /\ ringFrom \in 1 .. sent + 1
      /\ LogInv
  BY LogFacts DEF IInv, LogInv
<1>2. UNCHANGED <<handler, socket, client, drops>>
  BY DEF Apply, ClearRing, Commit, Publish, vars
<1>3. CASE UNCHANGED vars
  <2>1. UNCHANGED <<log, revision, sent, ringFrom, cleared>>
    BY <1>3 DEF vars, runner
  <2>2. LogInv' /\ \A a : Fresh(a) => Fresh(a)'
    BY <1>1, <2>1 DEF LogInv, Fresh
  <2> QED BY <1>1, <1>2, <2>1, <2>2, RunnerMoved
<1>4. CASE ClearRing
  <2>1. /\ UNCHANGED <<log, revision, sent>> /\ ringFrom' = sent + 1 /\ sent = Len(log)
        /\ cleared' = TRUE
    BY <1>4 DEF ClearRing, Idle
  <2>2. \A a : Fresh(a)' <=> Fresh(a)
    BY <2>1 DEF Fresh
  <2>3. Fresh(sent + 1)
    BY <1>1, <2>1 DEF Fresh
  <2>4. Fresh(ringFrom)'
    BY <2>1, <2>3 DEF Fresh
  <2>5. LogInv'
    BY <1>1, <2>1, <2>4 DEF LogInv
  <2> QED BY <1>1, <1>2, <2>1, <2>2, <2>5, RunnerMoved
<1>5. CASE Commit
  <2>1. /\ UNCHANGED <<sent, ringFrom>> /\ sent = Len(log)
        /\ revision' = revision + 1 /\ cleared' = FALSE
    BY <1>5 DEF Commit, Idle
  <2>2. PICK n \in (IF cleared THEN 1 ELSE 0) .. MaxBatch :
          \E d \in [1 .. n -> Items] :
            log' = log \o [j \in 1 .. n |-> [rev |-> revision + 1, item |-> d[j]]]
    BY <1>5 DEF Commit
  <2>3. n \in Nat
    BY <2>2, ProjectionAssumption
  <2>4. PICK d \in [1 .. n -> Items] :
          log' = log \o [j \in 1 .. n |-> [rev |-> revision + 1, item |-> d[j]]]
    BY <2>2
  <2> DEFINE e == [j \in 1 .. n |-> [rev |-> revision + 1, item |-> d[j]]]
  <2>5. e \in Seq(Entry) /\ Len(e) = n /\ \A j \in 1 .. n : e[j].rev = revision + 1
    <3>1. \A j \in 1 .. n : e[j] \in Entry
      BY <1>1, <2>3, <2>4 DEF Entry
    <3>2. e \in [1 .. n -> Entry]
      BY <3>1
    <3> QED BY <2>3, <3>2
  <2>6. log' = log \o e
    BY <2>4
  <2> HIDE DEF e
  <2>7. /\ log' \in Seq(Entry) /\ Len(log') = Len(log) + n
        /\ DOMAIN log' = 1 .. (Len(log) + n)
        /\ \A s \in 1 .. Len(log) : log'[s] = log[s]
        /\ \A s \in 1 .. n : log'[Len(log) + s] = e[s]
    <3>1. log \in Seq(Entry) /\ e \in Seq(Entry) /\ Len(e) = n /\ n \in Nat
      BY <1>1, <2>3, <2>5
    <3>2. log \o e \in Seq(Entry) /\ Len(log \o e) = Len(log) + n
      BY <3>1
    <3>3. \A s \in 1 .. Len(log) : (log \o e)[s] = log[s]
      BY <3>1
    <3>4. \A s \in 1 .. n : (log \o e)[Len(log) + s] = e[s]
      BY <3>1
    <3>5. DOMAIN (log \o e) = 1 .. (Len(log) + n)
      BY <3>2
    <3> QED BY <2>6, <3>2, <3>3, <3>4, <3>5
  <2>8. \A s \in 1 .. (Len(log) + n) : ~ (s <= Len(log)) => log'[s].rev = revision + 1
    <3> SUFFICES ASSUME NEW s \in 1 .. (Len(log) + n), ~ (s <= Len(log))
                 PROVE  log'[s].rev = revision + 1
      OBVIOUS
    <3>1. s - Len(log) \in 1 .. n /\ Len(log) + (s - Len(log)) = s
      BY <1>1, <2>3
    <3> QED BY <2>5, <2>7, <3>1
  <2>9. \A s \in 1 .. (Len(log) + n) : log'[s].rev \in Nat /\ log'[s].rev <= revision + 1
    BY <1>1, <2>7, <2>8
  <2>10. \A s, t \in 1 .. (Len(log) + n) : s <= t => log'[s].rev <= log'[t].rev
    <3> SUFFICES ASSUME NEW s \in 1 .. (Len(log) + n), NEW t \in 1 .. (Len(log) + n), s <= t
                 PROVE  log'[s].rev <= log'[t].rev
      OBVIOUS
    <3>1. CASE t <= Len(log)
      <4>1. s \in 1 .. Len(log) /\ t \in 1 .. Len(log)
        BY <1>1, <2>3, <3>1
      <4> QED BY <1>1, <2>7, <4>1
    <3>2. CASE ~ (t <= Len(log))
      BY <1>1, <2>8, <2>9, <3>2
    <3> QED BY <3>1, <3>2
  <2>11. ASSUME NEW a \in 1 .. Len(log) + 1, Fresh(a) PROVE Fresh(a)'
    <3> SUFFICES ASSUME NEW s \in 1 .. (Len(log) + n), NEW t \in 1 .. (Len(log) + n),
                        s < a, a <= t
                 PROVE  log'[s].rev < log'[t].rev
      BY <2>7 DEF Fresh
    <3>1. s \in 1 .. Len(log) /\ log'[s].rev = log[s].rev
      BY <1>1, <2>3, <2>7
    <3>2. CASE t <= Len(log)
      <4>1. t \in 1 .. Len(log) /\ log'[t].rev = log[t].rev
        BY <1>1, <2>3, <2>7, <3>2
      <4>2. log[s].rev < log[t].rev
        BY <1>1, <2>11, <3>1, <4>1 DEF Fresh
      <4> QED BY <3>1, <4>1, <4>2
    <3>3. CASE ~ (t <= Len(log))
      BY <1>1, <2>8, <3>1, <3>3
    <3> QED BY <3>2, <3>3
  <2>12. Fresh(ringFrom)' \/ sent + 1 - ringFrom = RingCap
    <3>1. PICK a : a = ringFrom
      OBVIOUS
    <3>2. a \in 1 .. Len(log) + 1 /\ a = ringFrom'
      BY <1>1, <2>1, <3>1
    <3>3. Fresh(a) => Fresh(a)'
      BY <2>11, <3>2
    <3> QED BY <1>1, <3>1, <3>2, <3>3 DEF LogInv
  <2>13. LogInv'
    <3>1. sent' \in 0 .. Len(log') /\ ringFrom' \in 1 .. sent' + 1 /\ revision' \in Nat
      BY <1>1, <2>1, <2>3, <2>7
    <3>2. Fresh(ringFrom)' \/ sent' + 1 - ringFrom' = RingCap
      BY <2>1, <2>12
    <3>3. \A s \in DOMAIN log' : log'[s].rev <= revision'
      BY <2>1, <2>7, <2>9
    <3>4. \A s, t \in DOMAIN log' : s <= t => log'[s].rev <= log'[t].rev
      BY <2>7, <2>10
    <3> QED BY <2>1, <2>7, <3>1, <3>2, <3>3, <3>4 DEF LogInv
  <2>14. sent <= sent' /\ Len(log) <= Len(log') /\ \A a \in 1 .. Len(log) : Fresh(a) => Fresh(a)'
    BY <1>1, <2>1, <2>3, <2>7, <2>11
  <2> QED BY <1>2, <2>7, <2>13, <2>14, RunnerMoved
<1>6. CASE Publish
  <2>1. /\ UNCHANGED <<log, revision, cleared>> /\ sent' = sent + 1 /\ sent < Len(log)
        /\ ringFrom' = Max({ringFrom, sent + 2 - RingCap})
    BY <1>6 DEF Publish
  <2>2. RingCap \in Nat \ {0}
    BY StreamAssumption
  <2>3. ringFrom' = IF ringFrom <= sent + 2 - RingCap THEN sent + 2 - RingCap ELSE ringFrom
    BY <1>1, <2>1, <2>2, MaxOfTwo
  <2>4. \A a : Fresh(a)' <=> Fresh(a)
    BY <2>1 DEF Fresh
  <2>5. PICK a : a = ringFrom
    OBVIOUS
  <2>6. Fresh(ringFrom)' \/ sent' + 1 - ringFrom' = RingCap
    <3>1. CASE ringFrom <= sent + 2 - RingCap
      BY <1>1, <2>1, <2>2, <2>3, <3>1
    <3>2. CASE ~ (ringFrom <= sent + 2 - RingCap)
      <4>1. sent + 1 - ringFrom # RingCap /\ a = ringFrom'
        BY <1>1, <2>2, <2>3, <2>5, <3>2
      <4>2. Fresh(a)'
        BY <1>1, <2>4, <2>5, <4>1 DEF LogInv
      <4>3. Fresh(ringFrom)'
        BY <4>1, <4>2
      <4> QED BY <4>3
    <3> QED BY <3>1, <3>2
  <2>7. ringFrom' \in 1 .. sent' + 1 /\ sent' \in 0 .. Len(log)
    BY <1>1, <2>1, <2>2, <2>3
  <2>8. LogInv'
    BY <1>1, <2>1, <2>6, <2>7 DEF LogInv
  <2> QED BY <1>1, <1>2, <2>1, <2>4, <2>8, RunnerMoved
<1> QED BY <1>3, <1>4, <1>5, <1>6 DEF Apply

-----------------------------------------------------------------------------
(* The handler. *)

\* What an unchanged log keeps.
LEMMA LogKept ==
  ASSUME UNCHANGED runner
  PROVE  /\ LogInv => LogInv'
         /\ \A n, r : Before(n, r)' <=> Before(n, r)
         /\ \A a : Fresh(a)' <=> Fresh(a)
         /\ \A q : Run(q)' <=> Run(q)
<1>1. UNCHANGED <<log, revision, sent, ringFrom, cleared>>
  BY DEF runner
<1>2. \A a : Fresh(a)' <=> Fresh(a)
  BY <1>1 DEF Fresh
<1>3. Fresh(ringFrom)' <=> Fresh(ringFrom)
  BY <1>1 DEF Fresh
<1> QED BY <1>1, <1>2, <1>3 DEF LogInv, Before, Run

\* What a handler that sends nothing keeps.
LEMMA NothingSent ==
  ASSUME IInv, UNCHANGED <<runner, since, wire, client, drops>>, HandlerInv',
         rx' \in 1 .. sent + 1, held' \subseteq 1 .. sent, lastSeq' \in 0 .. sent,
         pc' \in {"subscribed", "ring", "full", "live"},
         (pc = "live" /\ lastSeq <= lastSeq') \/ (wire = <<>> /\ pending = <<>>)
  PROVE  IInv'
<1>1. UNCHANGED <<log, revision, sent, cursor, view, pending, since, wire, drops>>
  BY DEF runner, client
<1>2. LogInv'
  BY LogKept DEF IInv
<1>3. TypeInv'
  BY <1>1 DEF IInv, TypeInv
<1>4. PendingInv'
  <2>1. PICK n : n = pending[1]
    OBVIOUS
  <2>2. n = pending[1]'
    BY <1>1, <2>1
  <2> QED BY <1>1, <2>1, <2>2, LogKept DEF IInv, PendingInv
<1>5. WireInv'
  <2> SUFFICES ASSUME NEW j \in DOMAIN wire PROVE FrameInv(j)'
    BY <1>1 DEF WireInv
  <2>1. FrameInv(j)
    BY DEF IInv, WireInv
  <2> QED BY <1>1, <2>1, LogKept DEF FrameInv, Follows, BeforeLag, Before, Run
<1>6. OrderInv'
  <2>1. \A j : Deltas(j)' = Deltas(j)
    BY <1>1 DEF Deltas
  <2>2. \A j \in 0 .. Len(wire) : \A s \in ToSet(Deltas(j)) : s <= lastSeq'
    <3>1. CASE pc = "live" /\ lastSeq <= lastSeq'
      <4> SUFFICES ASSUME NEW j \in 0 .. Len(wire), NEW s \in ToSet(Deltas(j))
                   PROVE  s <= lastSeq'
        OBVIOUS
      <4>1. s <= lastSeq
        BY <3>1 DEF IInv, OrderInv
      <4>2. log \in Seq(Entry) /\ Len(log) \in Nat
        BY DEF IInv, LogInv
      <4>3. Run(Deltas(j)) \/ Deltas(j) = <<>>
        BY DeltasAreRuns DEF IInv
      <4>4. s \in Nat
        <5>1. CASE Run(Deltas(j))
          <6>1. s \in Deltas(j)[1] .. Deltas(j)[Len(Deltas(j))] /\ Deltas(j)[1] \in 1 .. Len(log)
            BY <4>2, <5>1, RunEnds
          <6> QED BY <4>2, <6>1
        <5>2. CASE Deltas(j) = <<>>
          BY <5>2 DEF ToSet
        <5> QED BY <4>3, <5>1, <5>2
      <4> QED BY <3>1, <4>1, <4>4 DEF IInv, TypeInv, LogInv
    <3>2. CASE wire = <<>> /\ pending = <<>>
      BY <3>2, NothingQueued
    <3> QED BY <3>1, <3>2
  <2>3. \A i, j \in 0 .. Len(wire) : i < j =>
          \A s \in ToSet(Deltas(i)), t \in ToSet(Deltas(j)) : s < t
    BY DEF IInv, OrderInv
  <2> QED BY <1>1, <2>1, <2>2, <2>3 DEF OrderInv
<1> QED BY <1>2, <1>3, <1>4, <1>5, <1>6 DEF IInv

\* What a sent frame leaves as it was.
LEMMA FrameSent ==
  ASSUME IInv, NEW f, wire' = Append(wire, f), UNCHANGED <<runner, client>>
  PROVE  /\ \A j \in 0 .. Len(wire) : \A n : Follows(j, n)' <=> Follows(j, n)
         /\ \A j \in DOMAIN wire : FrameInv(j)'
         /\ PendingInv'
<1>1. UNCHANGED <<log, cursor, view, pending>> /\ wire \in Seq(Frame)
  BY DEF runner, client, IInv, TypeInv
<1>2. /\ Len(wire) \in Nat /\ DOMAIN wire = 1 .. Len(wire)
      /\ \A j \in 1 .. Len(wire) : wire'[j] = wire[j]
      /\ \A j \in 0 .. Len(wire) : BeforeLag(j)' <=> BeforeLag(j)
  BY <1>1, QueueGrew
<1>3. \A j \in 0 .. Len(wire) : \A n : Follows(j, n)' <=> Follows(j, n)
  BY <1>1, <1>2, LogKept DEF Follows
<1>4. ASSUME NEW j \in DOMAIN wire PROVE FrameInv(j)'
  <2>1. FrameInv(j) /\ wire'[j] = wire[j] /\ (BeforeLag(j)' <=> BeforeLag(j))
    BY <1>2 DEF IInv, WireInv
  <2>2. PICK i, n : i = j - 1 /\ n = wire[j].deltas[1]
    OBVIOUS
  <2>3. i \in 0 .. Len(wire) /\ n = wire'[j].deltas[1]
    BY <1>2, <2>1, <2>2
  <2>4. Follows(i, n)' <=> Follows(i, n)
    BY <1>3, <2>3
  <2>5. Follows(j - 1, wire[j].deltas[1])' <=> Follows(j - 1, wire[j].deltas[1])
    BY <2>1, <2>2, <2>3, <2>4
  <2> QED BY <1>1, <2>1, <2>5, LogKept DEF FrameInv
<1>5. PendingInv'
  <2>1. PICK n : n = pending[1]
    OBVIOUS
  <2>2. n = pending[1]'
    BY <1>1, <2>1
  <2> QED BY <1>1, <2>1, <2>2, LogKept DEF IInv, PendingInv
<1> QED BY <1>3, <1>4, <1>5

LEMMA SendDelta ==
  ASSUME IInv, NEW d, Run(d), wire' = Append(wire, [kind |-> "delta", deltas |-> d]),
         UNCHANGED <<runner, held, since, client, drops>>, pc' = "live",
         pc = "live" \/ (wire = <<>> /\ pending = <<>>),
         lastSeq' = d[Len(d)], lastSeq < d[1], d[Len(d)] <= sent,
         rx' \in 1 .. sent + 1, rx' <= lastSeq' + 1,
         BeforeLag(Len(wire)) => Follows(Len(wire), d[1])
  PROVE  IInv'
<1> DEFINE f == [kind |-> "delta", deltas |-> d]
<1>1. UNCHANGED <<log, revision, sent, cursor, view, pending, since, held, drops>>
  BY DEF runner, client
<1>2. PICK n : n = Len(wire) + 1
  OBVIOUS
<1>3. wire' = Append(wire, f) /\ f.kind = "delta" /\ f.deltas = d
  OBVIOUS
<1>4. /\ log \in Seq(Entry) /\ Len(log) \in Nat /\ sent \in Nat /\ sent <= Len(log)
      /\ wire \in Seq(Frame) /\ lastSeq \in 0 .. sent
  BY LogFacts DEF IInv, TypeInv
<1>5. /\ DOMAIN d = 1 .. Len(d) /\ Len(d) \in Nat \ {0} /\ d[1] \in 1 .. Len(log)
      /\ d[Len(d)] \in 1 .. Len(log) /\ ToSet(d) = d[1] .. d[Len(d)] /\ d[1] <= d[Len(d)]
  <2>1. d[Len(d)] = d[1] + Len(d) - 1 /\ d[1] \in 1 .. Len(log) /\ Len(d) \in Nat \ {0}
    BY <1>4, RunEnds
  <2>2. d[1] <= d[Len(d)]
    BY <1>4, <2>1
  <2> QED BY <1>4, <2>2, RunEnds
<1>6. f \in Frame
  <2>1. d \in Seq(1 .. Len(log))
    BY DEF Run
  <2>2. d \in Seq(Nat)
    <3>1. 1 .. Len(log) \subseteq Nat
      OBVIOUS
    <3> QED BY <2>1, <3>1
  <2> QED BY <2>2 DEF Frame
<1> HIDE DEF f
<1>7. /\ Len(wire) \in Nat /\ DOMAIN wire = 1 .. Len(wire)
      /\ Len(wire') = n /\ DOMAIN wire' = 1 .. n /\ wire'[n] = f
      /\ \A j \in 1 .. Len(wire) : wire'[j] = wire[j]
      /\ \A j \in 0 .. Len(wire) : Deltas(j)' = Deltas(j)
      /\ Deltas(n)' = d /\ (BeforeLag(n)' <=> BeforeLag(Len(wire)))
  BY <1>1, <1>2, <1>3, <1>4, QueueGrew
<1>8. LogInv'
  BY LogKept DEF IInv
<1>9. TypeInv'
  <2>1. wire' \in Seq(Frame)
    BY <1>3, <1>4, <1>6
  <2>2. lastSeq' \in 0 .. sent'
    BY <1>1, <1>4, <1>5
  <2> QED BY <1>1, <2>1, <2>2 DEF IInv, TypeInv
<1>10. PICK m : m = d[Len(d)] + 1
  OBVIOUS
<1>11. Follows(n, m)'
  <2>1. wire'[n].kind = "delta" /\ wire'[n].deltas = d /\ n # 0
    BY <1>2, <1>3, <1>7
  <2> QED BY <1>10, <2>1 DEF Follows
<1>12. NextSent' = m
  <2>1. rx' \in Int /\ lastSeq' \in Int /\ rx' <= lastSeq' + 1 /\ m = lastSeq' + 1
    BY <1>4, <1>5, <1>10
  <2> QED BY <2>1 DEF NextSent
<1>13. HandlerInv'
  <2>1. Follows(Len(wire), NextSent)'
    BY <1>7, <1>11, <1>12
  <2> QED BY <2>1 DEF HandlerInv
<1>14. WireInv'
  <2> SUFFICES ASSUME NEW j \in 1 .. n PROVE FrameInv(j)'
    BY <1>7 DEF WireInv
  <2>1. CASE j \in 1 .. Len(wire)
    BY <1>7, <2>1, FrameSent
  <2>2. CASE j = n
    <3>1. PICK i, a : i = Len(wire) /\ a = d[1]
      OBVIOUS
    <3>2. i \in 0 .. Len(wire) /\ i = j - 1
      BY <1>2, <1>7, <2>2, <3>1
    <3>3. wire'[j] = f /\ Run(d)'
      BY <1>7, <2>2, LogKept
    <3>4. BeforeLag(j)' => Follows(i, a)'
      BY <1>7, <2>2, <3>1, <3>2, FrameSent
    <3>5. BeforeLag(j)' => Follows(j - 1, wire[j].deltas[1])'
      BY <1>3, <3>1, <3>2, <3>3, <3>4
    <3> QED BY <1>3, <3>3, <3>5 DEF FrameInv
  <2> QED BY <1>2, <1>7, <2>1, <2>2
<1>15. OrderInv'
  <2>1. ASSUME NEW j \in 0 .. Len(wire), NEW s \in ToSet(Deltas(j))
        PROVE  s \in Nat /\ s <= lastSeq
    <3>1. pc = "live"
      BY <2>1, NothingQueued
    <3>2. Run(Deltas(j)) \/ Deltas(j) = <<>>
      BY DeltasAreRuns DEF IInv
    <3>3. CASE Run(Deltas(j))
      <4>1. s \in Deltas(j)[1] .. Deltas(j)[Len(Deltas(j))] /\ Deltas(j)[1] \in 1 .. Len(log)
        BY <1>4, <2>1, <3>3, RunEnds
      <4> QED BY <1>4, <2>1, <3>1, <4>1 DEF IInv, OrderInv
    <3>4. CASE Deltas(j) = <<>>
      BY <2>1, <3>4 DEF ToSet
    <3> QED BY <3>2, <3>3, <3>4
  <2>2. ASSUME NEW s \in ToSet(d) PROVE s \in Nat /\ lastSeq < s /\ s <= lastSeq'
    BY <1>4, <1>5, <2>2
  <2>3. ASSUME NEW j \in 0 .. n, NEW s \in ToSet(Deltas(j))' PROVE s <= lastSeq'
    <3>1. CASE j \in 0 .. Len(wire)
      <4>1. s \in Nat /\ s <= lastSeq
        BY <1>7, <2>1, <2>3, <3>1
      <4> QED BY <1>4, <1>5, <4>1
    <3>2. CASE j = n
      BY <1>7, <2>2, <2>3, <3>2
    <3> QED BY <1>2, <1>7, <3>1, <3>2
  <2>4. ASSUME NEW i \in 0 .. n, NEW j \in 0 .. n, i < j,
               NEW s \in ToSet(Deltas(i))', NEW t \in ToSet(Deltas(j))'
        PROVE  s < t
    <3>1. i \in 0 .. Len(wire) /\ s \in ToSet(Deltas(i))
      BY <1>2, <1>7, <2>4
    <3>2. CASE j \in 0 .. Len(wire)
      <4>1. t \in ToSet(Deltas(j))
        BY <1>7, <2>4, <3>2
      <4> QED BY <2>4, <3>1, <3>2, <4>1 DEF IInv, OrderInv
    <3>3. CASE j = n
      <4>1. t \in ToSet(d)
        BY <1>7, <2>4, <3>3
      <4>2. s \in Nat /\ s <= lastSeq /\ t \in Nat /\ lastSeq < t
        BY <2>1, <2>2, <3>1, <4>1
      <4> QED BY <1>4, <4>2
    <3> QED BY <1>2, <1>7, <3>2, <3>3
  <2> QED BY <1>7, <2>3, <2>4 DEF OrderInv
<1>16. PendingInv'
  BY FrameSent
<1> QED BY <1>8, <1>9, <1>13, <1>14, <1>15, <1>16 DEF IInv

LEMMA LagReported == ASSUME IInv, ReportLag PROVE IInv'
<1> DEFINE f == [kind |-> "lagged"]
<1>1. /\ UNCHANGED <<log, revision, sent, cursor, view, pending, since, held, lastSeq, drops>>
      /\ UNCHANGED <<runner, client>> /\ pc = "live" /\ pc' = "live"
      /\ wire' = Append(wire, f) /\ rx' = sent + 1 - ChannelCap /\ Overrun
  BY DEF ReportLag, Send, runner, client
<1>2. PICK n : n = Len(wire) + 1
  OBVIOUS
<1>3. f.kind = "lagged" /\ f \in Frame
  BY DEF Frame
<1> HIDE DEF f
<1>4. /\ Len(wire) \in Nat /\ DOMAIN wire = 1 .. Len(wire) /\ wire \in Seq(Frame)
      /\ Len(wire') = n /\ DOMAIN wire' = 1 .. n /\ wire'[n] = f
      /\ \A j \in 0 .. Len(wire) : Deltas(j)' = Deltas(j)
      /\ Deltas(n)' = <<>> /\ ~ BeforeLag(n)'
  <2>1. wire \in Seq(Frame)
    BY DEF IInv, TypeInv
  <2> QED BY <1>1, <1>2, <1>3, <2>1, QueueGrew
<1>5. LogInv'
  BY <1>1, LogKept DEF IInv
<1>6. TypeInv'
  <2>1. wire' \in Seq(Frame)
    BY <1>1, <1>3, <1>4
  <2>2. rx' \in 1 .. sent' + 1
    <3>1. ChannelCap \in Nat \ {0} /\ rx \in 1 .. sent + 1 /\ sent \in Nat
      BY StreamAssumption DEF IInv, TypeInv, LogInv
    <3> QED BY <1>1, <3>1 DEF Overrun
  <2> QED BY <1>1, <2>1, <2>2 DEF IInv, TypeInv
<1>7. HandlerInv'
  BY <1>1, <1>4 DEF HandlerInv
<1>8. WireInv'
  <2> SUFFICES ASSUME NEW j \in 1 .. n PROVE FrameInv(j)'
    BY <1>4 DEF WireInv
  <2>1. CASE j \in 1 .. Len(wire)
    BY <1>1, <1>4, <2>1, FrameSent
  <2>2. CASE j = n
    BY <1>3, <1>4, <2>2 DEF FrameInv
  <2> QED BY <1>2, <1>4, <2>1, <2>2
<1>9. OrderInv'
  <2>1. \A j \in 0 .. n : \A s \in ToSet(Deltas(j))' : j \in 0 .. Len(wire) /\ s \in ToSet(Deltas(j))
    <3>1. ToSet(<<>>) = {}
      BY DEF ToSet
    <3> QED BY <1>2, <1>4, <3>1
  <2> QED BY <1>1, <1>4, <2>1 DEF IInv, OrderInv
<1>10. PendingInv'
  BY <1>1, FrameSent
<1> QED BY <1>5, <1>6, <1>7, <1>8, <1>9, <1>10 DEF IInv

\* The snapshot is the connection's first frame; it covers the whole of the
\* ring copied before.
LEMMA SnapshotSent == ASSUME IInv, FullSnapshot PROVE IInv'
<1> DEFINE f == [kind |-> "snapshot", rev |-> revision, upTo |-> Len(log)]
<1>1. /\ UNCHANGED <<log, revision, sent, cursor, view, pending, since, held, rx, drops>>
      /\ UNCHANGED <<runner, client>> /\ pc = "full" /\ pc' = "live"
      /\ wire' = Append(wire, f) /\ lastSeq' = Covers(revision)
  BY DEF FullSnapshot, Send, runner, client
<1>2. wire = <<>> /\ pending = <<>> /\ lastSeq = 0 /\ HeldInv
  BY <1>1 DEF IInv, HandlerInv
<1>3. wire' = <<f>> /\ Len(wire') = 1 /\ DOMAIN wire' = {1} /\ wire'[1] = f
  BY <1>1, <1>2
<1>4. /\ log \in Seq(Entry) /\ Len(log) \in Nat /\ revision \in Nat
      /\ sent \in Nat /\ sent <= Len(log)
      /\ \A s \in 1 .. Len(log) : log[s].rev <= revision
      /\ held \subseteq 1 .. sent /\ rx \in 1 .. sent + 1
  BY LogFacts DEF IInv, TypeInv
<1>5. lastSeq' \in 0 .. sent
  <2> DEFINE T == {0} \cup {s \in held : log[s].rev <= revision}
  <2>1. T \subseteq 0 .. sent /\ T # {}
    <3>1. \A s \in held : s \in 0 .. sent
      BY <1>4
    <3>2. 0 \in 0 .. sent
      BY <1>4
    <3> QED BY <3>1, <3>2
  <2>2. lastSeq' = Max(T)
    BY <1>1, <1>2 DEF Covers
  <2> HIDE DEF T
  <2> QED BY <1>4, <2>1, <2>2, MaxOfBounded
<1>6. f \in Frame /\ f.kind = "snapshot" /\ f.rev = revision /\ f.upTo = Len(log)
  BY <1>4 DEF Frame
<1> HIDE DEF f
<1>7. LogInv'
  BY <1>1, LogKept DEF IInv
<1>8. TypeInv'
  <2>1. wire' \in Seq(Frame)
    BY <1>3, <1>6
  <2> QED BY <1>1, <1>5, <2>1 DEF IInv, TypeInv
<1>9. \A n : Before(n, revision)'
  BY <1>1, BeforeRevision, LogKept DEF IInv, Before
<1>10. HandlerInv'
  <2>1. PICK m : m = NextSent'
    OBVIOUS
  <2>2. \A j : j = 1 => Follows(j, m)'
    BY <1>1, <1>3, <1>6, <1>9 DEF Follows, Before
  <2>3. Follows(Len(wire), NextSent)'
    BY <1>3, <2>1, <2>2
  <2> QED BY <1>1, <2>3 DEF HandlerInv
<1>11. WireInv'
  <2>1. FrameInv(1)'
    BY <1>1, <1>2, <1>3, <1>4, <1>6 DEF FrameInv
  <2> QED BY <1>3, <2>1 DEF WireInv
<1>12. OrderInv'
  <2>1. \A j \in 0 .. 1 : Deltas(j)' = <<>>
    BY <1>1, <1>2, <1>3, <1>6 DEF Deltas
  <2>2. \A j \in 0 .. 1 : ToSet(Deltas(j))' = {}
    BY <2>1 DEF ToSet
  <2> QED BY <1>3, <2>2 DEF OrderInv
<1>13. PendingInv'
  BY <1>1, FrameSent
<1> QED BY <1>7, <1>8, <1>10, <1>11, <1>12, <1>13 DEF IInv

LEMMA Subscribed == ASSUME IInv, Subscribe \/ ReadRing PROVE IInv'
<1>1. /\ UNCHANGED <<runner, since, wire, client, drops>>
      /\ UNCHANGED <<cursor, pending, log, sent>>
      /\ wire = <<>> /\ pending = <<>> /\ since = cursor
  BY DEF Subscribe, ReadRing, IInv, HandlerInv, client, runner
<1>2. /\ sent \in Nat /\ ringFrom \in 1 .. sent + 1
      /\ Fresh(ringFrom) \/ sent + 1 - ringFrom = RingCap
      /\ rx \in 1 .. sent + 1 /\ held \subseteq 1 .. sent /\ lastSeq \in 0 .. sent
  BY DEF IInv, LogInv, TypeInv
<1>3. CASE Subscribe
  <2>1. pc' = "subscribed" /\ rx' = sent + 1 /\ lastSeq' = 0 /\ held' = held
    BY <1>3 DEF Subscribe
  <2>2. HandlerInv'
    BY <1>1, <2>1 DEF HandlerInv
  <2> QED BY <1>1, <1>2, <2>1, <2>2, NothingSent
<1>4. CASE ReadRing
  <2>1. pc' = "ring" /\ held' = ringFrom .. sent /\ UNCHANGED <<rx, lastSeq>> /\ lastSeq = 0
    BY <1>4 DEF ReadRing, Ring, IInv, HandlerInv
  <2>2. HeldInv'
    <3>1. CASE ringFrom = sent + 1
      <4>1. held' = {}
        BY <1>2, <2>1, <3>1
      <4> QED BY <4>1 DEF HeldInv
    <3>2. CASE ringFrom # sent + 1
      <4>1. PICK a, b : a = ringFrom /\ b = sent
        OBVIOUS
      <4>2. a \in 1 .. sent /\ b \in 1 .. sent /\ a <= b /\ held' = a .. b /\ rx <= b + 1
        BY <1>2, <2>1, <3>2, <4>1
      <4>3. Fresh(a)' \/ b + 1 - a = RingCap
        BY <1>1, <1>2, <4>1, LogKept
      <4> QED BY <1>1, <2>1, <4>2, <4>3 DEF HeldInv
    <3> QED BY <3>1, <3>2
  <2>3. HandlerInv'
    BY <1>1, <2>1, <2>2 DEF HandlerInv
  <2>4. held' \subseteq 1 .. sent
    BY <1>2, <2>1
  <2> QED BY <1>1, <1>2, <2>1, <2>3, <2>4, NothingSent
<1> QED BY <1>3, <1>4

\* What a handler that decides how to catch up knows of its copy of the ring.
LEMMA HeldFacts ==
  ASSUME IInv, pc = "ring", held # {}
  PROVE  \E a, b \in 1 .. sent :
            /\ held = a .. b /\ a <= b /\ rx <= b + 1 /\ Max(held) = b /\ Min(held) = a
            /\ Max({0} \cup held) = b
            /\ Fresh(a) \/ b + 1 - a = RingCap
<1>1. PICK a \in 1 .. sent, b \in 1 .. sent :
        /\ held = a .. b /\ a <= b /\ rx <= b + 1
        /\ Fresh(a) \/ b + 1 - a = RingCap
  BY DEF IInv, HandlerInv, HeldInv
<1>2. sent \in Nat /\ a \in Int /\ b \in Int
  BY DEF IInv, LogInv
<1>3. Max(held) = b /\ Min(held) = a
  BY <1>1, <1>2, IntervalEnds
<1>4. Max({0} \cup held) = b
  <2>1. {0} \cup held \subseteq Int /\ b \in {0} \cup held /\ \A x \in {0} \cup held : x <= b
    BY <1>1, <1>2
  <2> QED BY <2>1, MaxIs
<1> QED BY <1>1, <1>3, <1>4

LEMMA CaughtUp == ASSUME IInv, DecideAction, Nothing \/ Full PROVE IInv'
<1>1. /\ UNCHANGED <<runner, since, wire, client, drops, rx, held>> /\ pc = "ring"
      /\ UNCHANGED <<cursor, pending, log, sent>>
      /\ wire = <<>> /\ pending = <<>> /\ since = cursor /\ lastSeq = 0
  BY DEF DecideAction, Nothing, Full, IInv, HandlerInv, client, runner
<1>2. /\ log \in Seq(Entry) /\ Len(log) \in Nat /\ DOMAIN log = 1 .. Len(log)
      /\ \A s \in 1 .. Len(log) : log[s].rev \in Nat
      /\ \A s, t \in 1 .. Len(log) : s <= t => log[s].rev <= log[t].rev
      /\ sent \in Nat /\ sent <= Len(log)
      /\ rx \in 1 .. sent + 1 /\ held \subseteq 1 .. sent /\ lastSeq \in 0 .. sent
      /\ cursor \in Nat /\ revision \in Nat
  BY LogFacts DEF IInv, TypeInv
<1>3. CASE Full
  <2>1. pc' = "full" /\ lastSeq' = lastSeq
    BY <1>3 DEF Full
  <2>2. HeldInv'
    BY <1>1, LogKept DEF IInv, HandlerInv, HeldInv
  <2>3. HandlerInv'
    BY <1>1, <2>1, <2>2 DEF HandlerInv
  <2> QED BY <1>1, <1>2, <2>1, <2>3, NothingSent
<1>4. CASE Nothing
  <2>1. /\ pc' = "live" /\ lastSeq' = Max({0} \cup held)
        /\ Decide(log, held, since, revision) = "nothing"
    BY <1>4 DEF Nothing
  <2>2. CASE held = {}
    <3>1. since = 0
      <4>1. ~ (since > revision) => since <= revision
        BY <1>1, <1>2
      <4> QED BY <2>1, <2>2, <4>1 DEF Decide
    <3>2. lastSeq' = 0
      <4>1. {0} \cup held \subseteq Int /\ 0 \in {0} \cup held /\ \A x \in {0} \cup held : x <= 0
        BY <2>2
      <4> QED BY <2>1, <4>1, MaxIs
    <3>3. HandlerInv'
      BY <1>1, <2>1, <3>1 DEF HandlerInv, Follows
    <3> QED BY <1>1, <1>2, <2>1, <3>2, <3>3, NothingSent
  <2>3. CASE held # {}
    <3>1. PICK a \in 1 .. sent, b \in 1 .. sent :
            /\ rx <= b + 1 /\ Max(held) = b /\ Max({0} \cup held) = b
      BY <1>1, <2>3, HeldFacts
    <3>2. since >= log[b].rev
      BY <2>1, <2>3, <3>1 DEF Decide, RingLast
    <3>3. PICK m : m = b + 1
      OBVIOUS
    <3>4. Before(m, since)
      <4> SUFFICES ASSUME NEW s \in 1 .. Len(log), s < m PROVE log[s].rev <= since
        BY <1>2 DEF Before
      <4>1. s <= b /\ b \in 1 .. Len(log)
        BY <1>2, <3>3
      <4>2. log[s].rev <= log[b].rev /\ log[s].rev \in Nat /\ log[b].rev \in Nat
        BY <1>2, <4>1
      <4> QED BY <1>1, <1>2, <3>2, <4>2
    <3>5. NextSent' = m
      BY <1>1, <1>2, <2>1, <3>1, <3>3 DEF NextSent
    <3>6. Before(m, cursor)'
      BY <1>1, <3>4, LogKept DEF Before
    <3>7. Follows(Len(wire), NextSent)'
      <4>1. Follows(0, m)'
        BY <1>1, <3>6 DEF Follows, Before
      <4>2. Len(wire') = 0
        BY <1>1
      <4> QED BY <3>5, <4>1, <4>2
    <3>8. HandlerInv'
      BY <2>1, <3>7 DEF HandlerInv
    <3>9. lastSeq' \in 0 .. sent
      BY <1>2, <2>1, <3>1
    <3> QED BY <1>1, <1>2, <2>1, <3>8, <3>9, NothingSent
  <2> QED BY <2>2, <2>3
<1> QED BY <1>3, <1>4

\* A ring that begins inside a mutation is full, and a replay is less than
\* half of a full ring: then the ring's first entry is not part of it.
LEMMA Replayed == ASSUME IInv, DecideAction, Replay PROVE IInv'
<1> DEFINE N == Newer(log, held, since)
<1>1. /\ UNCHANGED <<runner, since, client, drops, rx, held>> /\ pc = "ring" /\ pc' = "live"
      /\ wire' = Append(wire, [kind |-> "delta", deltas |-> InOrder(N)])
      /\ lastSeq' = Max(N) /\ Decide(log, held, since, revision) = "replay"
      /\ wire = <<>> /\ pending = <<>> /\ since = cursor /\ lastSeq = 0
  BY DEF DecideAction, Replay, Send, IInv, HandlerInv
<1>2. /\ log \in Seq(Entry) /\ Len(log) \in Nat /\ DOMAIN log = 1 .. Len(log)
      /\ \A s \in 1 .. Len(log) : log[s].rev \in Nat
      /\ \A s, t \in 1 .. Len(log) : s <= t => log[s].rev <= log[t].rev
      /\ sent \in Nat /\ sent <= Len(log)
      /\ rx \in 1 .. sent + 1 /\ held \subseteq 1 .. sent
      /\ since \in Nat /\ revision \in Nat
  BY LogFacts DEF IInv, TypeInv
<1>3. held # {} /\ since <= revision
  <2>1. ~ (since > revision) => since <= revision
    BY <1>2
  <2> QED BY <1>1, <2>1 DEF Decide
<1>4. PICK a \in 1 .. sent, b \in 1 .. sent :
        /\ held = a .. b /\ a <= b /\ rx <= b + 1 /\ Max(held) = b /\ Min(held) = a
        /\ Fresh(a) \/ b + 1 - a = RingCap
  BY <1>1, <1>3, HeldFacts
<1>5. a \in 1 .. Len(log) /\ b \in 1 .. Len(log) /\ a \in Nat /\ b \in Nat
  BY <1>2
<1>6. since < log[b].rev /\ since + 1 >= log[a].rev /\ Cardinality(N) <= ReplayMax
  <2>1. /\ ~ (since >= log[b].rev)
        /\ since + 1 >= log[a].rev /\ Cardinality(N) <= ReplayMax
    BY <1>1, <1>2, <1>3, <1>4 DEF Decide, RingLast, RingFirst
  <2> QED BY <1>2, <1>5, <2>1
<1>7. PICK lo \in a .. b : N = lo .. b
  <2>1. N = {s \in a .. b : log[s].rev > since}
    BY <1>4 DEF Newer
  <2>2. N \subseteq Nat /\ b \in N
    BY <1>2, <1>4, <1>5, <1>6, <2>1
  <2>3. PICK lo \in N : \A s \in N : lo <= s
    <3> HIDE DEF N
    <3> QED BY <2>2, LeastNatural
  <2>4. ASSUME NEW s \in lo .. b PROVE s \in N
    <3>1. /\ s \in a .. b /\ s \in 1 .. Len(log) /\ lo \in 1 .. Len(log) /\ lo <= s
          /\ log[lo].rev > since
      BY <1>2, <1>5, <2>1, <2>3
    <3>2. log[lo].rev <= log[s].rev /\ log[lo].rev \in Nat /\ log[s].rev \in Nat
      BY <1>2, <3>1
    <3>3. log[s].rev > since
      BY <1>2, <3>1, <3>2
    <3> QED BY <2>1, <3>1, <3>3
  <2>5. N \subseteq lo .. b /\ lo \in a .. b
    BY <1>5, <2>1, <2>3
  <2> QED BY <2>4, <2>5
<1>8. lo \in 1 .. Len(log) /\ lo \in Nat /\ a <= lo /\ lo <= b /\ log[lo].rev \in Nat
  BY <1>2, <1>5
<1>9. Before(lo, since)
  <2> SUFFICES ASSUME NEW s \in 1 .. Len(log), s < lo PROVE log[s].rev <= since
    BY <1>2 DEF Before
  <2>1. log[s].rev \in Nat /\ log[a].rev \in Nat
    BY <1>2, <1>5
  <2>2. CASE a <= s
    <3>1. s \in a .. b /\ s \notin lo .. b
      BY <1>5, <1>8, <2>2
    <3>2. ~ (log[s].rev > since)
      BY <1>4, <1>7, <3>1 DEF Newer
    <3> QED BY <1>2, <2>1, <3>2
  <2>3. CASE s < a /\ Fresh(a)
    <3>1. log[s].rev < log[a].rev
      BY <1>2, <1>5, <2>3 DEF Fresh
    <3> QED BY <1>2, <1>6, <2>1, <3>1
  <2>4. CASE s < a /\ b + 1 - a = RingCap
    <3>1. Cardinality(lo .. b) = b - lo + 1
      BY <1>5, <1>8, FS_Interval
    <3>2. b - lo + 1 <= ReplayMax
      BY <1>6, <1>7, <3>1
    <3>3. a \notin lo .. b
      BY <1>5, <1>8, <2>4, <3>2, StreamAssumption
    <3>4. ~ (log[a].rev > since)
      BY <1>4, <1>5, <1>7, <3>3 DEF Newer
    <3>5. log[s].rev <= log[a].rev
      BY <1>2, <1>5, <2>4
    <3> QED BY <1>2, <2>1, <3>4, <3>5
  <2> QED BY <1>4, <1>5, <2>2, <2>3, <2>4
<1> HIDE DEF N
<1>10. PICK d : d = InOrder(N)
  OBVIOUS
<1>11. Run(d) /\ d[1] = lo /\ d[Len(d)] = b
  BY <1>2, <1>5, <1>7, <1>8, <1>10, IntervalRun
<1>12. lastSeq' = b
  BY <1>1, <1>5, <1>7, <1>8, IntervalEnds
<1>13. Follows(Len(wire), d[1])
  <2>1. Len(wire) = 0
    BY <1>1
  <2> QED BY <1>1, <1>9, <1>11, <2>1 DEF Follows
<1>14. rx' \in 1 .. sent + 1 /\ rx' <= lastSeq' + 1 /\ lastSeq < d[1] /\ d[Len(d)] <= sent
  BY <1>1, <1>2, <1>4, <1>5, <1>8, <1>11, <1>12
<1> QED BY <1>1, <1>10, <1>11, <1>12, <1>13, <1>14, SendDelta

LEMMA Forwarded == ASSUME IInv, Forward PROVE IInv'
<1>1. /\ UNCHANGED <<pc, since, held, runner, client, drops>> /\ pc = "live"
      /\ UNCHANGED <<cursor, pending, log, sent>>
      /\ rx <= sent /\ rx' = rx + 1
  BY DEF Forward, client, runner
<1>2. /\ log \in Seq(Entry) /\ Len(log) \in Nat /\ sent \in Nat /\ sent <= Len(log)
      /\ rx \in 1 .. sent + 1 /\ lastSeq \in 0 .. sent /\ held \subseteq 1 .. sent
  BY LogFacts DEF IInv, TypeInv
<1>3. CASE rx <= lastSeq
  <2>1. UNCHANGED <<lastSeq, wire>>
    <3>1. ~ (rx > lastSeq)
      BY <1>2, <1>3
    <3> QED BY <3>1 DEF Forward
  <2>2. PICK m : m = NextSent
    OBVIOUS
  <2>3. NextSent' = m
    BY <1>1, <1>2, <1>3, <2>1, <2>2 DEF NextSent
  <2>4. BeforeLag(Len(wire))' => Follows(Len(wire), NextSent)'
    <3>1. BeforeLag(Len(wire)) => Follows(Len(wire), m)
      BY <1>1, <2>2 DEF IInv, HandlerInv
    <3>2. PICK j : j = Len(wire)
      OBVIOUS
    <3>3. Follows(j, m)' <=> Follows(j, m)
      BY <1>1, <2>1, LogKept DEF Follows, Before
    <3>4. BeforeLag(j)' <=> BeforeLag(j)
      BY <2>1 DEF BeforeLag
    <3> QED BY <2>1, <2>3, <3>1, <3>2, <3>3, <3>4
  <2>5. HandlerInv'
    BY <1>1, <2>4 DEF HandlerInv
  <2>6. rx' \in 1 .. sent + 1
    BY <1>1, <1>2
  <2> QED BY <1>1, <1>2, <2>1, <2>5, <2>6, NothingSent
<1>4. CASE ~ (rx <= lastSeq)
  <2>1. lastSeq' = rx /\ wire' = Append(wire, [kind |-> "delta", deltas |-> <<rx>>])
    BY <1>4 DEF Forward, Send
  <2>2. PICK d : d = <<rx>>
    OBVIOUS
  <2>3. rx \in 1 .. Len(log) /\ lastSeq < rx
    BY <1>1, <1>2, <1>4
  <2>4. Run(d) /\ d[1] = rx /\ d[Len(d)] = rx
    <3>1. d \in Seq(1 .. Len(log)) /\ Len(d) = 1 /\ d[1] = rx /\ DOMAIN d = {1} /\ d # <<>>
      BY <2>2, <2>3
    <3> QED BY <2>3, <3>1 DEF Run
  <2>5. NextSent = rx
    BY <1>4 DEF NextSent
  <2>6. BeforeLag(Len(wire)) => Follows(Len(wire), d[1])
    BY <1>1, <2>4, <2>5 DEF IInv, HandlerInv
  <2>7. rx' \in 1 .. sent + 1 /\ rx' <= lastSeq' + 1
    BY <1>1, <1>2, <2>1
  <2>8. wire' = Append(wire, [kind |-> "delta", deltas |-> d]) /\ lastSeq' = d[Len(d)]
        /\ lastSeq < d[1] /\ d[Len(d)] <= sent /\ pc' = "live"
    BY <1>1, <2>1, <2>2, <2>3, <2>4
  <2> QED BY <1>1, <2>4, <2>6, <2>7, <2>8, SendDelta
<1> QED BY <1>3, <1>4

LEMMA HandlerStep == ASSUME IInv, Handle PROVE IInv'
BY Subscribed, CaughtUp, Replayed, SnapshotSent, LagReported, Forwarded
   DEF Handle, DecideAction

-----------------------------------------------------------------------------
(* The client. *)

\* While nothing is queued only the handler is at stake.
LEMMA EmptyQueue ==
  ASSUME IInv, UNCHANGED runner, wire' = <<>>, pending' = <<>>, TypeInv', HandlerInv'
  PROVE  IInv'
<1>1. LogInv'
  BY LogKept DEF IInv
<1>2. Len(wire') = 0 /\ DOMAIN wire' = {}
  OBVIOUS
<1>3. PendingInv' /\ WireInv'
  BY <1>2 DEF PendingInv, WireInv
<1>4. OrderInv'
  <2>1. \A j \in 0 .. 0 : ToSet(Deltas(j))' = {}
    BY DEF Deltas, ToSet
  <2> QED BY <1>2, <2>1 DEF OrderInv
<1> QED BY <1>1, <1>3, <1>4 DEF IInv

LEMMA AppliedType ==
  ASSUME NEW n \in Nat, view \in [Items -> 0 .. n], NEW q \in Seq(1 .. n)
  PROVE  Applied(q) \in [Items -> 0 .. n]
<1>1. ASSUME NEW i \in Items PROVE Applied(q)[i] \in 0 .. n
  <2> DEFINE hits == {j \in DOMAIN q : log[q[j]].item = i}
  <2>1. CASE hits = {}
    BY <2>1 DEF Applied
  <2>2. CASE hits # {}
    <3>1. hits \subseteq 0 .. Len(q) /\ Len(q) \in Nat
      OBVIOUS
    <3>2. Max(hits) \in hits
      <4> HIDE DEF hits
      <4> QED BY <2>2, <3>1, MaxOfBounded
    <3>3. Applied(q)[i] = q[Max(hits)]
      BY <2>2 DEF Applied
    <3> QED BY <3>2, <3>3
  <2> QED BY <2>1, <2>2
<1>2. Applied(q) = [i \in Items |-> Applied(q)[i]]
  BY DEF Applied
<1> QED BY <1>1, <1>2

\* What a committed batch leaves: the cursor is at its last entry, if not
\* past it, and whatever followed the batch follows the cursor.
LEMMA Committed ==
  ASSUME IInv, FlushPending
  PROVE  /\ view' \in [Items -> 0 .. Len(log)] /\ cursor' \in Nat /\ cursor <= cursor'
         /\ \A n : Follows(0, n) /\ cursor' > 0 => Before(n, cursor')
         /\ pending # <<>> /\ cursor' > cursor => cursor' = log[pending[Len(pending)]].rev
<1>1. /\ log \in Seq(Entry) /\ Len(log) \in Nat /\ DOMAIN log = 1 .. Len(log)
      /\ view \in [Items -> 0 .. Len(log)] /\ cursor \in Nat
      /\ \A s \in 1 .. Len(log) : log[s].rev \in Nat
      /\ \A s, t \in 1 .. Len(log) : s <= t => log[s].rev <= log[t].rev
  BY LogFacts DEF IInv, TypeInv
<1> DEFINE R == {log[s].rev : s \in ToSet(pending)}
<1>2. view' = Applied(pending) /\ cursor' = Max({cursor} \cup R)
  BY DEF FlushPending
<1>3. view' \in [Items -> 0 .. Len(log)]
  <2>1. pending \in Seq(1 .. Len(log))
    <3>1. CASE pending # <<>>
      BY <3>1 DEF IInv, PendingInv, Run
    <3>2. CASE pending = <<>>
      BY <3>2
    <3> QED BY <3>1, <3>2
  <2> QED BY <1>1, <1>2, <2>1, AppliedType
<1>4. CASE pending = <<>>
  <2>1. {cursor} \cup R = {cursor}
    BY <1>4 DEF ToSet
  <2>2. {cursor} \subseteq Int /\ cursor \in {cursor} /\ \A x \in {cursor} : x <= cursor
    BY <1>1
  <2>3. cursor' = cursor
    BY <1>2, <2>1, <2>2, MaxIs
  <2>4. \A n : Follows(0, n) => (cursor > 0 => Before(n, cursor))
    BY <1>4 DEF Follows
  <2>5. PICK c : c = cursor
    OBVIOUS
  <2> QED BY <1>1, <1>3, <1>4, <2>3, <2>4
<1>5. CASE pending # <<>>
  <2>1. Run(pending)
    BY <1>5 DEF IInv, PendingInv
  <2>2. PICK m : m = pending[Len(pending)]
    OBVIOUS
  <2>3. /\ m \in 1 .. Len(log) /\ m \in ToSet(pending)
        /\ \A s \in ToSet(pending) : s \in 1 .. Len(log) /\ s <= m
    <3>1. /\ Len(pending) \in Nat \ {0} /\ m = pending[1] + Len(pending) - 1
          /\ pending[1] \in 1 .. Len(log) /\ m \in 1 .. Len(log)
          /\ ToSet(pending) = pending[1] .. m
      BY <1>1, <2>1, <2>2, RunEnds
    <3> QED BY <1>1, <3>1
  <2>4. R \subseteq Int /\ log[m].rev \in R /\ \A x \in R : x <= log[m].rev
    BY <1>1, <2>3
  <2>5. {cursor} \cup R \subseteq Int
    BY <1>1, <2>4
  <2> HIDE DEF R
  <2>6. cursor' = IF cursor <= log[m].rev THEN log[m].rev ELSE cursor
    <3>1. CASE cursor <= log[m].rev
      BY <1>2, <2>4, <2>5, <3>1, MaxIs
    <3>2. CASE ~ (cursor <= log[m].rev)
      <4>1. \A x \in {cursor} \cup R : x <= cursor
        <5> SUFFICES ASSUME NEW x \in R PROVE x <= cursor
          BY <1>1
        <5>1. x \in Int /\ x <= log[m].rev /\ log[m].rev \in Int
          BY <2>4
        <5> QED BY <1>1, <3>2, <5>1
      <4> QED BY <1>2, <2>5, <3>2, <4>1, MaxIs
    <3> QED BY <3>1, <3>2
  <2>7. cursor' \in Nat /\ cursor <= cursor' /\ log[m].rev <= cursor' /\ log[m].rev \in Nat
    BY <1>1, <2>3, <2>6
  <2>8. PICK c : c = cursor'
    OBVIOUS
  <2>9. Before(m + 1, c)
    <3> SUFFICES ASSUME NEW s \in 1 .. Len(log), s < m + 1 PROVE log[s].rev <= c
      BY <1>1 DEF Before
    <3>1. s <= m /\ log[s].rev \in Nat
      BY <1>1, <2>3
    <3>2. log[s].rev <= log[m].rev
      BY <1>1, <2>3, <3>1
    <3> QED BY <2>7, <2>8, <3>1, <3>2
  <2>10. \A n : Follows(0, n) => n = m + 1
    BY <1>5, <2>2 DEF Follows
  <2>11. \A n : Follows(0, n) /\ cursor' > 0 => Before(n, cursor')
    <3>1. \A n : Follows(0, n) => Before(n, c)
      BY <2>9, <2>10
    <3> QED BY <2>8, <3>1
  <2>12. cursor' > cursor => cursor' = log[m].rev
    BY <1>1, <2>6
  <2> QED BY <1>3, <2>2, <2>7, <2>11, <2>12
<1> QED BY <1>4, <1>5

LEMMA Flushed == ASSUME IInv, Flush PROVE IInv'
<1>1. /\ pending # <<>> /\ FlushPending /\ pending' = <<>>
      /\ UNCHANGED <<runner, handler, pc, since, wire, drops>>
      /\ UNCHANGED <<log, sent, rx, held, lastSeq>>
  BY DEF Flush, Flushes, FlushPending, socket, runner, handler
<1>2. pc = "live" /\ wire \in Seq(Frame) /\ Len(wire) \in Nat /\ DOMAIN wire = 1 .. Len(wire)
  BY <1>1 DEF IInv, HandlerInv, TypeInv
<1>3. /\ view' \in [Items -> 0 .. Len(log)] /\ cursor' \in Nat
      /\ \A n : Follows(0, n) /\ cursor' > 0 => Before(n, cursor')
  BY <1>1, Committed
<1>4. TypeInv'
  BY <1>1, <1>3 DEF IInv, TypeInv
<1>5. \A j \in 0 .. Len(wire) : \A n : Follows(j, n) => Follows(j, n)'
  <2>1. \A n : Follows(0, n) => Follows(0, n)'
    BY <1>1, <1>3, LogKept DEF Follows, Before
  <2>2. \A j \in 1 .. Len(wire) : \A n : Follows(j, n) => Follows(j, n)'
    BY <1>1, LogKept DEF Follows, Before
  <2> QED BY <1>2, <2>1, <2>2
<1>6. \A j : BeforeLag(j)' <=> BeforeLag(j)
  BY <1>1 DEF BeforeLag
<1>7. WireInv'
  <2> SUFFICES ASSUME NEW j \in DOMAIN wire PROVE FrameInv(j)'
    BY <1>1 DEF WireInv
  <2>1. FrameInv(j)
    BY DEF IInv, WireInv
  <2>2. PICK i, n : i = j - 1 /\ n = wire[j].deltas[1]
    OBVIOUS
  <2>3. i \in 0 .. Len(wire)
    BY <1>2, <2>2
  <2>4. Follows(i, n) => Follows(i, n)'
    BY <1>5, <2>3
  <2>5. Follows(j - 1, wire[j].deltas[1]) => Follows(j - 1, wire[j].deltas[1])'
    BY <1>1, <2>2, <2>4
  <2> QED BY <1>1, <1>6, <2>1, <2>5, LogKept DEF FrameInv, Run
<1>8. HandlerInv'
  <2>1. PICK j, n : j = Len(wire) /\ n = NextSent
    OBVIOUS
  <2>2. BeforeLag(j) => Follows(j, n)
    BY <1>2, <2>1 DEF IInv, HandlerInv
  <2>3. BeforeLag(j)' => Follows(j, n)'
    BY <1>2, <1>5, <1>6, <2>1, <2>2
  <2>4. n = NextSent' /\ j = Len(wire')
    BY <1>1, <2>1 DEF NextSent
  <2> QED BY <1>1, <1>2, <2>3, <2>4 DEF HandlerInv
<1>9. OrderInv'
  <2>1. \A j \in 0 .. Len(wire) : \A s \in ToSet(Deltas(j))' : s \in ToSet(Deltas(j))
    BY <1>1 DEF Deltas, ToSet
  <2> QED BY <1>1, <1>2, <2>1 DEF IInv, OrderInv
<1>10. LogInv' /\ PendingInv'
  BY <1>1, LogKept DEF IInv, PendingInv
<1> QED BY <1>4, <1>7, <1>8, <1>9, <1>10 DEF IInv

LEMMA QueueEmptied ==
  ASSUME IInv, FetchSnapshot \/ Open \/ (Receive /\ ReceiveLagged) \/ Disconnect
  PROVE  IInv'
<1>1. /\ log \in Seq(Entry) /\ Len(log) \in Nat /\ revision \in Nat /\ sent \in Nat
  BY LogFacts DEF IInv
<1>2. CASE FetchSnapshot
  <2>1. /\ pc = "boot" /\ pc' = "closed" /\ cursor' = revision
        /\ view' = Content(log, Len(log))
        /\ UNCHANGED <<runner, handler, since, wire, pending, drops>>
        /\ UNCHANGED <<log, sent, rx, held, lastSeq>>
    BY <1>2 DEF FetchSnapshot, Fetched, runner, handler
  <2>2. wire' = <<>> /\ pending' = <<>>
    BY <2>1 DEF IInv, HandlerInv
  <2>3. view' \in [Items -> 0 .. Len(log)]
    BY <1>1, <2>1, ContentType
  <2>4. TypeInv'
    BY <1>1, <2>1, <2>3 DEF IInv, TypeInv
  <2>5. HandlerInv'
    BY <2>1, <2>2 DEF HandlerInv
  <2> QED BY <2>1, <2>2, <2>4, <2>5, EmptyQueue
<1>3. CASE Open
  <2>1. /\ pc = "closed" /\ pc' = "accepted" /\ since' = cursor /\ wire' = <<>>
        /\ UNCHANGED <<runner, handler, cursor, view, pending, drops>> /\ pending = <<>>
        /\ UNCHANGED <<log, sent, rx, held, lastSeq>>
    BY <1>3 DEF Open, Opens, client, runner, handler, IInv, HandlerInv
  <2>2. TypeInv'
    BY <1>1, <2>1 DEF IInv, TypeInv
  <2>3. HandlerInv'
    BY <2>1 DEF HandlerInv
  <2> QED BY <2>1, <2>2, <2>3, EmptyQueue
<1>4. CASE Receive /\ ReceiveLagged
  <2>1. /\ wire' = <<>> /\ pending' = <<>> /\ pc' = "closed" /\ cursor' = 0
        /\ UNCHANGED <<runner, handler, since, drops, view>>
        /\ UNCHANGED <<log, sent, rx, held, lastSeq>>
    BY <1>4 DEF Receive, Receives, ReceiveLagged, Hangup, runner, handler
  <2>2. TypeInv'
    BY <1>1, <2>1 DEF IInv, TypeInv
  <2>3. HandlerInv'
    BY <2>1 DEF HandlerInv
  <2> QED BY <2>1, <2>2, <2>3, EmptyQueue
<1>5. CASE Disconnect
  <2>1. /\ FlushPending /\ pending' = <<>> /\ wire' = <<>> /\ pc' = "closed"
        /\ UNCHANGED <<runner, handler, since>> /\ drops' = drops + 1
        /\ UNCHANGED <<log, sent, rx, held, lastSeq>>
    BY <1>5 DEF Disconnect, Disconnects, FlushPending, Hangup, runner, handler
  <2>2. view' \in [Items -> 0 .. Len(log)] /\ cursor' \in Nat
    BY <2>1, Committed
  <2>3. TypeInv'
    BY <1>1, <2>1, <2>2 DEF IInv, TypeInv
  <2>4. HandlerInv'
    BY <2>1 DEF HandlerInv
  <2> QED BY <2>1, <2>3, <2>4, EmptyQueue
<1> QED BY <1>2, <1>3, <1>4, <1>5

\* The first frame is taken off the queue: what may follow it may now follow
\* the batch.
LEMMA QueueShifted ==
  ASSUME IInv, wire # <<>>, wire' = Tail(wire), wire[1].kind # "lagged",
         UNCHANGED <<runner, handler, pc, since, drops>>, TypeInv', PendingInv',
         \A n : Follows(1, n) => Follows(0, n)',
         ToSet(Deltas(0))' \subseteq ToSet(Deltas(0)) \cup ToSet(Deltas(1))
  PROVE  IInv'
<1>1. UNCHANGED <<log, sent, rx, held, lastSeq>>
  BY DEF runner, handler
<1>2. PICK n : n = Len(wire) - 1
  OBVIOUS
<1>3. /\ Len(wire) = n + 1 /\ n \in Nat /\ DOMAIN wire = 1 .. (n + 1)
      /\ Len(wire') = n /\ DOMAIN wire' = 1 .. n
      /\ \A j \in 1 .. n : wire'[j] = wire[j + 1]
      /\ \A j \in 1 .. n : Deltas(j)' = Deltas(j + 1)
      /\ \A j \in 0 .. n : BeforeLag(j)' <=> BeforeLag(j + 1)
  <2>1. wire \in Seq(Frame)
    BY DEF IInv, TypeInv
  <2> QED BY <1>2, <2>1, QueueShrank
<1>4. \A j \in 0 .. n : \A m : Follows(j + 1, m) => Follows(j, m)'
  <2>1. \A j \in 1 .. n : \A m : Follows(j + 1, m) => Follows(j, m)'
    <3> SUFFICES ASSUME NEW j \in 1 .. n, NEW m, Follows(j + 1, m) PROVE Follows(j, m)'
      OBVIOUS
    <3>1. wire'[j] = wire[j + 1] /\ j # 0 /\ j + 1 # 0
      BY <1>3
    <3> QED BY <1>1, <3>1 DEF Follows, Before
  <2>2. 0 + 1 = 1
    OBVIOUS
  <2> QED BY <1>3, <2>1, <2>2
<1>5. LogInv'
  BY LogKept DEF IInv
<1>6. pc = "live" /\ pc' = "live"
  BY DEF IInv, HandlerInv
<1>7. WireInv'
  <2> SUFFICES ASSUME NEW j \in 1 .. n PROVE FrameInv(j)'
    BY <1>3 DEF WireInv
  <2>1. wire'[j] = wire[j + 1] /\ j + 1 \in DOMAIN wire /\ j + 1 # 1
    BY <1>3
  <2>2. FrameInv(j + 1)
    BY <2>1 DEF IInv, WireInv
  <2>3. wire[j + 1].kind # "snapshot"
    BY <2>1, <2>2 DEF FrameInv
  <2>4. CASE wire[j + 1].kind = "delta"
    <3>1. PICK i, m : i = j - 1 /\ m = wire[j + 1].deltas[1]
      OBVIOUS
    <3>2. i \in 0 .. n /\ i + 1 = j /\ (j + 1) - 1 = i + 1 /\ j \in 0 .. n
      BY <1>3, <3>1
    <3>3. Run(wire[j + 1].deltas) /\ (BeforeLag(j + 1) => Follows(i + 1, m))
      BY <2>2, <2>4, <3>1, <3>2 DEF FrameInv
    <3>4. BeforeLag(j)' => Follows(i, m)'
      BY <1>3, <1>4, <3>2, <3>3
    <3>5. BeforeLag(j)' => Follows(j - 1, wire[j].deltas[1])'
      BY <2>1, <3>1, <3>4
    <3> QED BY <2>1, <2>4, <3>3, <3>5, LogKept DEF FrameInv
  <2>5. CASE wire[j + 1].kind # "delta"
    BY <2>1, <2>3, <2>5 DEF FrameInv
  <2> QED BY <2>4, <2>5
<1>8. HandlerInv'
  <2>1. PICK m : m = NextSent
    OBVIOUS
  <2>2. NextSent' = m
    BY <1>1, <2>1 DEF NextSent
  <2>3. BeforeLag(n + 1) => Follows(n + 1, m)
    BY <1>3, <1>6, <2>1 DEF IInv, HandlerInv
  <2>4. BeforeLag(n)' => Follows(n, m)'
    BY <1>3, <1>4, <2>3
  <2>5. BeforeLag(Len(wire))' => Follows(Len(wire), NextSent)'
    BY <1>3, <2>2, <2>4
  <2> QED BY <1>6, <2>5 DEF HandlerInv
<1>9. OrderInv'
  <2>1. ASSUME NEW j \in 0 .. n, NEW s \in ToSet(Deltas(j))'
        PROVE  \E i \in {j, j + 1} :
                 (i = 0 \/ i \in 1 .. (n + 1)) /\ s \in ToSet(Deltas(i)) /\ (j > 0 => i = j + 1)
    <3>1. CASE j = 0
      BY <1>3, <2>1, <3>1
    <3>2. CASE j # 0
      BY <1>3, <2>1, <3>2
    <3> QED BY <3>1, <3>2
  <2>2. \A j \in 0 .. n : \A s \in ToSet(Deltas(j))' : s <= lastSeq
    BY <1>3, <1>6, <2>1 DEF IInv, OrderInv
  <2>3. ASSUME NEW i \in 0 .. n, NEW j \in 0 .. n, i < j,
               NEW s \in ToSet(Deltas(i))', NEW t \in ToSet(Deltas(j))'
        PROVE  s < t
    <3>1. PICK a \in {i, i + 1} : a \in 0 .. (n + 1) /\ s \in ToSet(Deltas(a))
      BY <1>3, <2>1
    <3>2. j + 1 \in 0 .. (n + 1) /\ t \in ToSet(Deltas(j + 1)) /\ a < j + 1
      BY <1>3, <2>1, <2>3, <3>1
    <3> QED BY <1>3, <3>1, <3>2 DEF IInv, OrderInv
  <2> QED BY <1>1, <1>3, <2>2, <2>3 DEF OrderInv
<1> QED BY <1>5, <1>7, <1>8, <1>9 DEF IInv

LEMMA SnapshotReceived == ASSUME IInv, Receive, ReceiveSnapshot PROVE IInv'
<1>1. /\ wire # <<>> /\ wire' = Tail(wire) /\ UNCHANGED <<runner, handler, pc, since, drops>>
      /\ Head(wire).kind = "snapshot" /\ pending' = <<>>
      /\ cursor' = Head(wire).rev /\ view' = Content(log, Head(wire).upTo)
      /\ UNCHANGED <<log, sent, rx, held, lastSeq>>
  BY DEF Receive, Receives, ReceiveSnapshot, runner, handler
<1>2. /\ Head(wire) = wire[1] /\ wire[1] \in Frame /\ wire' \in Seq(Frame)
      /\ 1 \in DOMAIN wire
  BY <1>1, QueueShrank DEF IInv, TypeInv
<1>3. FrameInv(1)
  BY <1>2 DEF IInv, WireInv
<1>4. /\ wire[1].kind = "snapshot" /\ pending = <<>> /\ wire[1].upTo <= Len(log)
      /\ wire[1].rev \in Nat /\ wire[1].upTo \in Nat /\ Len(log) \in Nat
  BY <1>1, <1>2, <1>3 DEF FrameInv, Frame, IInv, LogInv
<1>5. view' \in [Items -> 0 .. Len(log)]
  <2>1. view' \in [Items -> 0 .. wire[1].upTo]
    BY <1>1, <1>2, <1>4, ContentType
  <2> QED BY <1>4, <2>1
<1>6. TypeInv'
  BY <1>1, <1>2, <1>4, <1>5 DEF IInv, TypeInv
<1>7. \A n : Follows(1, n) => Follows(0, n)'
  BY <1>1, <1>2, <1>4 DEF Follows, Before
<1>8. ToSet(Deltas(0))' = {} /\ PendingInv'
  BY <1>1 DEF Deltas, ToSet, PendingInv
<1> QED BY <1>1, <1>4, <1>6, <1>7, <1>8, QueueShifted

LEMMA DeltaReceived == ASSUME IInv, Receive, ReceiveDelta PROVE IInv'
<1>1. /\ wire # <<>> /\ wire' = Tail(wire)
      /\ UNCHANGED <<runner, handler, pc, since, drops, cursor, view>>
      /\ Head(wire).kind = "delta" /\ pending' = pending \o Head(wire).deltas
      /\ UNCHANGED <<log, sent, rx, held, lastSeq>>
  BY DEF Receive, Receives, ReceiveDelta, runner, handler
<1>2. /\ Head(wire) = wire[1] /\ wire[1] \in Frame /\ wire' \in Seq(Frame)
      /\ 1 \in DOMAIN wire /\ DOMAIN wire = 1 .. Len(wire)
  BY <1>1, QueueShrank DEF IInv, TypeInv
<1>3. FrameInv(1) /\ BeforeLag(1)
  BY <1>1, <1>2 DEF IInv, WireInv, BeforeLag
<1>4. PICK d : d = wire[1].deltas
  OBVIOUS
<1>5. /\ Run(d) /\ Follows(0, d[1]) /\ Deltas(1) = d /\ Deltas(0) = pending
      /\ pending' = pending \o d
  <2>1. 1 - 1 = 0
    OBVIOUS
  <2> QED BY <1>1, <1>2, <1>3, <1>4, <2>1 DEF FrameInv, Deltas
<1>6. log \in Seq(Entry) /\ Len(log) \in Nat
  BY DEF IInv, LogInv
<1>7. d \in Seq(1 .. Len(log)) /\ d # <<>>
  BY <1>5 DEF Run
<1>8. /\ Run(pending') /\ pending' # <<>> /\ pending'[Len(pending')] = d[Len(d)]
      /\ cursor > 0 => Before(pending'[1], cursor)
      /\ ToSet(pending') \subseteq ToSet(pending) \cup ToSet(d)
  <2>1. CASE pending = <<>>
    <3>1. pending' = d
      BY <1>5, <1>7, <2>1
    <3> QED BY <1>5, <1>7, <2>1, <3>1 DEF Follows
  <2>2. CASE pending # <<>>
    <3>1. Run(pending) /\ (cursor > 0 => Before(pending[1], cursor))
      BY <2>2 DEF IInv, PendingInv
    <3>2. d[1] = pending[Len(pending)] + 1
      BY <1>5, <2>2 DEF Follows
    <3>3. /\ Run(pending \o d) /\ (pending \o d)[1] = pending[1]
          /\ (pending \o d)[Len(pending \o d)] = d[Len(d)]
      BY <1>5, <1>6, <3>1, <3>2, RunsJoin
    <3>4. pending \in Seq(1 .. Len(log))
      BY <3>1 DEF Run
    <3>5. ToSet(pending \o d) \subseteq ToSet(pending) \cup ToSet(d)
      BY <1>7, <3>4 DEF ToSet
    <3>6. pending \o d # <<>> /\ (Run(pending') <=> Run(pending \o d))
      BY <1>5, <3>3 DEF Run
    <3> QED BY <1>5, <3>1, <3>3, <3>5, <3>6
  <2> QED BY <2>1, <2>2
<1>9. TypeInv'
  BY <1>1, <1>2 DEF IInv, TypeInv
<1>10. PendingInv'
  BY <1>1, <1>8 DEF PendingInv, Before, Run
<1>11. \A n : Follows(1, n) => Follows(0, n)'
  <2>1. \A n : Follows(1, n) => n = d[Len(d)] + 1
    BY <1>1, <1>2, <1>4 DEF Follows
  <2> QED BY <1>8, <2>1 DEF Follows
<1>12. Deltas(0)' = pending'
  BY DEF Deltas
<1>13. ToSet(Deltas(0))' \subseteq ToSet(Deltas(0)) \cup ToSet(Deltas(1))
  BY <1>5, <1>8, <1>12
<1> QED BY <1>1, <1>2, <1>9, <1>10, <1>11, <1>13, QueueShifted

-----------------------------------------------------------------------------
(* The invariant. *)

LEMMA Starts == Init => IInv
<1> SUFFICES ASSUME Init PROVE IInv
  OBVIOUS
<1> USE DEF Init, ClientInit
<1>1. log = <<>> \/ (\E i \in Items : log = <<[rev |-> 1, item |-> i]>>)
  OBVIOUS
<1>2. /\ log \in Seq(Entry) /\ Len(log) \in {0, 1} /\ DOMAIN log = 1 .. Len(log)
      /\ \A s \in DOMAIN log : s = 1 /\ log[s].rev = 1
  <2>1. CASE log = <<>>
    BY <2>1
  <2>2. ASSUME NEW i \in Items, log = <<[rev |-> 1, item |-> i]>>
        PROVE  /\ log \in Seq(Entry) /\ Len(log) = 1 /\ DOMAIN log = {1}
               /\ log[1].rev = 1
    <3>1. [rev |-> 1, item |-> i] \in Entry
      BY DEF Entry
    <3> QED BY <2>2, <3>1
  <2> QED BY <1>1, <2>1, <2>2
<1>3. LogInv
  <2>1. revision = Len(log) /\ sent = Len(log) /\ ringFrom = 1 /\ cleared = FALSE
    OBVIOUS
  <2>2. Fresh(ringFrom)
    BY <1>2, <2>1 DEF Fresh
  <2>3. \A s, t \in DOMAIN log : s <= t => log[s].rev <= log[t].rev
    <3> SUFFICES ASSUME NEW s \in DOMAIN log, NEW t \in DOMAIN log
                 PROVE  log[s].rev <= log[t].rev
      OBVIOUS
    <3>1. log[s].rev = 1 /\ log[t].rev = 1
      BY <1>2
    <3> QED BY <3>1
  <2>4. \A s \in DOMAIN log : log[s].rev <= revision
    <3> SUFFICES ASSUME NEW s \in DOMAIN log PROVE log[s].rev <= revision
      OBVIOUS
    <3>1. log[s].rev = 1 /\ Len(log) = 1
      BY <1>2
    <3> QED BY <2>1, <3>1
  <2>5. sent \in 0 .. Len(log) /\ ringFrom \in 1 .. sent + 1 /\ revision \in Nat
    BY <1>2, <2>1
  <2> HIDE DEF Init, ClientInit
  <2> QED BY <1>2, <2>1, <2>2, <2>3, <2>4, <2>5 DEF LogInv
<1>4. TypeInv
  <2>1. view \in [Items -> 0 .. 0]
    BY ContentType
  <2>2. view \in [Items -> 0 .. Len(log)]
    BY <1>2, <2>1
  <2> QED BY <1>2, <2>2 DEF TypeInv
<1>5. PendingInv /\ WireInv /\ HandlerInv
  BY DEF PendingInv, WireInv, HandlerInv
<1>6. OrderInv
  <2>1. \A j \in 0 .. 0 : ToSet(Deltas(j)) = {}
    BY DEF Deltas, ToSet
  <2>2. Len(wire) = 0
    OBVIOUS
  <2> QED BY <2>1, <2>2 DEF OrderInv
<1> QED BY <1>3, <1>4, <1>5, <1>6 DEF IInv

LEMMA Steps == IInv /\ [Next]_vars => IInv'
<1> SUFFICES ASSUME IInv, [Next]_vars PROVE IInv'
  OBVIOUS
<1>1. CASE Apply \/ UNCHANGED vars
  BY <1>1, RunnerStep
<1>2. CASE Handle
  BY <1>2, HandlerStep
<1>3. CASE Receive
  BY <1>3, SnapshotReceived, DeltaReceived, QueueEmptied DEF Receive, Receives
<1>4. CASE FetchSnapshot \/ Open \/ Disconnect
  BY <1>4, QueueEmptied
<1>5. CASE Flush
  BY <1>5, Flushed
<1> QED BY <1>1, <1>2, <1>3, <1>4, <1>5 DEF Next, Browse

\* The invariant the other theorems rest on: the queue goes on where the
\* client's cursor ends, and the live loop where the queue ends.
THEOREM QueueGoesOn == Spec => []IInv
BY Starts, Steps, PTL DEF Spec

-----------------------------------------------------------------------------
(* What it gives. *)

\* Every reachable state is of the declared types: the ring and the handler's
\* copy of it lie in what was published, and neither the receiver nor the
\* handler's cursor is past it.
THEOREM TypeCorrect == Spec => []TypeOK
<1>1. ASSUME IInv PROVE TypeOK
  <2>1. pending \in Seq(1 .. Len(log))
    <3>1. CASE pending # <<>>
      BY <1>1, <3>1 DEF IInv, PendingInv, Run
    <3>2. CASE pending = <<>>
      BY <3>2
    <3> QED BY <3>1, <3>2
  <2> QED BY <1>1, <2>1 DEF IInv, LogInv, TypeInv, TypeOK, ClientTypeOK
<1>2. IInv => TypeOK
  BY <1>1
<1> QED BY <1>2, QueueGoesOn, PTL

\* On one connection of a projection stream no delta is sent twice or out of
\* order, whether it comes from the ring or from the channel that the handler
\* subscribed to before it copied the ring.
THEOREM ConnectionOrdered == Spec => []ConnectionIsOrdered
<1>1. ASSUME IInv PROVE ConnectionIsOrdered
  <2>1. \A i, j \in 0 .. Len(wire) : i < j =>
          \A s \in ToSet(Deltas(i)), t \in ToSet(Deltas(j)) : s < t
    BY <1>1 DEF IInv, OrderInv
  <2>2. ASSUME NEW j \in 0 .. Len(wire)
        PROVE  \A a, b \in DOMAIN Deltas(j) : a < b => Deltas(j)[a] < Deltas(j)[b]
    <3>1. CASE Run(Deltas(j))
      <4>1. PICK q : q = Deltas(j)
        OBVIOUS
      <4>2. DOMAIN q = 1 .. Len(q) /\ q[1] \in 1 .. Len(log) /\ Len(q) \in Nat /\ Len(log) \in Nat
        BY <1>1, <3>1, <4>1, RunEnds DEF IInv, LogInv
      <4>3. \A a \in DOMAIN q : q[a] = q[1] + a - 1
        BY <3>1, <4>1 DEF Run
      <4>4. \A a, b \in DOMAIN q : a < b => q[a] < q[b]
        BY <4>2, <4>3
      <4> QED BY <4>1, <4>4
    <3>2. CASE Deltas(j) = <<>>
      BY <3>2
    <3> QED BY <1>1, <3>1, <3>2, DeltasAreRuns DEF IInv
  <2> QED BY <2>1, <2>2 DEF ConnectionIsOrdered
<1>2. IInv => ConnectionIsOrdered
  BY <1>1
<1> QED BY <1>2, QueueGoesOn, PTL

LEMMA CommitSkipsNothing ==
  ASSUME IInv, FlushPending, cursor > 0, cursor' > cursor, pending # <<>>,
         NEW s \in 1 .. Len(log), cursor < log[s].rev, log[s].rev < cursor'
  PROVE  s \in ToSet(pending)
<1>1. /\ log \in Seq(Entry) /\ Len(log) \in Nat /\ DOMAIN log = 1 .. Len(log)
      /\ \A t \in 1 .. Len(log) : log[t].rev \in Nat
      /\ \A t, u \in 1 .. Len(log) : t <= u => log[t].rev <= log[u].rev
      /\ cursor \in Nat
  BY LogFacts DEF IInv, TypeInv
<1>2. Run(pending) /\ Before(pending[1], cursor)
  BY DEF IInv, PendingInv
<1>3. /\ pending[1] \in 1 .. Len(log) /\ pending[Len(pending)] \in 1 .. Len(log)
      /\ ToSet(pending) = pending[1] .. pending[Len(pending)]
  BY <1>1, <1>2, RunEnds
<1>4. cursor' = log[pending[Len(pending)]].rev
  BY Committed
<1>5. ~ (s < pending[1])
  BY <1>1, <1>2 DEF Before
<1>6. ~ (pending[Len(pending)] <= s)
  BY <1>1, <1>3, <1>4
<1> QED BY <1>1, <1>3, <1>5, <1>6

\* A batch that moves the client's cursor forward holds every delta of a
\* revision between the two cursors, so no replay from a ring that begins
\* inside a mutation and no reconnection skips one.
THEOREM FlushesSkipNothing == Spec => FlushSkipsNothing
<1> DEFINE Skips == /\ cursor > 0 /\ cursor' > cursor /\ pending # <<>> /\ pending' = <<>>
                    /\ view' = Applied(pending)
           Holds == \A s \in 1 .. Len(log) :
                      cursor < log[s].rev /\ log[s].rev < cursor' => s \in ToSet(pending)
<1>1. ASSUME IInv, [Next]_vars, Skips PROVE Holds
  <2>1. cursor \in Nat /\ cursor' > cursor /\ pending # <<>>
    BY <1>1 DEF IInv, TypeInv
  <2>2. cursor' # cursor
    BY <2>1
  <2>3. ~ Apply /\ ~ Handle /\ ~ UNCHANGED vars /\ ~ Open
    BY <2>2 DEF Apply, ClearRing, Commit, Publish, Handle, Subscribe, ReadRing, DecideAction,
                FullSnapshot, ReportLag, Forward, vars, client, Open, Opens
  <2>4. ~ FetchSnapshot
    BY <1>1, <2>1 DEF FetchSnapshot, Fetched, IInv, HandlerInv
  <2>5. ~ Receive
    <3>1. ASSUME Receive, ReceiveSnapshot PROVE FALSE
      <4>1. wire # <<>> /\ wire' = Tail(wire) /\ Head(wire).kind = "snapshot"
        BY <3>1 DEF Receive, Receives, ReceiveSnapshot
      <4>2. Head(wire) = wire[1] /\ 1 \in DOMAIN wire
        BY <1>1, <4>1, QueueShrank DEF IInv, TypeInv
      <4>3. FrameInv(1)
        BY <1>1, <4>2 DEF IInv, WireInv
      <4> QED BY <2>1, <4>1, <4>2, <4>3 DEF FrameInv
    <3>2. ~ ReceiveDelta
      BY <2>2 DEF ReceiveDelta
    <3>3. ~ ReceiveLagged
      BY <2>1 DEF ReceiveLagged
    <3> QED BY <3>1, <3>2, <3>3 DEF Receive, Receives
  <2>6. FlushPending
    BY <1>1, <2>3, <2>4, <2>5
       DEF Next, Browse, Flush, Flushes, Disconnect, Disconnects
  <2> QED BY <1>1, <2>6, CommitSkipsNothing
<1>2. IInv /\ [Next]_vars => [Skips => Holds]_<<client, pc, wire>>
  BY <1>1
<1> QED BY <1>2, QueueGoesOn, PTL DEF Spec, FlushSkipsNothing
=============================================================================
