---------------------- MODULE EnrichmentSupervisorProofs ----------------------
(***************************************************************************)
(* Proofs about EnrichmentSupervisor, for any kinds, permits, capacity and *)
(* bounds: what the reducer holds in the end is what the source said last, *)
(* whatever failed, was discarded or is still on its way.                  *)
(*                                                                         *)
(* The loop's belief (present) runs ahead of the reducer: between them are *)
(* the events of the channel.  The invariant says that the last of them    *)
(* about a kind the loop believes withdrawn is its Clear (WithdrawalInv).  *)
(* What a pass over the kinds dispatches does not matter here, and nothing *)
(* is said of it: it is a fold.                                            *)
(***************************************************************************)
EXTENDS EnrichmentSupervisor, TLAPS

\* The events on their way, and nothing else.
IsQueue(q) == \E S : q \in Seq(S)

StageInv ==
  /\ context \in Nat
  /\ stage \in [curated : BOOLEAN, anchor : Nat, demand : Nat]
  /\ StageIsCanonical

ClearInv ==
  /\ present \subseteq Clearable
  /\ \A i \in DOMAIN out :
       \/ out[i].what = "record"
       \/ out[i].what = "clear" /\ out[i].kind \in Clearable

\* Nothing after position i of the queue is about k.
IsLast(k, i) ==
  /\ i \in DOMAIN out /\ out[i].kind = k
  /\ \A j \in DOMAIN out : j > i => out[j].kind # k

Withdrawn(k) ==
  /\ \A i \in DOMAIN out : IsLast(k, i) => out[i].what = "clear"
  /\ (\A i \in DOMAIN out : out[i].kind # k) => k \notin held

WithdrawalInv ==
  /\ answered \in [Clearable -> {"some", "none"}]
  /\ \A k \in Clearable :
       /\ answered[k] = "none" => k \notin present
       /\ k \notin present => Withdrawn(k)

IInv == IsQueue(out) /\ StageInv /\ ClearInv /\ WithdrawalInv

-----------------------------------------------------------------------------
(* The queue. *)

LEMMA Appended ==
  ASSUME IsQueue(out), NEW e
  PROVE  /\ IsQueue(out \o <<e>>)
         /\ DOMAIN (out \o <<e>>) = 1..(Len(out) + 1)
         /\ DOMAIN out = 1..Len(out) /\ Len(out) \in Nat
         /\ \A i \in 1..Len(out) : (out \o <<e>>)[i] = out[i]
         /\ (out \o <<e>>)[Len(out) + 1] = e
<1>1. PICK S : out \in Seq(S)
  BY DEF IsQueue
<1>2. out \in Seq(S \cup {e}) /\ <<e>> \in Seq(S \cup {e})
  BY <1>1
<1>3. out \o <<e>> \in Seq(S \cup {e})
  BY <1>2
<1> QED BY <1>2, <1>3 DEF IsQueue

LEMMA Taken ==
  ASSUME IsQueue(out), out # <<>>
  PROVE  /\ IsQueue(Tail(out))
         /\ DOMAIN out = 1..Len(out) /\ Len(out) \in Nat \ {0}
         /\ DOMAIN Tail(out) = 1..(Len(out) - 1)
         /\ \A i \in 1..(Len(out) - 1) : Tail(out)[i] = out[i + 1]
         /\ Head(out) = out[1]
<1>1. PICK S : out \in Seq(S)
  BY DEF IsQueue
<1>2. Tail(out) \in Seq(S)
  BY <1>1
<1> QED BY <1>1, <1>2 DEF IsQueue

-----------------------------------------------------------------------------
(* Steps that send and install nothing. *)

LEMMA QueueUntouched ==
  ASSUME IInv, UNCHANGED <<present, out, answered>>, held' \subseteq held
  PROVE  IsQueue(out)' /\ ClearInv' /\ WithdrawalInv'
BY DEF IInv, IsQueue, ClearInv, WithdrawalInv, Withdrawn, IsLast

LEMMA LoopStep ==
  ASSUME IInv, UNCHANGED <<present, out, stage, held, answered, context>>
  PROVE  IInv'
BY QueueUntouched DEF IInv, StageInv, StageIsCanonical

LEMMA ReorganizeStep == ASSUME IInv, Reorganize PROVE IInv'
<1>1. context' \in Nat /\ stage' = Uncurated
  BY DEF Reorganize, IInv, StageInv
<1>2. StageInv'
  BY <1>1 DEF StageInv, StageIsCanonical, Uncurated
<1>3. UNCHANGED <<present, out, answered>> /\ held' \subseteq held
  BY DEF Reorganize
<1> QED BY <1>2, <1>3, QueueUntouched DEF IInv

LEMMA DriftStep == ASSUME IInv, Drift PROVE IInv'
<1>1. StageInv'
  BY DEF Drift, IInv, StageInv, StageIsCanonical
<1> QED BY <1>1, QueueUntouched DEF Drift, IInv

-----------------------------------------------------------------------------
(* A completion: its record, its Clear, or nothing. *)

LEMMA SentOneOrNone ==
  ASSUME NEW k \in Kinds, NEW answer \in Answers(k), NEW at
  PROVE  \/ Sent(k, answer, at) = <<>> /\ (answer = "none" => k \notin present)
         \/ /\ answer = "some" \/ (answer = "empty" /\ k \notin Clearable)
            /\ Sent(k, answer, at) = <<Event(k, "record", at)>>
         \/ /\ answer = "none" /\ k \in present
            /\ Sent(k, answer, at) = <<Event(k, "clear", at)>>
<1>1. answer = "empty" => k = TopUp
  BY DEF Answers
<1>2. TopUp \notin Clearable
  BY SupervisorAssumption
<1> QED BY <1>1, <1>2 DEF Sent, Answers

LEMMA JoinStep ==
  ASSUME IInv, NEW k \in Kinds, NEW answer \in Answers(k), Join(k, answer)
  PROVE  IInv'
<1>0. /\ answer \in {"some", "none", "error", "empty"}
      /\ k \in Clearable => answer # "empty"
  BY SupervisorAssumption DEF Answers
<1>1. PICK i \in DOMAIN tasks[k] :
        /\ out' = out \o Sent(k, answer, tasks[k][i])
        /\ present' = PresentAfter(k, answer)
        /\ answered' = IF k \in Clearable /\ answer # "error"
                       THEN [answered EXCEPT ![k] = answer] ELSE answered
        /\ UNCHANGED <<stage, held, context>>
  BY DEF Join
<1> DEFINE sent == Sent(k, answer, tasks[k][i])
<1>2. StageInv'
  BY <1>1 DEF IInv, StageInv, StageIsCanonical
<1>3. answered' \in [Clearable -> {"some", "none"}]
  BY <1>0, <1>1 DEF IInv, WithdrawalInv
<1>4. /\ present' \subseteq Clearable
      /\ \A c \in Clearable \ {k} : answered'[c] = answered[c] /\ (c \in present' <=> c \in present)
      /\ k \in Clearable /\ answer = "none" => k \notin present'
      /\ k \in Clearable /\ answer = "some" => k \in present' /\ answered'[k] = "some"
      /\ answer = "error" => present' = present /\ answered' = answered
  BY <1>0, <1>1 DEF IInv, ClearInv, WithdrawalInv, PresentAfter
<1>5. \A c \in Clearable : answered'[c] = "none" => c \notin present'
  BY <1>0, <1>4 DEF IInv, WithdrawalInv
<1>6. CASE sent = <<>>
  <2>1. out' = out
    BY <1>1, <1>6 DEF IInv, IsQueue
  <2>2. answer = "none" => k \notin present
    <3> SUFFICES ASSUME answer = "none", k \in present PROVE FALSE
      OBVIOUS
    <3>1. sent = <<Event(k, "clear", tasks[k][i])>>
      BY DEF Sent
    <3> QED BY <1>6, <3>1
  <2>3. ASSUME NEW c \in Clearable, c \notin present' PROVE c \notin present
    <3>1. CASE c # k
      BY <1>4, <2>3, <3>1
    <3>2. CASE c = k
      <4>1. answer = "none" \/ answer = "error"
        BY <1>0, <1>4, <2>3, <3>2
      <4> QED BY <1>4, <2>2, <2>3, <3>2, <4>1
    <3> QED BY <3>1, <3>2
  <2>4. \A c \in Clearable : Withdrawn(c) => Withdrawn(c)'
    BY <1>1, <2>1 DEF Withdrawn, IsLast
  <2>5. WithdrawalInv'
    BY <1>3, <1>5, <2>3, <2>4 DEF IInv, WithdrawalInv
  <2> QED BY <1>2, <1>4, <2>1, <2>5 DEF IInv, ClearInv
<1>7. ASSUME NEW e, sent = <<e>>, e.kind = k,
             \/ (k \in Clearable => answer = "some") /\ e.what = "record"
             \/ answer = "none" /\ k \in present /\ e.what = "clear"
      PROVE  IInv'
  <2>1. /\ IsQueue(out')
        /\ DOMAIN out' = 1..(Len(out) + 1)
        /\ DOMAIN out = 1..Len(out) /\ Len(out) \in Nat
        /\ \A j \in 1..Len(out) : out'[j] = out[j]
        /\ out'[Len(out) + 1] = e
    BY <1>1, <1>7, Appended DEF IInv
  <2>2. ClearInv'
    BY <1>4, <1>7, <2>1 DEF IInv, ClearInv
  <2>3. ASSUME NEW c \in Clearable, c \notin present' PROVE Withdrawn(c)'
    <3>1. CASE c = k
      <4>1. e.what = "clear"
        BY <1>4, <1>7, <2>3, <3>1
      <4>2. \A j \in DOMAIN out' : IsLast(c, j)' => j = Len(out) + 1
        BY <1>7, <2>1, <3>1 DEF IsLast
      <4> QED BY <1>7, <2>1, <3>1, <4>1, <4>2 DEF Withdrawn
    <3>2. CASE c # k
      <4>1. Withdrawn(c)
        BY <1>4, <2>3, <3>2 DEF IInv, WithdrawalInv
      <4>2. \A j \in DOMAIN out' : IsLast(c, j)' => IsLast(c, j) /\ out'[j] = out[j]
        BY <1>7, <2>1, <3>2 DEF IsLast
      <4>3. (\A j \in DOMAIN out' : out'[j].kind # c) => \A j \in DOMAIN out : out[j].kind # c
        BY <2>1
      <4>4. \A j \in DOMAIN out' : IsLast(c, j) => j \in DOMAIN out
        BY DEF IsLast
      <4> QED BY <1>1, <4>1, <4>2, <4>3, <4>4 DEF Withdrawn
    <3> QED BY <3>1, <3>2
  <2> QED BY <1>2, <1>3, <1>5, <2>1, <2>2, <2>3 DEF IInv, WithdrawalInv
<1>8. CASE (k \in Clearable => answer = "some") /\ sent = <<Event(k, "record", tasks[k][i])>>
  BY <1>7, <1>8 DEF Event
<1>9. CASE answer = "none" /\ k \in present /\ sent = <<Event(k, "clear", tasks[k][i])>>
  BY <1>7, <1>9 DEF Event
<1> QED BY <1>6, <1>8, <1>9, SentOneOrNone

-----------------------------------------------------------------------------
(* The reducer takes the oldest event. *)

LEMMA InstallCases ==
  ASSUME NEW e, Install(e)
  PROVE  /\ e.kind = Composition =>
              \E d \in 0..MaxDemand :
                 stage' = [curated |-> TRUE, anchor |-> e.anchor, demand |-> d]
         /\ e.kind = TopUp =>
              \E d \in 0..stage.demand : stage' = [stage EXCEPT !.demand = d]
         /\ e.kind \notin {Composition, TopUp} => stage' = stage
         /\ held' \in {held, held \cup {e.kind}, held \ {e.kind}}
         /\ e.kind \in Clearable /\ e.what # "record" => held' = held \ {e.kind}
<1>1. /\ Composition # TopUp
      /\ Composition \notin Clearable /\ TopUp \notin Clearable
  BY SupervisorAssumption DEF Composition, TopUp
<1>2. CASE e.kind = Composition
  BY <1>1, <1>2 DEF Install
<1>3. CASE e.kind = TopUp
  BY <1>1, <1>3 DEF Install
<1>4. CASE e.kind \in Clearable
  BY <1>1, <1>4 DEF Install
<1>5. CASE e.kind \notin Clearable \cup {Composition, TopUp}
  BY <1>1, <1>5 DEF Install
<1> QED BY <1>2, <1>3, <1>4, <1>5

LEMMA IntakeStep == ASSUME IInv, Intake PROVE IInv'
<1> DEFINE e == out[1]
<1>1. /\ out # <<>> /\ out' = Tail(out) /\ UNCHANGED <<present, answered, context>>
      /\ \/ IsCurrent(Head(out)) /\ Install(Head(out))
         \/ Anchored(Head(out)) /\ UNCHANGED <<stage, held>>
  BY DEF Intake
<1>2. /\ IsQueue(out')
      /\ DOMAIN out = 1..Len(out) /\ Len(out) \in Nat \ {0}
      /\ DOMAIN out' = 1..(Len(out) - 1)
      /\ \A i \in 1..(Len(out) - 1) : out'[i] = out[i + 1]
      /\ Head(out) = e
  BY <1>1, Taken DEF IInv
<1>3. e.what = "record" \/ (e.what = "clear" /\ e.kind \in Clearable)
  BY <1>2 DEF IInv, ClearInv
<1>4. \A k \in Clearable : k # Composition /\ k # TopUp
  BY SupervisorAssumption
<1>5. StageInv'
  <2> SUFFICES ASSUME IsCurrent(e), Install(e) PROVE StageInv'
    BY <1>1, <1>2 DEF IInv, StageInv, StageIsCanonical
  <2> HIDE DEF e
  <2>1. CASE e.kind = Composition
    <3>1. e.what = "record"
      BY <1>3, <1>4, <2>1
    <3>2. PICK d \in 0..MaxDemand : stage' = [curated |-> TRUE, anchor |-> e.anchor, demand |-> d]
      BY <2>1, InstallCases
    <3>3. e.anchor = context /\ context \in Nat /\ context' = context
      BY <1>1, <1>4, <2>1, <3>1, SupervisorAssumption DEF IInv, StageInv, IsCurrent, Anchored
    <3>4. d \in Nat
      BY SupervisorAssumption
    <3> QED BY <3>2, <3>3, <3>4 DEF StageInv, StageIsCanonical
  <2>2. CASE e.kind = TopUp
    <3>1. PICK d \in 0..stage.demand : stage' = [stage EXCEPT !.demand = d]
      BY <2>2, InstallCases
    <3>2. d \in Nat
      BY DEF IInv, StageInv
    <3> QED BY <1>1, <3>1, <3>2 DEF IInv, StageInv, StageIsCanonical
  <2>3. CASE e.kind \notin {Composition, TopUp}
    <3>1. stage' = stage
      BY <2>3, InstallCases
    <3> QED BY <1>1, <3>1 DEF IInv, StageInv, StageIsCanonical
  <2> QED BY <2>1, <2>2, <2>3
<1>6. ClearInv'
  BY <1>1, <1>2 DEF IInv, ClearInv
<1>7. ASSUME NEW k \in Clearable, k \notin present' PROVE Withdrawn(k)'
  <2>1. Withdrawn(k)
    BY <1>1, <1>7 DEF IInv, WithdrawalInv
  <2>2. \A i \in DOMAIN out' : IsLast(k, i)' => IsLast(k, i + 1) /\ out'[i] = out[i + 1]
    <3> SUFFICES ASSUME NEW i \in DOMAIN out', IsLast(k, i)'
                 PROVE  IsLast(k, i + 1) /\ out'[i] = out[i + 1]
      OBVIOUS
    <3>1. i \in Nat /\ i + 1 \in DOMAIN out /\ out'[i] = out[i + 1] /\ out'[i].kind = k
      BY <1>2 DEF IsLast
    <3>2. ASSUME NEW j \in DOMAIN out, j > i + 1 PROVE out[j].kind # k
      <4>1. j - 1 \in DOMAIN out' /\ out'[j - 1] = out[j] /\ j - 1 > i
        BY <1>2, <3>1, <3>2
      <4> QED BY <4>1 DEF IsLast
    <3> QED BY <3>1, <3>2 DEF IsLast
  <2>3. ASSUME \A i \in DOMAIN out' : out'[i].kind # k PROVE k \notin held'
    <3>1. \A j \in DOMAIN out : j > 1 => out[j].kind # k
      <4>1. \A j \in DOMAIN out : j > 1 => j - 1 \in DOMAIN out' /\ out'[j - 1] = out[j]
        BY <1>2
      <4> QED BY <2>3, <4>1
    <3>2. CASE e.kind = k
      <4>1. IsLast(k, 1)
        BY <1>2, <3>1, <3>2 DEF IsLast
      <4>2. e.what = "clear"
        BY <2>1, <4>1, <1>2 DEF Withdrawn
      <4>3. held' = held \ {k}
        BY <1>1, <1>2, <3>2, <4>2, InstallCases DEF IsCurrent, Anchored
      <4> QED BY <4>3
    <3>3. CASE e.kind # k
      <4>1. k \notin held
        BY <1>2, <2>1, <3>1, <3>3 DEF Withdrawn
      <4>2. held' \in {held, held \cup {e.kind}, held \ {e.kind}}
        BY <1>1, <1>2, InstallCases
      <4> QED BY <3>3, <4>1, <4>2
    <3> QED BY <3>2, <3>3
  <2>4. \A i \in DOMAIN out' : IsLast(k, i)' => out'[i].what = "clear"
    <3>1. \A i \in DOMAIN out' : i + 1 \in DOMAIN out
      BY <1>2
    <3> QED BY <2>1, <2>2, <3>1 DEF Withdrawn
  <2> QED BY <2>3, <2>4 DEF Withdrawn
<1>8. WithdrawalInv'
  BY <1>1, <1>7 DEF IInv, WithdrawalInv
<1> QED BY <1>2, <1>5, <1>6, <1>8 DEF IInv

-----------------------------------------------------------------------------
\* The invariant holds however answers, failures and reorganisations mix.
THEOREM SupervisorInvariant == Spec => []IInv
<1>1. Init => IInv
  <2> SUFFICES ASSUME Init PROVE IInv
    OBVIOUS
  <2>1. out \in Seq({}) /\ DOMAIN out = {}
    BY DEF Init
  <2>2. StageInv
    BY DEF Init, StageInv, StageIsCanonical, Uncurated
  <2>3. ClearInv
    BY <2>1 DEF Init, ClearInv
  <2>4. \A k \in Clearable : Withdrawn(k)
    BY <2>1 DEF Init, Withdrawn
  <2>5. answered \in [Clearable -> {"some", "none"}] /\ \A k \in Clearable : answered[k] = "some"
    BY DEF Init
  <2> QED BY <2>1, <2>2, <2>3, <2>4, <2>5 DEF IInv, IsQueue, WithdrawalInv
<1>2. IInv /\ [Next]_vars => IInv'
  <2> SUFFICES ASSUME IInv, [Next]_vars PROVE IInv'
    OBVIOUS
  <2>1. CASE Tick
    BY <2>1, LoopStep DEF Tick
  <2>2. CASE ProbeLands
    BY <2>2, LoopStep DEF ProbeLands
  <2>3. ASSUME NEW status \in {"ready", "unready", "dies"}, ProbeAnswers(status) PROVE IInv'
    BY <2>3, LoopStep DEF ProbeAnswers
  <2>4. ASSUME NEW k \in Kinds, Rest(k) PROVE IInv'
    BY <2>4, LoopStep DEF Rest
  <2>6. CASE Land
    BY <2>6, LoopStep DEF Land
  <2>5. CASE UNCHANGED vars
    BY <2>5, LoopStep DEF vars
  <2> QED BY <2>1, <2>2, <2>3, <2>4, <2>5, <2>6, JoinStep, IntakeStep, ReorganizeStep, DriftStep
          DEF Next
<1> QED BY <1>1, <1>2, PTL DEF Spec

\* The stage only ever rests on an anchor of the followed chain
\* (ServerState::apply_enrichment, event_anchor_is_current).
THEOREM StageStaysCanonical == Spec => []StageIsCanonical
<1>1. IInv => StageIsCanonical
  BY DEF IInv, StageInv
<1> QED BY <1>1, SupervisorInvariant, PTL

\* Once everything sent has been applied, what the source withdrew is gone
\* (the *_present marks of EnrichmentSupervisor::run).
THEOREM WithdrawnGoes == Spec => []WithdrawnIsGone
<1>1. IInv => WithdrawnIsGone
  BY DEF IInv, WithdrawalInv, Withdrawn, WithdrawnIsGone
<1> QED BY <1>1, SupervisorInvariant, PTL
=============================================================================
