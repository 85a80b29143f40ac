------------------------ MODULE EnrichmentSupervisor ------------------------
(***************************************************************************)
(* The enrichment supervisor (enrichment_supervisor.rs): one loop that     *)
(* probes an optional source, dispatches the refreshes that are due with   *)
(* bounded concurrency, tops the stage up in bursts, and hands every       *)
(* answer to the enrichment reducer (state.rs), which installs it only if  *)
(* its anchor is still canonical.                                          *)
(*                                                                         *)
(* A canonical context is the number of reorganisations before it was      *)
(* taken: an anchor is a block that the next reorganisation replaces.      *)
(* Time is abstract: a kind is recent from its start until its interval,   *)
(* stretched or not, has passed, which Rest lets happen at any moment.     *)
(* The end of a refresh task and its join are one step; that a top-up      *)
(* landed is judged in a step of its own, since the loop reads the stage   *)
(* again once its event has been handed on.                                *)
(***************************************************************************)
EXTENDS Naturals, SequencesExt

CONSTANTS
  REFRESH_KINDS,   \* the order in which a probe considers the kinds
  Clearable,       \* kinds whose withdrawal is published as a Clear
  Unanchored,      \* those whose record names no block (the producer ledger)
  MaxConcurrent,   \* permits the kinds other than the top-up share
  BurstMaxRounds,  \* top_up_burst_max_rounds
  BurstDemand,     \* top_up_burst_demand
  OutCapacity,     \* capacity of the channel to the reducer
  MaxStalled, MaxDemand, MaxReorgs  \* bounds of the model

Composition == "galaxy_composition"
TopUp == "galaxy_top_up"
Kinds == Range(REFRESH_KINDS)

ASSUME SupervisorAssumption ==
  /\ {Composition, TopUp} \subseteq Kinds
  /\ REFRESH_KINDS[Len(REFRESH_KINDS)] = TopUp
  /\ Clearable \subseteq Kinds \ {Composition, TopUp} /\ Unanchored \subseteq Clearable
  /\ MaxConcurrent \in Nat \ {0} /\ BurstMaxRounds \in Nat \ {0}
  /\ BurstDemand \in Nat /\ OutCapacity \in Nat \ {0}
  /\ {MaxStalled, MaxDemand, MaxReorgs} \subseteq Nat

VARIABLES
  tracker,    \* RefreshTracker
  probe,      \* context of the probe in flight, then its answer; or none
  tasks,      \* contexts of the refresh tasks of each kind, oldest first
  landing,    \* whether the top-up just handed on held cells; or nothing
  present,    \* kinds whose record the loop believes published
  out,        \* events on their way to the reducer
  stage,      \* what the display plane says: curated, its anchor, its demand
  held,       \* clearable kinds whose record the reducer holds
  answered,   \* the last word of the source about a clearable kind
  context     \* reorganisations so far

vars == <<tracker, probe, tasks, landing, present, out, stage, held,
          answered, context>>

NoProbe == <<>>
NoLanding == <<>>
Uncurated == [curated |-> FALSE, anchor |-> 0, demand |-> 0]

---------------------------------------------------------------------------
(* RefreshTracker.  published is read for the composition only. *)

NewTracker ==
  [recent |-> {}, inFlight |-> {}, published |-> FALSE,
   stalled |-> 0, awaiting |-> FALSE, before |-> 0, burst |-> 0]

Wants(st) == st.curated /\ st.demand > 0

(* The source is not ready: whatever was asked before counts no more. *)
Forget(tr, k) ==
  [tr EXCEPT !.recent = @ \ {k}, !.published = @ /\ k # Composition]

(* due: the composition runs once and holds, a burst does not wait. *)
Due(tr, k) ==
  /\ k \notin tr.inFlight
  /\ \/ k \notin tr.recent
     \/ k = TopUp /\ tr.burst > 0
  /\ k = Composition => ~tr.published

(* Mutant: a composition that was published is never asked for again. *)
RearmNever(tr, st) == tr

(* rearm_composition_if_degraded, after its grace. *)
Rearm(tr, st) ==
  IF st.curated \/ Composition \in tr.recent THEN tr
  ELSE [tr EXCEPT !.published = FALSE]

Judged(tr, st) ==
  [tr EXCEPT !.awaiting = FALSE,
             !.stalled = IF st.demand < tr.before THEN 0
                         ELSE IF @ = MaxStalled THEN @ ELSE @ + 1]

NoteTopUpOutcome(tr, st) ==
  CASE ~st.curated -> [tr EXCEPT !.stalled = 0, !.awaiting = FALSE]
    [] st.curated /\ tr.burst = 0 /\ tr.awaiting /\ TopUp \notin tr.inFlight -> Judged(tr, st)
    [] OTHER -> tr

EndBurst(tr, st) ==
  IF tr.burst = 0 THEN tr ELSE NoteTopUpOutcome([tr EXCEPT !.burst = 0], st)

(* A burst is armed, or goes on, while rounds land under a real shortfall. *)
Hurries(tr, landed, st) ==
  /\ landed
  /\ st.curated /\ st.demand > BurstDemand
  /\ tr.burst = 0 => tr.stalled = 0

(* Mutant: a burst that keeps landing never meets its limit. *)
NoteLandingUnlimited(tr, landed, st) ==
  IF Hurries(tr, landed, st)
  THEN [tr EXCEPT !.burst = IF @ = BurstMaxRounds THEN @ ELSE @ + 1]
  ELSE EndBurst(tr, st)

(* note_top_up_landing *)
NoteLanding(tr, landed, st) ==
  IF Hurries(tr, landed, st) /\ tr.burst + 1 < BurstMaxRounds
  THEN [tr EXCEPT !.burst = @ + 1]
  ELSE EndBurst(IF Hurries(tr, landed, st) THEN [tr EXCEPT !.burst = @ + 1] ELSE tr, st)

(* note_top_up_dispatch and started *)
Started(tr, k, st) ==
  [tr EXCEPT !.recent = @ \cup {k}, !.inFlight = @ \cup {k},
             !.awaiting = @ \/ k = TopUp,
             !.before = IF k = TopUp /\ tr.burst = 0 THEN st.demand ELSE @]

Finished(tr, k, published) ==
  [tr EXCEPT !.inFlight = @ \ {k}, !.published = @ \/ (published /\ k = Composition)]

---------------------------------------------------------------------------
(* One pass over REFRESH_KINDS when a probe has answered. *)

Running(tk) ==
  FoldLeft(LAMBDA n, k : IF k = TopUp THEN n ELSE n + Len(tk[k]), 0, REFRESH_KINDS)
HasPermit(tk, k) == IF k = TopUp THEN tk[TopUp] = <<>> ELSE Running(tk) < MaxConcurrent

Dispatched(s, k) ==
  [s EXCEPT !.tracker = Started(s.tracker, k, stage),
            !.tasks[k] = Append(@, probe[1])]

(* A kind without a permit is skipped and the pass goes on. *)
Consider(s, k, ready) ==
  CASE k = TopUp /\ ~Wants(stage) -> [s EXCEPT !.tracker = EndBurst(@, stage)]
    [] (k = TopUp => Wants(stage)) /\ ~ready -> [s EXCEPT !.tracker = Forget(@, k)]
    [] (k = TopUp => Wants(stage)) /\ ready /\ Due(s.tracker, k) /\ HasPermit(s.tasks, k) ->
         Dispatched(s, k)
    [] OTHER -> s

(* Mutant: the pass ends at the first kind that finds no permit. *)
PassStopping(ready) ==
  FoldLeft(LAMBDA s, k :
             IF s.full \/ (ready /\ Due(s.tracker, k) /\ ~HasPermit(s.tasks, k))
             THEN [s EXCEPT !.full = TRUE] ELSE Consider(s, k, ready),
           [tracker |-> NoteTopUpOutcome(Rearm(tracker, stage), stage),
            tasks |-> tasks, full |-> FALSE],
           REFRESH_KINDS)

Pass(ready) ==
  FoldLeft(LAMBDA s, k : Consider(s, k, ready),
           [tracker |-> NoteTopUpOutcome(Rearm(tracker, stage), stage),
            tasks |-> tasks],
           REFRESH_KINDS)

---------------------------------------------------------------------------
Init ==
  /\ tracker = NewTracker
  /\ probe = NoProbe
  /\ tasks = [k \in Kinds |-> <<>>] /\ landing = NoLanding
  /\ present = {} /\ out = <<>> /\ held = {}
  /\ stage = Uncurated
  /\ answered = [k \in Clearable |-> "some"]
  /\ context = 0

(* interval.tick: one probe at a time. *)
Tick ==
  /\ probe = NoProbe
  /\ probe' = <<context>>
  /\ UNCHANGED <<tracker, tasks, landing, present, out, stage, held, answered, context>>

(* The source's status: ready with a proved anchor, or not; or no answer. *)
ProbeAnswers(status) ==
  /\ Len(probe) = 1
  /\ probe' = IF status = "dies" THEN NoProbe ELSE Append(probe, status)
  /\ UNCHANGED <<tracker, tasks, landing, present, out, stage, held, answered, context>>

(* The loop takes the answer; the probe's context goes with every request *)
(* it lets start.                                                         *)
ProbeLands ==
  /\ Len(probe) = 2 /\ landing = NoLanding
  /\ probe' = NoProbe
  /\ LET s == Pass(probe[2] = "ready") IN tracker' = s.tracker /\ tasks' = s.tasks
  /\ UNCHANGED <<landing, present, out, stage, held, answered, context>>

(* An interval has passed since the kind was started. *)
Rest(k) ==
  /\ k \in tracker.recent
  /\ tracker' = [tracker EXCEPT !.recent = @ \ {k}]
  /\ UNCHANGED <<probe, tasks, landing, present, out, stage, held, answered, context>>

Event(k, what, at) == [kind |-> k, what |-> what, anchor |-> at]

(* What the answer makes the loop send: its record, or one Clear. *)
Sent(k, answer, at) ==
  CASE answer \in {"some", "empty"} -> <<Event(k, "record", at)>>
    [] answer = "none" /\ k \in present -> <<Event(k, "clear", at)>>
    [] OTHER -> <<>>

(* Mutant: a request that failed counts as a withdrawn record. *)
PresentUnlessSome(k, answer) ==
  IF k \in Clearable /\ answer = "some" THEN present \cup {k} ELSE present \ {k}

PresentAfter(k, answer) ==
  CASE k \in Clearable /\ answer = "some" -> present \cup {k}
    [] k \in Clearable /\ answer = "none" -> present \ {k}
    [] OTHER -> present

(* A task without its i-th request, of however many are in flight. *)
Without(k, i) == [tasks EXCEPT ![k] = RemoveAt(@, i)]

(* join_next: a request of kind k ends with its answer. *)
Join(k, answer) ==
  \E i \in DOMAIN tasks[k] :
    LET sent == Sent(k, answer, tasks[k][i])
    IN  /\ landing = NoLanding
        /\ Len(out) + Len(sent) <= OutCapacity
        /\ tasks' = Without(k, i)
        /\ out' = out \o sent
        /\ present' = PresentAfter(k, answer)
        /\ answered' = IF k \in Clearable /\ answer # "error"
                       THEN [answered EXCEPT ![k] = answer] ELSE answered
        /\ tracker' = Finished(tracker, k, answer \in {"some", "empty"})
        /\ landing' = IF k = TopUp THEN <<answer = "some">> ELSE NoLanding
        /\ UNCHANGED <<probe, stage, held, context>>

(* The event of a top-up is handed on, and may have been applied: the loop *)
(* reads the stage again and judges the landing.                           *)
Land ==
  /\ landing # NoLanding
  /\ tracker' = NoteLanding(tracker, landing[1], stage)
  /\ landing' = NoLanding
  /\ UNCHANGED <<probe, tasks, present, out, stage, held, answered, context>>

---------------------------------------------------------------------------
(* apply_enrichment and apply_galaxy_composition: the reducer's side. *)

(* Mutant: the anchor is not compared with the retained blocks. *)
IsCurrentUnchecked(e) == TRUE

Anchored(e) == e.what = "record" /\ e.kind \notin Unanchored

IsCurrent(e) == Anchored(e) => e.anchor = context

Install(e) ==
  CASE e.kind = Composition ->
         /\ \E d \in 0..MaxDemand : stage' = [curated |-> TRUE, anchor |-> e.anchor, demand |-> d]
         /\ UNCHANGED held
    [] e.kind = TopUp ->
         /\ \E d \in 0..stage.demand : stage' = [stage EXCEPT !.demand = d]
         /\ UNCHANGED held
    [] e.kind \in Clearable ->
         /\ held' = IF e.what = "record" THEN held \cup {e.kind} ELSE held \ {e.kind}
         /\ UNCHANGED stage
    [] OTHER -> UNCHANGED <<stage, held>>

(* A record is discarded when its block was replaced, or when the block is *)
(* no longer among the retained ones.                                      *)
Intake ==
  /\ out # <<>>
  /\ out' = Tail(out)
  /\ \/ IsCurrent(Head(out)) /\ Install(Head(out))
     \/ Anchored(Head(out)) /\ UNCHANGED <<stage, held>>
  /\ UNCHANGED <<tracker, probe, tasks, landing, present, answered, context>>

(* A reorganisation reaches the anchors: the stage degrades, records go.   *)
(* One without an anchor goes only with all others, in a rebuild.          *)
Reorganize ==
  /\ context < MaxReorgs
  /\ context' = context + 1
  /\ stage' = Uncurated
  /\ held' \in SUBSET held
  /\ held' = {} \/ held \cap Unanchored \subseteq held'
  /\ UNCHANGED <<tracker, probe, tasks, landing, present, out, answered>>

(* Cells of the stage die. *)
Drift ==
  /\ stage.curated /\ stage.demand < MaxDemand
  /\ stage' = [stage EXCEPT !.demand = @ + 1]
  /\ UNCHANGED <<tracker, probe, tasks, landing, present, out, held, answered, context>>

(* Only a top-up can be a record that is worth nothing. *)
Answers(k) == {"some", "none", "error"} \cup (IF k = TopUp THEN {"empty"} ELSE {})

Next ==
  \/ Tick \/ ProbeLands \/ Land
  \/ \E status \in {"ready", "unready", "dies"} : ProbeAnswers(status)
  \/ \E k \in Kinds : Rest(k) \/ \E answer \in Answers(k) : Join(k, answer)
  \/ Intake \/ Reorganize \/ Drift

(* The loop and the reducer keep running, intervals pass, and a top-up     *)
(* ends (its requests have timeouts).  The source, outside this code, may  *)
(* be unreachable again and again but not for ever.  The other requests    *)
(* need never end.                                                         *)
TakesProbe == Len(probe) = 2 /\ probe' = NoProbe
Fairness ==
  /\ WF_vars(Tick) /\ SF_vars(ProbeAnswers("ready")) /\ WF_probe(TakesProbe)
  /\ WF_vars(Intake) /\ WF_vars(Land)
  /\ WF_vars(Rest(Composition)) /\ WF_vars(Rest(TopUp))
  /\ WF_vars(\E answer \in Answers(TopUp) : Join(TopUp, answer))

(* A refresh task panics: every kind is due again. *)
RefreshDies(k) ==
  \E i \in DOMAIN tasks[k] :
    /\ landing = NoLanding
    /\ tasks' = Without(k, i)
    /\ tracker' = EndBurst([tracker EXCEPT !.inFlight = {}], stage)
    /\ UNCHANGED <<probe, landing, present, out, stage, held, answered, context>>

Spec == Init /\ [][Next]_vars /\ Fairness
SpecWithPanics == Init /\ [][Next \/ \E k \in Kinds : RefreshDies(k)]_vars

---------------------------------------------------------------------------
TypeOK ==
  /\ tracker.recent \subseteq Kinds /\ tracker.inFlight \subseteq Kinds
  /\ tracker.stalled \in 0..MaxStalled /\ tracker.before \in 0..MaxDemand
  /\ tracker.burst \in 0..(BurstMaxRounds - 1)
  /\ present \subseteq Clearable /\ held \subseteq Clearable
  /\ Len(out) <= OutCapacity
  /\ stage.demand \in 0..MaxDemand

(* The module's first promise: a capability never has two requests in      *)
(* flight.                                                                 *)
OneInFlight == \A k \in Kinds : Len(tasks[k]) <= 1

(* When the source withdrew a record and everything it said has been       *)
(* applied, the reducer does not hold it: one Clear follows one record,    *)
(* whatever failed or was discarded in between.                            *)
WithdrawnIsGone ==
  \A k \in Clearable :
    answered[k] = "none" /\ (\A i \in DOMAIN out : out[i].kind # k) => k \notin held

(* The stage rests on an anchor of the chain that is followed: an answer   *)
(* overtaken by a reorganisation is not installed.                         *)
StageIsCanonical == stage.curated => stage.anchor = context

(* A burst always ends. *)
BurstEnds == tracker.burst > 0 ~> tracker.burst = 0

(* A shortfall is asked about, however busy the other kinds are. *)
TopUpIsAsked ==
  Wants(stage) ~> ~Wants(stage) \/ TopUp \in tracker.inFlight

(* A stage without a composition gets one, has asked for one, or asks at   *)
(* the next probe that finds a permit: neither a discarded answer nor a    *)
(* reorganisation leaves the loop believing that it already has one.       *)
LostCompositionIsDue ==
  ~stage.curated ~>
    stage.curated \/ Composition \in tracker.inFlight \/ Due(tracker, Composition)
===========================================================================
