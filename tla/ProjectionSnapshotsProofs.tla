---------------------- MODULE ProjectionSnapshotsProofs ----------------------
(***************************************************************************)
(* Proofs about ProjectionSnapshots, for any set of projections, of        *)
(* requests and of bounds.                                                 *)
(*                                                                         *)
(* What the runs check is not inductive.  The invariant adds how far each  *)
(* projection is in the fan-out and when it is poisoned (ReducerInv), what *)
(* every slot of a cache holds (CacheInv), what a request has read so far  *)
(* (RequestInv), and that the generation of the current revision, once a   *)
(* request has it, is the cached one (GenerationInv).                      *)
(***************************************************************************)
EXTENDS ProjectionSnapshots, TLAPS

UnderWay(p, phases) == phase \in phases /\ current = p

ReducerInv ==
  /\ \A p \in Projections : revision[p] <= head
  /\ \A p \in todo : revision[p] < head
  /\ phase # "idle" => current \notin todo
  /\ phase \in {"locked", "changed"} => revision[current] < head
  /\ \A p \in Projections : poisoned[p] <=> (quarantined[p] \/ UnderWay(p, {"unwinding"}))
  /\ \A p \in Projections : Locked(p) => ~quarantined[p]
  /\ \A p \in Projections :
       IF UnderWay(p, {"changed"}) THEN rows[p] = [rows |-> head, whole |-> TRUE]
       ELSE rows[p].rows = revision[p] /\ (rows[p].whole \/ poisoned[p])
  /\ \A p \in Projections :
       ~quarantined[p] /\ p \notin todo /\ ~UnderWay(p, {"locked", "changed", "unwinding"})
         => revision[p] = head

(* The text of projection p at a revision, as it may be handed out.        *)
FairText(s, p) == s \in Snapshot /\ s.rows = s.rev /\ (s.whole \/ poisoned[p])

CacheOK(p) ==
  /\ ~UnderWay(p, {"stored"}) => cache[p].rev \in {None, revision[p]}
  /\ cache[p].rev = None => \A k \in Kinds : cache[p].slot[k] = None
  /\ \A k \in Texts : cache[p].slot[k] # None =>
       FairText(cache[p].slot[k], p) /\ cache[p].slot[k].rev = cache[p].rev
  /\ cache[p].slot["bin"] # None =>
       /\ cache[p].slot["bin"] \in Requests
       /\ want[cache[p].slot["bin"]].proj = p
       /\ binary[cache[p].slot["bin"]] # None
       /\ binary[cache[p].slot["bin"]].rev = cache[p].rev

CacheInv == \A p \in Projections : CacheOK(p)

RequestOK(r) ==
  /\ pc[r] = "asked" => got[r] \in Nat
  /\ pc[r] \in {"taken", "answered"} /\ want[r].kind \in Texts => FairText(got[r], want[r].proj)
  /\ pc[r] = "taken" => want[r].kind \in Texts
  /\ pc[r] \in {"checked", "reading", "holding", "waiting"} => want[r].kind = "bin"
  /\ pc[r] = "reading" =>
       /\ got[r] \in Snapshot /\ Honest(got[r]) /\ got[r].rev = revision[want[r].proj]
       /\ ~Locked(want[r].proj) /\ ~poisoned[want[r].proj] /\ binary[r] = None
  /\ handle[r] # None =>
       /\ binary[handle[r]] # None
       /\ want[handle[r]].proj = want[r].proj
       /\ pc[r] \in {"holding", "waiting", "answered", "gone"}
  /\ pc[r] \in {"new", "asked", "missed", "checked", "taken", "refused"} => binary[r] = None
  /\ binary[r] # None =>
       /\ binary[r].rev <= revision[want[r].proj]
       /\ UnderWay(want[r].proj, {"stored"}) => binary[r].rev < revision[want[r].proj]

RequestInv == \A r \in Requests : RequestOK(r)

(* A generation somebody holds is in the cache of its revision.            *)
GenerationOK(r) ==
  handle[r] # None =>
    LET p == want[r].proj
    IN  /\ binary[handle[r]].rev = revision[p] => cache[p].rev = revision[p]
        /\ binary[handle[r]].rev = cache[p].rev => cache[p].slot["bin"] = handle[r]

GenerationInv == \A r \in Requests : GenerationOK(r)

GotTotal == got = [r \in Requests |-> got[r]]

IInv ==
  /\ TypeOK /\ GotTotal /\ ReducerInv /\ CacheInv /\ RequestInv
  /\ BinariesAreWhole /\ GenerationInv /\ OneBinaryPerRevision

USE SnapshotAssumption DEF SnapshotAssumption

-----------------------------------------------------------------------------
LEMMA NoneFacts == None \notin Snapshot /\ None \notin Nat /\ None \notin Requests
  OBVIOUS

LEMMA InitInv == Init => IInv
<1> SUFFICES ASSUME Init PROVE IInv
  OBVIOUS
<1>1. TypeOK
  BY DEF Init, TypeOK, EmptyCache, Snapshot
<1>2. ReducerInv
  BY DEF Init, ReducerInv, UnderWay, Locked
<1>3. CacheInv
  BY DEF Init, CacheInv, CacheOK, EmptyCache, Texts, Kinds
<1>4. RequestInv /\ GenerationInv /\ OneBinaryPerRevision /\ BinariesAreWhole /\ GotTotal
  BY DEF Init, GotTotal, RequestInv, RequestOK, GenerationInv, GenerationOK, OneBinaryPerRevision, BinariesAreWhole
<1> QED BY <1>1, <1>2, <1>3, <1>4 DEF IInv

-----------------------------------------------------------------------------
(* Steps of the reducer.                                                   *)

Reducing ==
  \/ Mutate \/ Change \/ Store \/ Retire \/ Panic \/ Contain
  \/ \E p \in Projections : Skip(p) \/ Begin(p)

LEMMA BrokenType ==
  ASSUME NEW x \in [rows : Nat, whole : BOOLEAN]
  PROVE  [x EXCEPT !.whole = FALSE] \in [rows : Nat, whole : BOOLEAN]
  OBVIOUS

LEMMA ReducingType == ASSUME IInv, Reducing PROVE TypeOK'
<1> USE DEF IInv, TypeOK, reducer, runners, asking, builds
<1>1. CASE Mutate
  BY <1>1 DEF Mutate
<1>2. CASE Change
  BY <1>2 DEF Change
<1>3. CASE Store
  BY <1>3 DEF Store
<1>4. CASE Retire
  <2>1. EmptyCache \in [rev : Nat \cup {None}, slot : [Kinds -> Snapshot \cup Requests \cup {None}]]
    BY DEF EmptyCache
  <2> QED BY <1>4, <2>1 DEF Retire
<1>5. CASE Panic
  <2>1. current \in Projections /\ phase' = "unwinding" /\ current' = current
    BY <1>5 DEF Panic
  <2>2. rows' \in [Projections -> [rows : Nat, whole : BOOLEAN]]
    BY <1>5, <2>1, BrokenType DEF Panic
  <2>3. poisoned' \in [Projections -> BOOLEAN] /\ panics' \in 0 .. MaxPanics
    BY <1>5, <2>1 DEF Panic
  <2> QED BY <1>5, <2>1, <2>2, <2>3 DEF Panic
<1>6. CASE Contain
  BY <1>6 DEF Contain
<1>7. ASSUME NEW p \in Projections, Skip(p) \/ Begin(p) PROVE TypeOK'
  BY <1>7 DEF Skip, Begin
<1> QED BY <1>1, <1>2, <1>3, <1>4, <1>5, <1>6, <1>7 DEF Reducing

(* The fan-out keeps its books: who is behind, who is poisoned, what each  *)
(* projection holds.                                                       *)
LEMMA ReducingReducer == ASSUME IInv, Reducing PROVE ReducerInv'
<1> USE DEF IInv, TypeOK, reducer, runners, ReducerInv, UnderWay, Locked
<1>1. CASE Mutate
  BY <1>1 DEF Mutate
<1>2. CASE Change
  BY <1>2 DEF Change
<1>3. CASE Store
  BY <1>3 DEF Store
<1>4. CASE Retire
  BY <1>4 DEF Retire
<1>5. CASE Panic
  BY <1>5 DEF Panic
<1>6. CASE Contain
  BY <1>6 DEF Contain
<1>7. ASSUME NEW p \in Projections, Skip(p) PROVE ReducerInv'
  BY <1>7 DEF Skip
<1>8. ASSUME NEW p \in Projections, Begin(p) PROVE ReducerInv'
  BY <1>8 DEF Begin
<1> QED BY <1>1, <1>2, <1>3, <1>4, <1>5, <1>6, <1>7, <1>8 DEF Reducing

(* The cache outlives a panic and dies with its revision.                  *)
LEMMA ReducingCache == ASSUME IInv, Reducing PROVE CacheInv'
<1> USE DEF IInv, TypeOK, reducer, runners, asking, builds, CacheInv, CacheOK, UnderWay, FairText
<1>1. CASE Retire
  BY <1>1 DEF Retire, EmptyCache, Kinds, Texts
<1>2. CASE Store
  BY <1>2 DEF Store
<1>3. CASE Panic
  BY <1>3 DEF Panic
<1>4. CASE Mutate \/ Change \/ Contain
  BY <1>4 DEF Mutate, Change, Contain
<1>5. ASSUME NEW p \in Projections, Skip(p) \/ Begin(p) PROVE CacheInv'
  BY <1>5 DEF Skip, Begin
<1> QED BY <1>1, <1>2, <1>3, <1>4, <1>5 DEF Reducing

(* A writer waits for the readers, so what a reader has stays current.     *)
LEMMA ReducingRequest == ASSUME IInv, Reducing PROVE RequestInv'
<1> USE DEF IInv, TypeOK, reducer, runners, asking, builds, RequestInv, RequestOK, FairText, Locked, UnderWay
<1>1. CASE Store
  <2>1. /\ phase = "changed" /\ phase' = "stored" /\ current' = current
        /\ revision' = [revision EXCEPT ![current] = head]
        /\ UNCHANGED <<pc, want, got, handle, binary, poisoned>>
    BY <1>1 DEF Store
  <2> SUFFICES ASSUME NEW r \in Requests PROVE RequestOK(r)'
    BY DEF RequestInv
  <2>2. /\ want[r].proj \in Projections /\ RequestOK(r) /\ head \in Nat
        /\ revision \in [Projections -> Nat] /\ revision[current] < head
    BY <2>1 DEF ReducerInv
  <2>3. binary[r] # None => binary[r].rev \in Nat
    BY DEF Snapshot
  <2> HIDE DEF IInv, TypeOK, RequestInv
  <2> QED BY <2>1, <2>2, <2>3 DEF RequestOK
<1>2. CASE Panic
  <2>1. /\ phase = "locked" /\ phase' = "unwinding" /\ current' = current
        /\ poisoned' = [poisoned EXCEPT ![current] = TRUE]
        /\ UNCHANGED <<pc, want, got, handle, binary, revision>>
    BY <1>2 DEF Panic
  <2> SUFFICES ASSUME NEW r \in Requests PROVE RequestOK(r)'
    BY DEF RequestInv
  <2>2. want[r].proj \in Projections /\ RequestOK(r) /\ poisoned \in [Projections -> BOOLEAN]
    OBVIOUS
  <2> HIDE DEF IInv, TypeOK, RequestInv
  <2>3. poisoned[want[r].proj] => poisoned'[want[r].proj]
    BY <2>1, <2>2
  <2>4. ~Locked(want[r].proj) => poisoned'[want[r].proj] = poisoned[want[r].proj]
    BY <2>1, <2>2
  <2> QED BY <2>1, <2>2, <2>3, <2>4 DEF RequestOK, Honest
<1>3. CASE Mutate \/ Change \/ Contain \/ Retire
  BY <1>3 DEF Mutate, Change, Contain, Retire
<1>4. ASSUME NEW p \in Projections, Skip(p) PROVE RequestInv'
  BY <1>4 DEF Skip
<1>5. ASSUME NEW p \in Projections, Begin(p) PROVE RequestInv'
  BY <1>5 DEF Begin, Reading
<1> QED BY <1>1, <1>2, <1>3, <1>4, <1>5 DEF Reducing

(* A new revision has no generation yet; the old one's leaves the cache.   *)
LEMMA ReducingGeneration ==
  ASSUME IInv, Reducing
  PROVE  GenerationInv' /\ OneBinaryPerRevision' /\ BinariesAreWhole'
<1>1. UNCHANGED <<asking, builds>>
  BY DEF Reducing, Mutate, Change, Store, Retire, Panic, Contain, Skip, Begin
<1>2. OneBinaryPerRevision' /\ BinariesAreWhole'
  BY <1>1 DEF IInv, OneBinaryPerRevision, BinariesAreWhole, asking, builds
<1>3. GenerationInv'
  <2> USE <1>1 DEF IInv, TypeOK, GenerationInv, GenerationOK, asking, builds
  <2>1. CASE Store
    <3> SUFFICES ASSUME NEW r \in Requests, handle[r] # None
                 PROVE  LET p == want[r].proj
                        IN  /\ binary[handle[r]].rev = revision'[p] => cache'[p].rev = revision'[p]
                            /\ binary[handle[r]].rev = cache'[p].rev => cache'[p].slot["bin"] = handle[r]
      OBVIOUS
    <3>1. binary[handle[r]].rev <= revision[want[r].proj] /\ binary[handle[r]].rev \in Nat
      BY DEF RequestInv, RequestOK, Snapshot
    <3>2. want[r].proj \in Projections
      OBVIOUS
    <3> QED BY <2>1, <3>1, <3>2 DEF Store, ReducerInv
  <2>2. CASE Retire
    <3> SUFFICES ASSUME NEW r \in Requests, handle[r] # None, want[r].proj = current
                 PROVE  binary[handle[r]].rev # revision[current] /\ binary[handle[r]].rev # None
      BY <2>2 DEF Retire, EmptyCache, runners
    <3> QED BY <2>2 DEF Retire, RequestInv, RequestOK, Snapshot, UnderWay
  <2>3. CASE Panic \/ Mutate \/ Change \/ Contain
    BY <2>3 DEF Panic, Mutate, Change, Contain, runners
  <2>4. ASSUME NEW p \in Projections, Skip(p) \/ Begin(p) PROVE GenerationInv'
    BY <2>4 DEF Skip, Begin, runners
  <2> QED BY <2>1, <2>2, <2>3, <2>4 DEF Reducing
<1> QED BY <1>2, <1>3

-----------------------------------------------------------------------------
(* Steps of the requests and of the builders.                              *)

Asking(r) == Ask(r) \/ Serve(r) \/ Build(r) \/ Abort(r)

(* No request touches what the reducer owns.                               *)
LEMMA AskingKeeps ==
  ASSUME NEW r \in Requests, Asking(r)
  PROVE  UNCHANGED <<head, todo, phase, current, panics, rows, revision, poisoned, quarantined, want>>
  BY DEF Asking, Ask, Serve, Build, Abort, LookupText, TakeText, RememberText, LookupBin, CheckBin,
         CaptureBin, RememberBin, Compress, Answer, StartBuild, EndBuild, reducer, runners, asking

LEMMA AskingReducer == ASSUME IInv, NEW r \in Requests, Asking(r) PROVE ReducerInv'
<1>1. UNCHANGED <<head, todo, phase, current, rows, revision, poisoned, quarantined>>
  BY AskingKeeps
<1>2. ReducerInv
  BY DEF IInv
<1> QED BY <1>1, <1>2 DEF ReducerInv, UnderWay, Locked

LEMMA TakenType == ASSUME TypeOK, NEW p \in Projections PROVE Taken(p) \in Snapshot
  BY DEF TypeOK, Taken, Snapshot

CacheType == [Projections -> [rev : Nat \cup {None}, slot : [Kinds -> Snapshot \cup Requests \cup {None}]]]

(* Remembering keeps what the cache holds at that revision.                *)
NowCached(p, k, rev, entry) ==
  /\ cache' \in CacheType
  /\ \A q \in Projections \ {p} : cache'[q] = cache[q]
  /\ cache'[p].rev = rev
  /\ IF cache[p].rev = rev
     THEN /\ \A l \in Kinds \ {k} : cache'[p].slot[l] = cache[p].slot[l]
          /\ cache'[p].slot[k] = IF cache[p].slot[k] = None THEN entry ELSE cache[p].slot[k]
     ELSE /\ \A l \in Kinds \ {k} : cache'[p].slot[l] = None
          /\ cache'[p].slot[k] = entry

LEMMA RememberedSlots ==
  ASSUME TypeOK, NEW p \in Projections, NEW k \in Kinds, NEW rev \in Nat, NEW entry \in Snapshot \cup Requests,
         cache' = Remembered(p, k, rev, entry)
  PROVE  NowCached(p, k, rev, entry)
<1> DEFINE slot == Prepared(p, rev)
           kept == IF slot[k] = None THEN entry ELSE slot[k]
<1>1. slot = IF cache[p].rev = rev THEN cache[p].slot ELSE [l \in Kinds |-> None]
  BY DEF Prepared, EmptyCache
<1>2. slot \in [Kinds -> Snapshot \cup Requests \cup {None}]
  BY <1>1 DEF TypeOK
<1>3. cache' = [cache EXCEPT ![p] = [rev |-> rev, slot |-> [slot EXCEPT ![k] = kept]]]
  BY DEF Remembered
<1>4. cache \in [Projections -> [rev : Nat \cup {None}, slot : [Kinds -> Snapshot \cup Requests \cup {None}]]]
  BY DEF TypeOK
<1> HIDE DEF slot
<1> QED BY <1>1, <1>2, <1>3, <1>4, NoneFacts DEF NowCached, CacheType

PcType == [Requests -> {"new", "asked", "missed", "taken", "checked", "reading", "holding",
                        "waiting", "answered", "refused", "gone"}]
Handled == \A r \in Requests : pc[r] \in {"holding", "waiting"} => handle[r] # None

AskingTypes ==
  /\ cache \in CacheType /\ pc \in PcType
  /\ want \in [Requests -> [kind : Kinds, proj : Projections]]
  /\ handle \in [Requests -> Requests \cup {None}] /\ Handled
  /\ binary \in [Requests -> Snapshot \cup {None}]
  /\ gzip \in [Requests -> {"empty", "queued", "building", "ready", "failed"}]

LEMMA AskingType == ASSUME IInv, NEW r \in Requests, Asking(r) PROVE TypeOK'
<1> DEFINE p == want[r].proj
           k == want[r].kind
<1>1. AskingTypes
  BY DEF IInv, TypeOK, AskingTypes, CacheType, PcType, Handled
<1>2. p \in Projections /\ k \in Kinds
  BY <1>1 DEF AskingTypes
<1> SUFFICES AskingTypes'
  BY AskingKeeps DEF IInv, TypeOK, AskingTypes, CacheType, PcType, Handled
<1> USE <1>1, <1>2 DEF AskingTypes, asking, builds
<1>3. ASSUME NEW l \in {"asked", "missed", "taken", "checked", "reading", "refused", "answered", "gone"},
             pc' = [pc EXCEPT ![r] = l], UNCHANGED <<cache, want, handle, binary, gzip>>
      PROVE  AskingTypes'
  BY <1>3 DEF PcType, Handled
<1>4. CASE Ask(r)
  BY <1>3, <1>4 DEF Ask
<1>5. CASE LookupText(r)
  BY <1>3, <1>5 DEF LookupText
<1>6. CASE CheckBin(r)
  BY <1>3, <1>6 DEF CheckBin
<1>7. CASE TakeText(r)
  BY <1>3, <1>7 DEF TakeText
<1>8. CASE CaptureBin(r)
  BY <1>3, <1>8 DEF CaptureBin
<1>9. CASE Answer(r) \/ Abort(r)
  BY <1>3, <1>9 DEF Answer, Abort
<1>10. CASE LookupBin(r)
  <2>1. CASE Hit(r)
    <3>1. cache[p].slot["bin"] \in Requests
      BY <1>10, <2>1 DEF LookupBin, Hit, CacheInv, CacheOK, IInv
    <3>2. /\ pc' = [pc EXCEPT ![r] = "holding"] /\ handle' = [handle EXCEPT ![r] = cache[p].slot["bin"]]
          /\ UNCHANGED <<cache, want, binary, gzip>>
      BY <1>10, <2>1 DEF LookupBin
    <3> QED BY <3>1, <3>2 DEF PcType, Handled
  <2>2. CASE ~Hit(r)
    BY <1>3, <1>10, <2>2 DEF LookupBin
  <2> QED BY <2>1, <2>2
<1>11. CASE RememberText(r)
  <2>1. got[r] \in Snapshot /\ got[r].rev \in Nat
    BY <1>11 DEF RememberText, RequestInv, RequestOK, FairText, IInv, Snapshot
  <2>2. cache' = cache \/ cache' = Remembered(p, k, got[r].rev, got[r])
    BY <1>11 DEF RememberText
  <2>3. cache' \in CacheType
    BY <2>1, <2>2, RememberedSlots DEF IInv, NowCached
  <2>4. pc' = [pc EXCEPT ![r] = "answered"] /\ UNCHANGED <<want, handle, binary, gzip>>
    BY <1>11 DEF RememberText
  <2> QED BY <2>3, <2>4 DEF PcType, Handled
<1>12. CASE RememberBin(r)
  <2>1. got[r] \in Snapshot /\ got[r].rev = revision[p] /\ got[r].rev \in Nat
    BY <1>12 DEF RememberBin, RequestInv, RequestOK, IInv, Snapshot
  <2>2. /\ cache' = Remembered(p, "bin", got[r].rev, r) /\ handle' = [handle EXCEPT ![r] = cache'[p].slot["bin"]]
        /\ pc' = [pc EXCEPT ![r] = "holding"] /\ binary' = [binary EXCEPT ![r] = got[r]]
        /\ UNCHANGED <<want, gzip>>
    BY <1>12, <2>1 DEF RememberBin
  <2>3. cache[p].slot["bin"] # None => cache[p].slot["bin"] \in Requests
    BY DEF IInv, CacheInv, CacheOK
  <2>4. cache' \in CacheType /\ cache'[p].slot["bin"] \in Requests
    <3>1. "bin" \in Kinds /\ TypeOK
      BY DEF Kinds, IInv
    <3> QED BY ONLY <1>2, <2>1, <2>2, <2>3, <3>1, RememberedSlots DEF NowCached
  <2> QED BY <2>1, <2>2, <2>4 DEF PcType, Handled
<1>13. CASE Compress(r)
  <2>1. /\ pc[r] = "holding" /\ UNCHANGED <<cache, want, handle, binary>>
        /\ pc' = [pc EXCEPT ![r] = IF Settled(handle[r]) THEN "answered" ELSE "waiting"]
        /\ gzip' = [gzip EXCEPT ![handle[r]] = IF @ = "empty" THEN "queued" ELSE @]
    BY <1>13 DEF Compress
  <2> QED BY <2>1 DEF PcType, Handled
<1>14. CASE Build(r)
  <2>1. PICK l \in {"building", "ready", "failed"} : gzip' = [gzip EXCEPT ![r] = l]
    BY <1>14 DEF Build, StartBuild, EndBuild
  <2>2. UNCHANGED <<cache, pc, want, handle, binary>>
    BY <1>14 DEF Build, StartBuild, EndBuild
  <2> QED BY <2>1, <2>2 DEF PcType, Handled
<1> QED
  BY <1>4, <1>5, <1>6, <1>7, <1>8, <1>9, <1>10, <1>11, <1>12, <1>13, <1>14 DEF Asking, Serve

(* What the steps that do not remember leave alone.                        *)
Remembering(r) == RememberText(r) \/ RememberBin(r)

LEMMA OthersLeaveCache ==
  ASSUME NEW r \in Requests, Asking(r), ~Remembering(r) PROVE UNCHANGED <<cache, binary>>
  BY DEF Asking, Remembering, Ask, Serve, Build, Abort, LookupText, TakeText, LookupBin, CheckBin,
         CaptureBin, Compress, Answer, StartBuild, EndBuild, builds

(* A text is remembered at the current revision, or not at all.            *)
LEMMA TextRemembered ==
  ASSUME IInv, NEW r \in Requests, RememberText(r)
  PROVE  LET p == want[r].proj
         IN  /\ p \in Projections /\ want[r].kind \in Texts /\ FairText(got[r], p) /\ got[r].rev \in Nat
             /\ pc[r] = "taken" /\ pc' = [pc EXCEPT ![r] = "answered"]
             /\ UNCHANGED <<handle, binary>>
             /\ \/ /\ revision[p] = got[r].rev
                   /\ NowCached(p, want[r].kind, revision[p], got[r])
                   /\ got' = [got EXCEPT ![r] = cache'[p].slot[want[r].kind]]
                \/ UNCHANGED <<cache, got>>
<1> DEFINE p == want[r].proj
<1>1. p \in Projections
  BY DEF IInv, TypeOK
<1>2. pc[r] = "taken" /\ RequestOK(r)
  BY DEF RememberText, IInv, RequestInv
<1>3. want[r].kind \in Texts /\ FairText(got[r], p) /\ got[r].rev \in Nat
  BY <1>2 DEF RequestOK, FairText, Snapshot
<1>4. cache' = Remembered(p, want[r].kind, got[r].rev, got[r]) => NowCached(p, want[r].kind, got[r].rev, got[r])
  BY <1>1, <1>3, RememberedSlots DEF IInv, FairText, Kinds, Texts
<1> QED BY <1>1, <1>2, <1>3, <1>4 DEF RememberText, builds

(* A generation always is: its reader keeps the writer out.                *)
LEMMA BinRemembered ==
  ASSUME IInv, NEW r \in Requests, RememberBin(r)
  PROVE  LET p == want[r].proj
         IN  /\ p \in Projections /\ want[r].kind = "bin" /\ got[r] \in Snapshot /\ Honest(got[r])
             /\ got[r].rev = revision[p] /\ revision[p] \in Nat /\ ~Locked(p) /\ binary[r] = None
             /\ handle[r] = None
             /\ pc[r] = "reading" /\ pc' = [pc EXCEPT ![r] = "holding"]
             /\ NowCached(p, "bin", revision[p], r)
             /\ handle' = [handle EXCEPT ![r] = cache'[p].slot["bin"]]
             /\ binary' = [binary EXCEPT ![r] = got[r]]
             /\ UNCHANGED got
<1> DEFINE p == want[r].proj
<1>1. p \in Projections /\ revision[p] \in Nat
  BY DEF IInv, TypeOK
<1>2. pc[r] = "reading" /\ RequestOK(r)
  BY DEF RememberBin, IInv, RequestInv
<1>3. /\ want[r].kind = "bin" /\ got[r] \in Snapshot /\ Honest(got[r])
      /\ got[r].rev = revision[p] /\ ~Locked(p) /\ binary[r] = None /\ handle[r] = None
  BY <1>2 DEF RequestOK
<1>4. cache' = Remembered(p, "bin", revision[p], r)
  BY <1>3 DEF RememberBin
<1>5. NowCached(p, "bin", revision[p], r)
  BY <1>1, <1>4, RememberedSlots DEF IInv, Kinds
<1> QED BY <1>1, <1>2, <1>3, <1>5 DEF RememberBin

(* What the slots of a current cache hold after either.                    *)
LEMMA AskingCache == ASSUME IInv, NEW r \in Requests, Asking(r) PROVE CacheInv'
<1> DEFINE p == want[r].proj
<1>1. UNCHANGED <<phase, current, revision, poisoned, want>>
  BY AskingKeeps
<1> SUFFICES ASSUME NEW q \in Projections PROVE CacheOK(q)'
  BY DEF CacheInv
<1>2. CacheOK(q)
  BY DEF IInv, CacheInv
<1>3. ASSUME UNCHANGED <<cache, binary>> PROVE CacheOK(q)'
  BY <1>1, <1>2, <1>3 DEF CacheOK, UnderWay, FairText
<1>4. CASE ~Remembering(r)
  BY <1>3, <1>4, OthersLeaveCache
<1>5. CASE RememberText(r)
  <2>1. CASE NowCached(p, want[r].kind, revision[p], got[r]) /\ revision[p] = got[r].rev
    <3>1. want[r].kind \in Texts /\ FairText(got[r], p) /\ UNCHANGED binary
      BY <1>5, TextRemembered
    <3>2. want[r].kind \in Kinds /\ "bin" \in Kinds \ {want[r].kind} /\ Texts \subseteq Kinds
      BY <3>1 DEF Kinds, Texts
    <3>3. CASE q # p
      BY <1>1, <1>2, <2>1, <3>1, <3>3 DEF CacheOK, UnderWay, FairText, NowCached
    <3>4. CASE q = p
      <4>1. \A l \in Texts : cache'[p].slot[l] # None => FairText(cache'[p].slot[l], p) /\ cache'[p].slot[l].rev = revision[p]
        BY <1>2, <2>1, <3>1, <3>2, <3>4 DEF CacheOK, NowCached
      <4>2. cache'[p].rev = revision[p] /\ revision[p] # None
        BY <2>1, <3>1, NoneFacts DEF NowCached, FairText, Snapshot
      <4>3. cache'[p].slot["bin"] # None => cache'[p].slot["bin"] = cache[p].slot["bin"] /\ cache[p].rev = revision[p]
        BY <2>1, <3>2 DEF NowCached
      <4> QED BY <1>1, <1>2, <3>1, <3>4, <4>1, <4>2, <4>3 DEF CacheOK, UnderWay, FairText
    <3> QED BY <3>3, <3>4
  <2> QED BY <1>3, <1>5, <2>1, TextRemembered
<1>6. CASE RememberBin(r)
  <2>1. /\ NowCached(p, "bin", revision[p], r) /\ got[r].rev = revision[p] /\ got[r] \in Snapshot
        /\ binary[r] = None /\ binary' = [binary EXCEPT ![r] = got[r]]
    BY <1>6, BinRemembered
  <2>2. "bin" \in Kinds /\ Texts \subseteq Kinds \ {"bin"}
    BY DEF Kinds, Texts
  <2>3. binary \in [Requests -> Snapshot \cup {None}]
    BY DEF IInv, TypeOK
  <2>4. CASE q # p
    BY <1>1, <1>2, <2>1, <2>3, <2>4 DEF CacheOK, UnderWay, FairText, NowCached
  <2>5. CASE q = p
    <3>1. \A l \in Texts : cache'[p].slot[l] # None => cache'[p].slot[l] = cache[p].slot[l] /\ cache[p].rev = revision[p]
      BY <2>1, <2>2 DEF NowCached
    <3>2. cache'[p].rev = revision[p] /\ revision[p] # None
      BY <2>1, NoneFacts DEF NowCached, Snapshot
    <3>3. cache'[p].slot["bin"] = r \/ (cache'[p].slot["bin"] = cache[p].slot["bin"] /\ cache[p].rev = revision[p])
      BY <2>1, <2>2 DEF NowCached
    <3>4. binary'[r] # None /\ binary'[r].rev = revision[p]
      BY <2>1, <2>3, NoneFacts
    <3>5. \A h \in Requests \ {r} : binary'[h] = binary[h]
      BY <2>1, <2>3
    <3>6. \A l \in Texts : cache'[p].slot[l] # None => FairText(cache'[p].slot[l], p) /\ cache'[p].slot[l].rev = revision[p]
      BY <1>1, <1>2, <2>5, <3>1 DEF CacheOK, FairText
    <3>7. cache'[p].slot["bin"] # None =>
            /\ cache'[p].slot["bin"] \in Requests
            /\ want[cache'[p].slot["bin"]].proj = p
            /\ binary'[cache'[p].slot["bin"]] # None
            /\ binary'[cache'[p].slot["bin"]].rev = revision[p]
      <4>1. CASE cache'[p].slot["bin"] = r
        BY <3>4, <4>1
      <4>2. CASE cache'[p].slot["bin"] # r
        BY <1>2, <2>5, <3>3, <3>5, <4>2 DEF CacheOK
      <4> QED BY <4>1, <4>2
    <3> QED BY <1>1, <2>5, <3>2, <3>6, <3>7 DEF CacheOK, UnderWay, FairText
  <2> QED BY <2>4, <2>5
<1> QED BY <1>4, <1>5, <1>6 DEF Remembering

LEMMA AskingGot == ASSUME IInv, NEW r \in Requests, Asking(r) PROVE GotTotal'
<1>1. got = [s \in Requests |-> got[s]]
  BY DEF IInv, GotTotal
<1>2. \/ UNCHANGED got
      \/ got' = [got EXCEPT ![r] = got'[r]]
  BY <1>1 DEF Asking, Ask, Serve, Build, Abort, LookupText, TakeText, RememberText, LookupBin, CheckBin,
         CaptureBin, RememberBin, Compress, Answer, StartBuild, EndBuild, asking
<1> QED BY <1>1, <1>2 DEF GotTotal

(* What a request has read stays true of it.                               *)
LEMMA AskingRequest == ASSUME IInv, NEW r \in Requests, Asking(r) PROVE RequestInv'
<1> DEFINE p == want[r].proj
<1>1. /\ UNCHANGED <<phase, current, revision, poisoned, want>>
      /\ p \in Projections /\ RequestOK(r) /\ CacheOK(p)
  BY AskingKeeps DEF IInv, RequestInv, CacheInv, TypeOK
<1>2. /\ pc \in PcType /\ got = [s \in Requests |-> got[s]]
      /\ handle \in [Requests -> Requests \cup {None}] /\ gzip = [s \in Requests |-> gzip[s]]
  BY DEF IInv, TypeOK, PcType, GotTotal
<1> SUFFICES ASSUME NEW s \in Requests PROVE RequestOK(s)'
  BY DEF RequestInv
<1>3. RequestOK(s) /\ want[s].proj \in Projections /\ handle[s] \in Requests \cup {None}
  BY DEF IInv, RequestInv, TypeOK
<1> USE DEF FairText, UnderWay, Locked
<1>4. CASE s # r /\ ~RememberBin(r)
  <2>1. UNCHANGED <<pc[s], got[s], handle[s]>>
    BY <1>2, <1>4 DEF PcType, Asking, Ask, Serve, Build, Abort, LookupText, TakeText, RememberText, LookupBin,
         CheckBin, CaptureBin, Compress, Answer, StartBuild, EndBuild, asking
  <2>2. UNCHANGED binary
    BY <1>4 DEF Asking, Ask, Serve, Build, Abort, LookupText, TakeText, RememberText, LookupBin,
         CheckBin, CaptureBin, Compress, Answer, StartBuild, EndBuild, builds
  <2> QED BY <1>1, <1>3, <2>1, <2>2 DEF RequestOK
<1>5. CASE s = r /\ ~Remembering(r)
  <2>1. UNCHANGED binary
    BY <1>5, OthersLeaveCache
  <2>2. /\ rows[p].rows = revision[p] \/ UnderWay(p, {"changed"})
        /\ rows[p].whole \/ poisoned[p] \/ UnderWay(p, {"changed"})
    BY <1>1 DEF IInv, ReducerInv
  <2>3. Taken(p) \in Snapshot /\ revision[p] \in Nat
    BY <1>1, TakenType DEF IInv, TypeOK
  <2>4. CASE Ask(r)
    BY <1>1, <1>2, <1>5, <2>1, <2>3, <2>4 DEF Ask, PcType, asking, RequestOK
  <2>5. CASE LookupText(r)
    <3>1. Hit(r) => FairText(cache[p].slot[want[r].kind], p)
      BY <1>1, <2>5 DEF LookupText, Hit, CacheOK
    <3> QED BY <1>1, <1>2, <1>5, <2>1, <2>5, <3>1 DEF LookupText, PcType, RequestOK
  <2>6. CASE LookupBin(r)
    <3>1. Hit(r) => LET h == cache[p].slot["bin"]
                    IN  h \in Requests /\ want[h].proj = p /\ binary[h] # None
      BY <1>1, <2>6 DEF LookupBin, Hit, CacheOK
    <3> QED BY <1>1, <1>2, <1>5, <2>1, <2>6, <3>1 DEF LookupBin, PcType, RequestOK
  <2>7. CASE TakeText(r)
    BY <1>1, <1>2, <1>5, <2>1, <2>2, <2>3, <2>7 DEF TakeText, Taken, PcType, RequestOK
  <2>8. CASE CheckBin(r)
    BY <1>1, <1>2, <1>5, <2>1, <2>8 DEF CheckBin, PcType, RequestOK
  <2>9. CASE CaptureBin(r)
    BY <1>1, <1>2, <1>5, <2>1, <2>2, <2>3, <2>9 DEF CaptureBin, Taken, PcType, RequestOK, Honest
  <2>10. CASE Compress(r)
    BY <1>1, <1>2, <1>5, <2>1, <2>10 DEF Compress, PcType, RequestOK, Texts
  <2>11. CASE Answer(r) \/ Abort(r)
    BY <1>1, <1>2, <1>5, <2>1, <2>11 DEF Answer, Abort, PcType, RequestOK, Texts
  <2>12. CASE Build(r)
    BY <1>1, <1>5, <2>1, <2>12 DEF Build, StartBuild, EndBuild, asking, RequestOK
  <2> QED
    BY <1>5, <2>4, <2>5, <2>6, <2>7, <2>8, <2>9, <2>10, <2>11, <2>12 DEF Asking, Serve, Remembering
<1>6. CASE RememberText(r) /\ s = r
  <2>1. /\ want[r].kind \in Texts /\ FairText(got[r], p) /\ pc[r] = "taken"
        /\ pc' = [pc EXCEPT ![r] = "answered"] /\ UNCHANGED <<handle, binary>>
    BY <1>6, TextRemembered
  <2>2. FairText(got'[r], p)
    <3>1. CASE NowCached(p, want[r].kind, revision[p], got[r]) /\ got' = [got EXCEPT ![r] = cache'[p].slot[want[r].kind]]
      <4>1. got'[r] = cache'[p].slot[want[r].kind]
        BY <1>2, <3>1
      <4>2. got'[r] = got[r] \/ (got'[r] = cache[p].slot[want[r].kind] /\ got'[r] # None)
        BY <3>1, <4>1 DEF NowCached
      <4> QED BY <1>1, <2>1, <4>2 DEF CacheOK
    <3> QED BY <1>6, <2>1, <3>1, TextRemembered
  <2> QED BY <1>1, <1>2, <1>6, <2>1, <2>2 DEF PcType, RequestOK
<1>7. CASE RememberBin(r)
  <2>1. /\ want[r].kind = "bin" /\ got[r] \in Snapshot /\ got[r].rev = revision[p] /\ ~Locked(p)
        /\ binary[r] = None /\ binary' = [binary EXCEPT ![r] = got[r]]
        /\ pc' = [pc EXCEPT ![r] = "holding"] /\ UNCHANGED got
        /\ NowCached(p, "bin", revision[p], r)
        /\ handle' = [handle EXCEPT ![r] = cache'[p].slot["bin"]]
    BY <1>7, BinRemembered
  <2>2. binary \in [Requests -> Snapshot \cup {None}] /\ revision \in [Projections -> Nat]
    BY DEF IInv, TypeOK
  <2>3. CASE s # r
    BY <1>1, <1>2, <1>3, <2>1, <2>2, <2>3, NoneFacts DEF PcType, RequestOK
  <2>4. CASE s = r
    <3>1. LET h == handle'[r] IN h \in Requests /\ want[h].proj = p /\ (h = r \/ binary[h] # None)
      BY <1>1, <1>2, <2>1 DEF NowCached, CacheOK
    <3> QED BY <1>1, <1>2, <2>1, <2>2, <2>4, <3>1, NoneFacts DEF PcType, RequestOK
  <2> QED BY <2>3, <2>4
<1> QED BY <1>4, <1>5, <1>6, <1>7 DEF Remembering

LEMMA AskingWhole == ASSUME IInv, NEW r \in Requests, Asking(r) PROVE BinariesAreWhole'
<1>1. BinariesAreWhole /\ binary \in [Requests -> Snapshot \cup {None}]
  BY DEF IInv, TypeOK
<1>2. UNCHANGED binary \/ (Honest(got[r]) /\ binary' = [binary EXCEPT ![r] = got[r]])
  BY OthersLeaveCache, TextRemembered, BinRemembered DEF Remembering
<1> QED BY <1>1, <1>2 DEF BinariesAreWhole, Honest

(* Whoever comes to a generation finds it in the cache of its revision, or *)
(* puts it there; whoever holds one already holds that one.                *)
LEMMA AskingHandle ==
  ASSUME IInv, NEW r \in Requests, Asking(r), ~UNCHANGED handle
  PROVE  LET p == want[r].proj
             h == handle'[r]
         IN  /\ handle' = [handle EXCEPT ![r] = h] /\ h \in Requests
             /\ cache'[p].slot["bin"] = h /\ binary'[h].rev = cache'[p].rev
             /\ LookupBin(r) \/ RememberBin(r)
<1> DEFINE p == want[r].proj
<1>1. handle \in [Requests -> Requests \cup {None}] /\ CacheOK(p) /\ p \in Projections
  BY DEF IInv, TypeOK, CacheInv
<1>2. LookupBin(r) \/ RememberBin(r)
  BY DEF Asking, Ask, Serve, Build, Abort, LookupText, TakeText, RememberText, CheckBin,
         CaptureBin, Compress, Answer, StartBuild, EndBuild, asking
<1>3. CASE LookupBin(r)
  <2>1. Hit(r) /\ handle' = [handle EXCEPT ![r] = cache[p].slot["bin"]] /\ UNCHANGED <<cache, binary>>
        /\ cache[p].slot["bin"] # None
    BY <1>3 DEF LookupBin, builds, Hit
  <2> QED BY <1>1, <1>3, <2>1 DEF CacheOK
<1>4. CASE RememberBin(r)
  <2>1. /\ handle' = [handle EXCEPT ![r] = cache'[p].slot["bin"]] /\ NowCached(p, "bin", revision[p], r)
        /\ binary' = [binary EXCEPT ![r] = got[r]] /\ got[r].rev = revision[p] /\ binary[r] = None
    BY <1>4, BinRemembered
  <2>2. binary \in [Requests -> Snapshot \cup {None}]
    BY DEF IInv, TypeOK
  <2>3. cache'[p].slot["bin"] = r \/ (cache'[p].slot["bin"] = cache[p].slot["bin"] /\ cache[p].rev = revision[p]
                                      /\ cache[p].slot["bin"] # None)
    BY <2>1 DEF NowCached
  <2>4. cache'[p].rev = revision[p]
    BY <2>1 DEF NowCached
  <2> QED BY <1>1, <1>4, <2>1, <2>2, <2>3, <2>4 DEF CacheOK
<1> QED BY <1>2, <1>3, <1>4

(* A generation somebody already holds keeps its place.                    *)
LEMMA HeldGeneration ==
  ASSUME IInv, NEW r \in Requests, Asking(r), NEW s \in Requests, handle[s] # None
  PROVE  LET q == want[s].proj
         IN  /\ UNCHANGED <<revision, want>> /\ binary'[handle[s]] = binary[handle[s]]
             /\ binary[handle[s]].rev = revision[q] => cache'[q].rev = revision[q]
             /\ binary[handle[s]].rev = cache'[q].rev => cache'[q].slot["bin"] = handle[s]
<1> DEFINE q == want[s].proj
           p == want[r].proj
<1>1. /\ GenerationOK(s) /\ RequestOK(s) /\ q \in Projections /\ p \in Projections
      /\ handle[s] \in Requests /\ RequestOK(handle[s])
      /\ binary \in [Requests -> Snapshot \cup {None}]
  BY DEF IInv, GenerationInv, RequestInv, TypeOK
<1>2. UNCHANGED <<revision, want, phase, current>>
  BY AskingKeeps
<1>3. binary[handle[s]] # None /\ want[handle[s]].proj = q
  BY <1>1 DEF RequestOK
<1>4. binary'[handle[s]] = binary[handle[s]]
  <2>1. UNCHANGED binary \/ (binary[r] = None /\ binary' = [binary EXCEPT ![r] = got[r]])
    BY OthersLeaveCache, TextRemembered, BinRemembered DEF Remembering
  <2> QED BY <1>1, <1>3, <2>1
<1>5. UNCHANGED cache \/ \E k \in Kinds, entry \in Snapshot \cup Requests : NowCached(p, k, revision[p], entry) /\ (k = "bin" \/ k \in Texts)
  BY OthersLeaveCache, TextRemembered, BinRemembered DEF Remembering, Kinds, Texts, FairText
<1>6. CASE UNCHANGED cache
  BY <1>1, <1>2, <1>4, <1>6 DEF GenerationOK
<1>7. ASSUME NEW k \in Kinds, NEW entry \in Snapshot \cup Requests, NowCached(p, k, revision[p], entry), q # p
      PROVE  cache'[q] = cache[q]
  BY <1>1, <1>7 DEF NowCached
<1>8. ASSUME NEW k \in Kinds, NEW entry \in Snapshot \cup Requests, NowCached(p, k, revision[p], entry), q = p
      PROVE  /\ cache'[q].rev = revision[q]
             /\ binary[handle[s]].rev = cache'[q].rev => cache'[q].slot["bin"] = handle[s]
  <2>1. "bin" \in Kinds
    BY DEF Kinds
  <2> QED BY <1>1, <1>8, <2>1, NoneFacts DEF NowCached, GenerationOK
<1> QED BY <1>1, <1>2, <1>4, <1>5, <1>6, <1>7, <1>8 DEF GenerationOK

LEMMA AskingGeneration ==
  ASSUME IInv, NEW r \in Requests, Asking(r)
  PROVE  GenerationInv' /\ OneBinaryPerRevision'
<1>1. handle \in [Requests -> Requests \cup {None}]
  BY DEF IInv, TypeOK
<1>2. UNCHANGED <<revision, want>>
  BY AskingKeeps
<1>3. ASSUME NEW s \in Requests, handle'[s] # None PROVE GenerationOK(s)'
  <2>1. CASE handle'[s] = handle[s]
    BY <1>2, <1>3, <2>1, HeldGeneration DEF GenerationOK
  <2>2. CASE handle'[s] # handle[s]
    BY <1>1, <1>2, <2>2, AskingHandle DEF GenerationOK
  <2> QED BY <2>1, <2>2
<1>4. ASSUME NEW s \in Requests, NEW t \in Requests, handle'[s] # None, handle'[t] # None,
             want[s].proj = want[t].proj, binary'[handle'[s]].rev = binary'[handle'[t]].rev
      PROVE  handle'[s] = handle'[t]
  <2>1. ASSUME NEW u \in Requests, handle'[u] # handle[u]
        PROVE  /\ u = r /\ cache'[want[u].proj].slot["bin"] = handle'[u]
               /\ binary'[handle'[u]].rev = cache'[want[u].proj].rev
    BY <1>1, <2>1, AskingHandle
  <2>2. ASSUME NEW u \in Requests, handle'[u] = handle[u], handle[u] # None
        PROVE  /\ binary'[handle'[u]] = binary[handle[u]]
               /\ binary[handle[u]].rev = cache'[want[u].proj].rev => cache'[want[u].proj].slot["bin"] = handle[u]
    BY <2>2, HeldGeneration
  <2>3. OneBinaryPerRevision
    BY DEF IInv
  <2> QED BY <1>4, <2>1, <2>2, <2>3 DEF OneBinaryPerRevision
<1> QED BY <1>2, <1>3, <1>4 DEF GenerationInv, GenerationOK, OneBinaryPerRevision

-----------------------------------------------------------------------------
LEMMA ReducingGot == ASSUME IInv, Reducing PROVE GotTotal'
  BY DEF IInv, GotTotal, Reducing, Mutate, Change, Store, Retire, Panic, Contain, Skip, Begin, asking

LEMMA StutterInv == ASSUME IInv, UNCHANGED vars PROVE IInv'
<1> USE DEF vars, reducer, runners, asking, builds
<1>1. TypeOK' /\ GotTotal' /\ BinariesAreWhole' /\ OneBinaryPerRevision'
  BY DEF IInv, TypeOK, GotTotal, BinariesAreWhole, OneBinaryPerRevision
<1>2. ReducerInv'
  BY DEF IInv, ReducerInv, UnderWay, Locked
<1>3. CacheInv' /\ RequestInv' /\ GenerationInv'
  BY DEF IInv, CacheInv, CacheOK, RequestInv, RequestOK, GenerationInv, GenerationOK, UnderWay, Locked,
         FairText
<1> QED BY <1>1, <1>2, <1>3 DEF IInv

LEMMA StepInv == ASSUME IInv, [Next]_vars PROVE IInv'
<1>1. CASE Reducing
  BY <1>1, ReducingType, ReducingReducer, ReducingCache, ReducingRequest, ReducingGeneration, ReducingGot
     DEF IInv
<1>2. ASSUME NEW r \in Requests, Asking(r) PROVE IInv'
  BY <1>2, AskingType, AskingReducer, AskingCache, AskingRequest, AskingWhole, AskingGeneration, AskingGot
     DEF IInv
<1>3. CASE UNCHANGED vars
  BY <1>3, StutterInv
<1> QED BY <1>1, <1>2, <1>3 DEF Next, Apply, Reducing, Asking

LEMMA Invariance == Spec => []IInv
<1>1. Init => IInv
  BY InitInv
<1>2. IInv /\ [Next]_vars => IInv'
  BY StepInv
<1> QED BY <1>1, <1>2, PTL DEF Spec

(* Every reachable state has the types the code's structures have.         *)
THEOREM TypeCorrect == Spec => []TypeOK
<1>1. IInv => TypeOK
  BY DEF IInv
<1> QED BY <1>1, Invariance, PTL

(* No request is answered with rows its revision does not describe,        *)
(* however its reads of cursor, cache and rows interleave with the reducer.*)
THEOREM AnswersAreConsistent == Spec => []AnswersMatchRevision
<1>1. IInv => AnswersMatchRevision
  BY DEF IInv, RequestInv, RequestOK, FairText, AnswersMatchRevision
<1> QED BY <1>1, Invariance, PTL

(* A compressed generation is never built from half a mutation.            *)
THEOREM GenerationsAreWhole == Spec => []BinariesAreWhole
<1>1. IInv => BinariesAreWhole
  BY DEF IInv
<1> QED BY <1>1, Invariance, PTL

(* Requests that got one projection's binary of one revision share it.     *)
THEOREM GenerationsAreShared == Spec => []OneBinaryPerRevision
<1>1. IInv => OneBinaryPerRevision
  BY DEF IInv
<1> QED BY <1>1, Invariance, PTL

(* Outside a commit the cache holds snapshots of the current revision.     *)
THEOREM CachesAreCurrent == Spec => []CacheIsCurrent
<1>1. IInv => CacheIsCurrent
  BY DEF IInv, CacheInv, CacheOK, UnderWay, Locked, CacheIsCurrent
<1> QED BY <1>1, Invariance, PTL

(* A panic stops one projection: between two mutations all others are at   *)
(* the newest.                                                             *)
THEOREM PanicsAreContained == Spec => []OthersCarryOn
<1>1. ASSUME IInv PROVE OthersCarryOn
  <2> SUFFICES ASSUME phase = "idle", todo = {}, NEW p \in Projections, ~quarantined[p]
               PROVE  Honest(Taken(p)) /\ revision[p] = head
    BY DEF OthersCarryOn
  <2>1. ReducerInv /\ rows[p] \in [rows : Nat, whole : BOOLEAN]
    BY <1>1 DEF IInv, TypeOK
  <2> QED BY <2>1 DEF ReducerInv, UnderWay, Honest, Taken
<1> QED BY <1>1, Invariance, PTL

Frozen(p) ==
  poisoned[p] =>
    /\ rows'[p] = rows[p] /\ revision'[p] = revision[p]
    /\ \A k \in Kinds : cache[p].slot[k] # None => cache'[p].slot[k] = cache[p].slot[k]

LEMMA StepFrozen == ASSUME IInv, [Next]_vars, NEW p \in Projections PROVE Frozen(p)
<1>1. ReducerInv /\ TypeOK /\ CacheOK(p)
  BY DEF IInv, CacheInv
<1>2. CASE Reducing
  <2>1. poisoned[p] => ~Locked(p)
    BY <1>1 DEF ReducerInv, Locked, UnderWay
  <2>2. CASE Change \/ Store \/ Retire
    <3>1. current # p => rows'[p] = rows[p] /\ revision'[p] = revision[p] /\ cache'[p] = cache[p]
      BY <1>1, <2>2 DEF TypeOK, Change, Store, Retire, runners
    <3>2. poisoned[p] => current # p
      BY <2>1, <2>2 DEF Locked, Change, Store, Retire
    <3> QED BY <3>1, <3>2 DEF Frozen
  <2>3. CASE Panic
    BY <1>1, <2>1, <2>3 DEF Frozen, TypeOK, Locked, Panic
  <2>4. CASE ~(Change \/ Store \/ Retire \/ Panic)
    BY <1>2, <2>4 DEF Frozen, Reducing, Mutate, Contain, Skip, Begin, runners
  <2> QED BY <2>2, <2>3, <2>4
<1>3. ASSUME NEW r \in Requests, Asking(r) PROVE Frozen(p)
  <2>1. UNCHANGED <<rows, revision>>
    BY <1>3, AskingKeeps
  <2>2. poisoned[p] => ~UnderWay(p, {"stored"})
    BY <1>1 DEF ReducerInv, Locked, UnderWay
  <2>3. UNCHANGED cache \/ \E q \in Projections, k \in Kinds, entry \in Snapshot \cup Requests :
                             NowCached(q, k, revision[q], entry)
    BY <1>3, OthersLeaveCache, TextRemembered, BinRemembered DEF Remembering, Kinds, Texts, FairText
  <2>4. ASSUME NEW q \in Projections, NEW k \in Kinds, NEW entry \in Snapshot \cup Requests,
               NowCached(q, k, revision[q], entry)
        PROVE  Frozen(p)
    <3>1. CASE q # p
      BY <2>1, <2>4, <3>1 DEF NowCached, Frozen
    <3>2. CASE q = p
      BY <1>1, <2>1, <2>2, <2>4, <3>2 DEF NowCached, Frozen, CacheOK
    <3> QED BY <3>1, <3>2
  <2> QED BY <2>1, <2>3, <2>4 DEF Frozen
<1>4. CASE UNCHANGED vars
  BY <1>4 DEF Frozen, vars, runners
<1> QED BY <1>2, <1>3, <1>4 DEF Next, Apply, Reducing, Asking

(* A frozen projection's rows and revision never change again, nor does a  *)
(* snapshot its cache holds or comes to hold (past_poison, remember_json). *)
THEOREM FrozenStaysFrozen == Spec => FrozenIsFrozen
<1>1. IInv /\ [Next]_vars => [\A p \in Projections : Frozen(p)]_vars
  BY StepFrozen
<1> QED BY <1>1, Invariance, PTL DEF Spec, FrozenIsFrozen, Frozen
=============================================================================
