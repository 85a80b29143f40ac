------------------------- MODULE ProjectionSnapshots -------------------------
(***************************************************************************)
(* The read side of the projections while the reducer fans mutations into  *)
(* them (cknerv-server/src/projection_registry.rs, ProjectionRunner and    *)
(* BinarySnapshot; state.rs, contained): the cache of serialized           *)
(* snapshots, the shared compressed generations, the panic that freezes    *)
(* one projection, and the save of its state.                              *)
(*                                                                         *)
(* A request asks one projection for one representation: the "bare" or     *)
(* "frame" text, or the binary form and its compression.  The cursor and   *)
(* the cache are read without the projection's lock, so every read a       *)
(* request makes is a step of its own.  What a projection holds is the     *)
(* mutation it reached and whether it reached it whole; a snapshot is that *)
(* with the revision its envelope or header claims.  A binary generation   *)
(* is named by the request that built it.  The order of the fan-out is     *)
(* left open.                                                              *)
(*                                                                         *)
(* Some definitions come in pairs: the first is a plausible slip in the    *)
(* second, kept to check that a property notices it; nothing uses it.      *)
(***************************************************************************)
EXTENDS Integers, FiniteSets

CONSTANTS
  Projections,  \* canonical projections of the registry
  Requests,     \* requests made while the process runs
  Wants,        \* what they ask for: a set of [Requests -> [kind, proj]]
  Permits,      \* SNAPSHOT_COMPRESSION_IN_FLIGHT
  None,         \* an empty cache slot
  MaxRevision,  \* bound: mutations
  MaxPanics     \* bound: panics

Texts == {"bare", "frame"}
Kinds == Texts \cup {"bin"}
Snapshot == [rev : Nat, rows : Nat, whole : BOOLEAN]

ASSUME SnapshotAssumption ==
  /\ None \notin Requests \cup Projections \cup Nat \cup Snapshot
  /\ Wants \subseteq [Requests -> [kind : Kinds, proj : Projections]]
  /\ Permits \in Nat \ {0}
  /\ {MaxRevision, MaxPanics} \subseteq Nat

VARIABLES
  \* ServerState::apply_mutation_locked
  head,         \* newest mutation
  todo,         \* projections it has not been fanned into
  phase,        \* the apply under way: idle, locked, changed, stored, unwinding
  current,      \* and its projection
  panics,       \* panics so far
  \* ProjectionRunner
  rows,         \* what the projection holds
  revision,     \* revision
  poisoned,     \* the lock was left by a panic
  quarantined,  \* Quarantine
  cache,        \* SnapshotCache
  \* requests
  pc,           \* where the request is
  want,         \* the kind it asks for, and of which projection
  got,          \* the snapshot it took, or its answer
  handle,       \* its BinarySnapshot
  binary,       \* the generations
  gzip,         \* GzipState of a generation
  \* persistence::save
  save          \* the save under way

reducer == <<head, todo, phase, current, panics>>
runners == <<rows, revision, poisoned, quarantined>>
asking  == <<pc, want, got, handle>>
builds  == <<binary, gzip>>
vars    == <<reducer, runners, cache, asking, builds, save>>

Locked(p) == phase \in {"locked", "changed", "stored"} /\ current = p
Reading(p) == {r \in Requests : pc[r] = "reading" /\ want[r].proj = p}
Taken(p) == [rev |-> revision[p], rows |-> rows[p].rows, whole |-> rows[p].whole]

EmptyCache == [rev |-> None, slot |-> [k \in Kinds |-> None]]
Prepared(p, rev) == IF cache[p].rev = rev THEN cache[p].slot ELSE EmptyCache.slot

Init ==
  /\ head = 0 /\ todo = {} /\ phase = "idle" /\ current = None /\ panics = 0
  /\ rows = [p \in Projections |-> [rows |-> 0, whole |-> TRUE]]
  /\ revision = [p \in Projections |-> 0]
  /\ poisoned = [p \in Projections |-> FALSE]
  /\ quarantined = [p \in Projections |-> FALSE]
  /\ cache = [p \in Projections |-> EmptyCache]
  /\ pc = [r \in Requests |-> "new"]
  /\ want \in Wants
  /\ got = [r \in Requests |-> None]
  /\ handle = [r \in Requests |-> None]
  /\ binary = [r \in Requests |-> None]
  /\ gzip = [r \in Requests |-> "empty"]
  /\ save = [pc |-> "idle", proj |-> None, body |-> None]

-----------------------------------------------------------------------------
(* The reducer: one mutation into every projection, one after the other.   *)

Mutate ==
  /\ phase = "idle" /\ todo = {}
  /\ head < MaxRevision
  /\ head' = head + 1
  /\ todo' = Projections
  /\ UNCHANGED <<phase, current, panics, runners, cache, asking, builds, save>>

(* contained: a quarantined projection is not applied again.               *)
Skip(p) ==
  /\ phase = "idle" /\ p \in todo
  /\ quarantined[p]
  /\ todo' = todo \ {p}
  /\ UNCHANGED <<head, phase, current, panics, runners, cache, asking, builds, save>>

(* Slip: the writer does not wait for the readers.                         *)
BeginUnlocked(p) ==
  /\ phase = "idle" /\ p \in todo
  /\ ~quarantined[p]
  /\ phase' = "locked" /\ current' = p
  /\ todo' = todo \ {p}
  /\ UNCHANGED <<head, panics, runners, cache, asking, builds, save>>

Begin(p) ==
  /\ phase = "idle" /\ p \in todo
  /\ ~quarantined[p]
  /\ Reading(p) = {}
  /\ phase' = "locked" /\ current' = p
  /\ todo' = todo \ {p}
  /\ UNCHANGED <<head, panics, runners, cache, asking, builds, save>>

(* The rows change under the lock; then the cursor moves.                  *)
Change ==
  /\ phase = "locked"
  /\ phase' = "changed"
  /\ rows' = [rows EXCEPT ![current] = [rows |-> head, whole |-> TRUE]]
  /\ UNCHANGED <<head, todo, current, panics, revision, poisoned, quarantined, cache,
                 asking, builds, save>>

Store ==
  /\ phase = "changed"
  /\ phase' = "stored"
  /\ revision' = [revision EXCEPT ![current] = head]
  /\ UNCHANGED <<head, todo, current, panics, rows, poisoned, quarantined, cache,
                 asking, builds, save>>

(* The cached snapshots die with the revision they described.              *)
Retire ==
  /\ phase = "stored"
  /\ phase' = "idle" /\ current' = None
  /\ cache' = [cache EXCEPT ![current] = EmptyCache]
  /\ UNCHANGED <<head, todo, panics, runners, asking, builds, save>>

(* A panic leaves the rows half-way and the lock poisoned ...              *)
Panic ==
  /\ phase = "locked"
  /\ panics < MaxPanics
  /\ panics' = panics + 1
  /\ phase' = "unwinding"
  /\ rows' = [rows EXCEPT ![current].whole = FALSE]
  /\ poisoned' = [poisoned EXCEPT ![current] = TRUE]
  /\ UNCHANGED <<head, todo, current, revision, quarantined, cache, asking, builds, save>>

(* Slip: the panic escapes the fan-out.                                    *)
ContainNothing ==
  /\ phase = "unwinding"
  /\ phase' = "idle" /\ current' = None /\ todo' = {}
  /\ quarantined' = [quarantined EXCEPT ![current] = TRUE]
  /\ UNCHANGED <<head, panics, rows, revision, poisoned, cache, asking, builds, save>>

(* ... and is contained once it has unwound.                               *)
Contain ==
  /\ phase = "unwinding"
  /\ phase' = "idle" /\ current' = None
  /\ quarantined' = [quarantined EXCEPT ![current] = TRUE]
  /\ UNCHANGED <<head, todo, panics, rows, revision, poisoned, cache, asking, builds, save>>

-----------------------------------------------------------------------------
(* A request.  cached_json, cached_bin: the cursor, then the cache.        *)

Ask(r) ==
  /\ pc[r] = "new"
  /\ pc' = [pc EXCEPT ![r] = "asked"]
  /\ got' = [got EXCEPT ![r] = revision[want[r].proj]]
  /\ UNCHANGED <<reducer, runners, cache, want, handle, builds, save>>

(* Slip: the revision's entry is taken for the representation asked for.   *)
HitRevision(r) == cache[want[r].proj].rev = got[r]

Hit(r) ==
  LET c == cache[want[r].proj]
  IN  c.rev = got[r] /\ c.slot[want[r].kind] # None

LookupText(r) ==
  /\ pc[r] = "asked" /\ want[r].kind \in Texts
  /\ IF Hit(r)
     THEN /\ pc' = [pc EXCEPT ![r] = "answered"]
          /\ got' = [got EXCEPT ![r] = cache[want[r].proj].slot[want[r].kind]]
     ELSE /\ pc' = [pc EXCEPT ![r] = "missed"]
          /\ got' = [got EXCEPT ![r] = None]
  /\ UNCHANGED <<reducer, runners, cache, want, handle, builds, save>>

LookupBin(r) ==
  /\ pc[r] = "asked" /\ want[r].kind = "bin"
  /\ IF Hit(r)
     THEN /\ pc' = [pc EXCEPT ![r] = "holding"]
          /\ handle' = [handle EXCEPT ![r] = cache[want[r].proj].slot["bin"]]
     ELSE /\ pc' = [pc EXCEPT ![r] = "missed"]
          /\ UNCHANGED handle
  /\ got' = [got EXCEPT ![r] = None]
  /\ UNCHANGED <<reducer, runners, cache, want, builds, save>>

(* Slip: the snapshot is taken without the read lock.                      *)
TakeTextUnlocked(r) ==
  /\ pc[r] = "missed" /\ want[r].kind \in Texts
  /\ pc' = [pc EXCEPT ![r] = "taken"]
  /\ got' = [got EXCEPT ![r] = Taken(want[r].proj)]
  /\ UNCHANGED <<reducer, runners, cache, want, handle, builds, save>>

(* snapshot_envelope: revision and rows under the read lock, poisoned or   *)
(* not; serialized outside; remembered if the revision is still current.   *)
TakeText(r) ==
  /\ pc[r] = "missed" /\ want[r].kind \in Texts
  /\ ~Locked(want[r].proj)
  /\ pc' = [pc EXCEPT ![r] = "taken"]
  /\ got' = [got EXCEPT ![r] = Taken(want[r].proj)]
  /\ UNCHANGED <<reducer, runners, cache, want, handle, builds, save>>

(* Slip: a later serialization replaces the one that is shared.            *)
RememberedOver(p, k, rev, entry) ==
  [cache EXCEPT ![p] = [rev |-> rev, slot |-> [Prepared(p, rev) EXCEPT ![k] = entry]]]

Remembered(p, k, rev, entry) ==
  LET slot == Prepared(p, rev)
      kept == IF slot[k] = None THEN entry ELSE slot[k]
  IN  [cache EXCEPT ![p] = [rev |-> rev, slot |-> [slot EXCEPT ![k] = kept]]]

(* Slip: the check that the revision is still current is left out.         *)
RememberTextAnyway(r) ==
  LET p == want[r].proj
      k == want[r].kind
  IN  /\ pc[r] = "taken"
      /\ pc' = [pc EXCEPT ![r] = "answered"]
      /\ cache' = Remembered(p, k, got[r].rev, got[r])
      /\ got' = [got EXCEPT ![r] = cache'[p].slot[k]]
      /\ UNCHANGED <<reducer, runners, want, handle, builds, save>>

RememberText(r) ==
  LET p == want[r].proj
      k == want[r].kind
  IN  /\ pc[r] = "taken"
      /\ pc' = [pc EXCEPT ![r] = "answered"]
      /\ IF revision[p] = got[r].rev
         THEN /\ cache' = Remembered(p, k, got[r].rev, got[r])
              /\ got' = [got EXCEPT ![r] = cache'[p].slot[k]]
         ELSE UNCHANGED <<cache, got>>
      /\ UNCHANGED <<reducer, runners, want, handle, builds, save>>

(* snapshot_bin_shared: never from a state a panic left behind.            *)
CheckBin(r) ==
  /\ pc[r] = "missed" /\ want[r].kind = "bin"
  /\ pc' = [pc EXCEPT ![r] = IF quarantined[want[r].proj] \/ poisoned[want[r].proj]
                             THEN "refused" ELSE "checked"]
  /\ UNCHANGED <<reducer, runners, cache, want, got, handle, builds, save>>

(* Slip: a poisoned lock is taken past its poison, as for the text.        *)
CaptureBinPastPoison(r) ==
  /\ pc[r] = "checked"
  /\ ~Locked(want[r].proj)
  /\ pc' = [pc EXCEPT ![r] = "reading"]
  /\ got' = [got EXCEPT ![r] = Taken(want[r].proj)]
  /\ UNCHANGED <<reducer, runners, cache, want, handle, builds, save>>

CaptureBin(r) ==
  /\ pc[r] = "checked"
  /\ ~Locked(want[r].proj)
  /\ IF poisoned[want[r].proj]
     THEN pc' = [pc EXCEPT ![r] = "refused"] /\ UNCHANGED got
     ELSE /\ pc' = [pc EXCEPT ![r] = "reading"]
          /\ got' = [got EXCEPT ![r] = Taken(want[r].proj)]
  /\ UNCHANGED <<reducer, runners, cache, want, handle, builds, save>>

(* The read lock is held until the generation is published.                *)
RememberBin(r) ==
  LET p == want[r].proj
  IN  /\ pc[r] = "reading"
      /\ pc' = [pc EXCEPT ![r] = "holding"]
      /\ binary' = [binary EXCEPT ![r] = got[r]]
      /\ IF revision[p] = got[r].rev
         THEN /\ cache' = Remembered(p, "bin", got[r].rev, r)
              /\ handle' = [handle EXCEPT ![r] = cache'[p].slot["bin"]]
         ELSE /\ handle' = [handle EXCEPT ![r] = r]
              /\ UNCHANGED cache
      /\ UNCHANGED <<reducer, runners, want, got, gzip, save>>

-----------------------------------------------------------------------------
(* BinarySnapshot::gzip.  The first request starts a detached builder, the *)
(* others wait for it; a request may be dropped while it waits.            *)

Building == {h \in Requests : gzip[h] = "building"}
Settled(h) == gzip[h] \in {"ready", "failed"}

Compress(r) ==
  /\ pc[r] = "holding"
  /\ pc' = [pc EXCEPT ![r] = IF Settled(handle[r]) THEN "answered" ELSE "waiting"]
  /\ gzip' = [gzip EXCEPT ![handle[r]] = IF @ = "empty" THEN "queued" ELSE @]
  /\ UNCHANGED <<reducer, runners, cache, want, got, handle, binary, save>>

StartBuild(h) ==
  /\ gzip[h] = "queued"
  /\ Cardinality(Building) < Permits
  /\ gzip' = [gzip EXCEPT ![h] = "building"]
  /\ UNCHANGED <<reducer, runners, cache, asking, binary, save>>

EndBuild(h, result) ==
  /\ gzip[h] = "building"
  /\ gzip' = [gzip EXCEPT ![h] = result]
  /\ UNCHANGED <<reducer, runners, cache, asking, binary, save>>

Answer(r) ==
  /\ pc[r] = "waiting" /\ Settled(handle[r])
  /\ pc' = [pc EXCEPT ![r] = "answered"]
  /\ UNCHANGED <<reducer, runners, cache, want, got, handle, builds, save>>

(* Slip: the build dies with the request that started it.                  *)
AbortBuild(r) ==
  /\ pc[r] = "waiting"
  /\ pc' = [pc EXCEPT ![r] = "gone"]
  /\ gzip' = [gzip EXCEPT ![r] = IF @ \in {"queued", "building"} THEN "dropped" ELSE @]
  /\ UNCHANGED <<reducer, runners, cache, want, got, handle, binary, save>>

Abort(r) ==
  /\ pc[r] = "waiting"
  /\ pc' = [pc EXCEPT ![r] = "gone"]
  /\ UNCHANGED <<reducer, runners, cache, want, got, handle, builds, save>>

-----------------------------------------------------------------------------
(* save_state: the verdict first, then the rows under the read lock.       *)

CheckSave(p) ==
  /\ save.pc = "idle"
  /\ save' = [pc |-> IF quarantined[p] THEN "saved" ELSE "checked", proj |-> p, body |-> None]
  /\ UNCHANGED <<reducer, runners, cache, asking, builds>>

ReadSave ==
  /\ save.pc = "checked"
  /\ ~Locked(save.proj)
  /\ save' = [save EXCEPT !.pc = "saved", !.body = rows[save.proj]]
  /\ UNCHANGED <<reducer, runners, cache, asking, builds>>

-----------------------------------------------------------------------------
Apply ==
  \/ Mutate \/ Change \/ Store \/ Retire \/ Panic \/ Contain
  \/ \E p \in Projections : Skip(p) \/ Begin(p)

Serve(r) ==
  \/ LookupText(r) \/ TakeText(r) \/ RememberText(r)
  \/ LookupBin(r) \/ CheckBin(r) \/ CaptureBin(r) \/ RememberBin(r)
  \/ Compress(r) \/ Answer(r)

Build(h) == StartBuild(h) \/ \E result \in {"ready", "failed"} : EndBuild(h, result)

Save == ReadSave \/ \E p \in Projections : CheckSave(p)

Next ==
  \/ Apply
  \/ \E r \in Requests : Ask(r) \/ Serve(r) \/ Build(r) \/ Abort(r)

Spec == Init /\ [][Next]_vars

SpecWithSave == Init /\ [][Next \/ Save]_vars

(* Threads and tasks run; nobody has to ask, to mutate or to panic.        *)
Finishes == Change \/ Store \/ Retire \/ Contain \/ \E p \in Projections : Skip(p) \/ Begin(p)
FairSpec ==
  /\ Spec
  /\ WF_vars(Finishes)
  /\ \A r \in Requests : WF_vars(Serve(r)) /\ WF_vars(Build(r))

-----------------------------------------------------------------------------
Gone == {"new", "answered", "refused", "gone"}

TypeOK ==
  /\ head \in 0 .. MaxRevision /\ todo \subseteq Projections /\ panics \in 0 .. MaxPanics
  /\ phase \in {"idle", "locked", "changed", "stored", "unwinding"}
  /\ IF phase = "idle" THEN current = None ELSE current \in Projections
  /\ rows \in [Projections -> [rows : Nat, whole : BOOLEAN]]
  /\ revision \in [Projections -> Nat]
  /\ poisoned \in [Projections -> BOOLEAN] /\ quarantined \in [Projections -> BOOLEAN]
  /\ cache \in [Projections -> [rev : Nat \cup {None}, slot : [Kinds -> Snapshot \cup Requests \cup {None}]]]
  /\ pc \in [Requests -> {"new", "asked", "missed", "taken", "checked", "reading", "holding",
                          "waiting", "answered", "refused", "gone"}]
  /\ want \in [Requests -> [kind : Kinds, proj : Projections]]
  /\ handle \in [Requests -> Requests \cup {None}]
  /\ \A r \in Requests : pc[r] \in {"holding", "waiting"} => handle[r] # None
  /\ binary \in [Requests -> Snapshot \cup {None}]
  /\ gzip \in [Requests -> {"empty", "queued", "building", "ready", "failed"}]

(* A snapshot holds exactly what its revision says.                        *)
Honest(s) == s.whole /\ s.rows = s.rev

(* No request is given rows its revision does not describe, from whatever  *)
(* interleaving of cursor, cache and rows its answer was put together; the *)
(* text of a projection frozen in the middle of a mutation is the only     *)
(* exception, and its revision is the last whole one.                      *)
AnswersMatchRevision ==
  \A r \in Requests : pc[r] \in {"taken", "answered"} /\ want[r].kind \in Texts =>
    /\ got[r].rows = got[r].rev
    /\ got[r].whole \/ poisoned[want[r].proj]

(* A binary generation is whole, panic or not.                             *)
BinariesAreWhole == \A h \in Requests : binary[h] # None => Honest(binary[h])

(* Outside a commit the cache holds nothing that cannot be served any more.*)
CacheIsCurrent ==
  \A p \in Projections :
    ~Locked(p) => cache[p].rev \in {None, revision[p]}

(* Requests that got one projection's binary of one revision share it, and *)
(* with it its one build.                                                  *)
OneBinaryPerRevision ==
  \A r, s \in Requests :
    /\ handle[r] # None /\ handle[s] # None
    /\ want[r].proj = want[s].proj
    /\ binary[handle[r]].rev = binary[handle[s]].rev
    => handle[r] = handle[s]

(* A panic stops its own projection only: between two mutations every      *)
(* other one is at the newest.                                             *)
OthersCarryOn ==
  phase = "idle" /\ todo = {} =>
    \A p \in Projections : ~quarantined[p] => Honest(Taken(p)) /\ revision[p] = head

(* The rows and the revision of a frozen projection never change, nor does *)
(* a snapshot once the cache holds it.  An empty slot can still be filled, *)
(* with a text serialized from the rows as the panic left them.            *)
FrozenIsFrozen ==
  [][\A p \in Projections : poisoned[p] =>
       /\ rows'[p] = rows[p] /\ revision'[p] = revision[p]
       /\ \A k \in Kinds : cache[p].slot[k] # None =>
            cache'[p].slot[k] = cache[p].slot[k]]_vars

(* Every request ends: no wait on a lock, a permit or an abandoned build   *)
(* is for ever.                                                            *)
EveryRequestEnds == \A r \in Requests : pc[r] \notin Gone ~> pc[r] \in Gone

(* projection_registry.rs, save_state: a half-applied state is not written *)
(* to disk.                                                                *)
SavedIsWhole == save.body # None => save.body.whole
=============================================================================
