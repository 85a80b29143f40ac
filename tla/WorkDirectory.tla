---------------------------- MODULE WorkDirectory ----------------------------
(***************************************************************************)
(* The work directory across lives of the server: the save that writes a   *)
(* temporary file, flushes it and renames it over the last one, the two    *)
(* writers that share it (the boot checkpoint and the save on exit), what  *)
(* the next boot makes of the file it finds (persistence.rs), and how the  *)
(* command line decides whether to make anything of it (cknerv-cli         *)
(* server.rs).  Lives end by an exit, a kill or a power failure, and the   *)
(* next one may be of another build.                                       *)
(*                                                                         *)
(* Derived state is its revision and its Cell reservoir: how many Cells it *)
(* holds, and the target it says it was hydrated for.  The halves of a     *)
(* save are captured together here: what a mutation between them does is   *)
(* the matter of CellPipeline.                                             *)
(***************************************************************************)
EXTENDS Naturals

CONSTANTS
  Builds,        \* what may be run: [schema |-> ..., cap |-> ...]
  Hosts,         \* who starts the server: the command line, an embedder
  MaxRevision, MaxLives   \* bounds of the model

ASSUME WorkDirectoryAssumption ==
  /\ \A b \in Builds : b.schema \in Nat \ {0} /\ b.cap \in Nat \ {0}
  /\ Hosts \subseteq {"cli", "embedder"}
  /\ MaxRevision \in Nat /\ MaxLives \in Nat

VARIABLES
  dir,      \* the directory: the live file, the temporary one, those aside
  settled,  \* the directory as the disk is known to have taken it
  life,     \* the running server, or Down
  savers,   \* what each writer holds and how far it is
  lives,    \* lives so far
  promised  \* revision of the last save that was safe when it returned; or 0

vars == <<dir, settled, life, savers, lives, promised>>

Writers == {"checkpoint", "exit"}
NoFile == [whole |-> FALSE]
Down == [revision |-> 0]
NoCursor == [revision |-> 0, target |-> 0]

Up == life # Down
Idle == [at |-> "idle"]
SaveLock == \A w \in Writers : savers[w].at = "idle"

---------------------------------------------------------------------------
(* What a boot makes of the live file *)

Exists(d) == d.live # NoFile
SchemaOf(d) == d.live.schema

\* peek_restored_chain_cursor: a file of this schema, or no cursor at all.
Peek(d, build) ==
  IF Exists(d) /\ d.live.whole /\ SchemaOf(d) = build.schema
  THEN [revision |-> d.live.revision, target |-> d.live.target]
  ELSE NoCursor

RestoreAlways(host, build, cursor, override) ==
  host = "embedder" \/ (~override /\ cursor # NoCursor)

\* The decision of the command line; an embedder keeps the builder's default.
RestorePersisted(host, build, cursor, override) ==
  \/ host = "embedder"
  \/ ~override /\ cursor # NoCursor /\ cursor.target >= build.cap

\* persistence::load: what it leaves in the directory, if the file system
\* lets it: a rename or a removal that fails leaves the file where it is.
Discard(d) == [d EXCEPT !.live = NoFile]
SetAside(d) == [d EXCEPT !.live = NoFile, !.aside = @ \cup {SchemaOf(d)}]
AfterLoadDiscarding(d, build) ==
  IF ~Exists(d) \/ (d.live.whole /\ SchemaOf(d) = build.schema)
  THEN d ELSE Discard(d)
AfterLoad(d, build) ==
  CASE ~Exists(d)                  -> d
    [] Exists(d) /\ ~d.live.whole  -> Discard(d)
    [] Exists(d) /\ d.live.whole /\ SchemaOf(d) > build.schema -> SetAside(d)
    [] Exists(d) /\ d.live.whole /\ SchemaOf(d) < build.schema -> Discard(d)
    [] OTHER                       -> d
Restores(d, build) ==
  Exists(d) /\ d.live.whole /\ SchemaOf(d) = build.schema

\* The reservoir of a restored galaxy: its next enforce_cap evicts what is
\* above the cap, and leaves the target it was saved with.
AtMost(n, cap) == IF n > cap THEN cap ELSE n
Restored(d, build) ==
  [revision |-> d.live.revision, held |-> AtMost(d.live.held, build.cap),
   target |-> d.live.target]
Empty == [revision |-> 0, held |-> 0, target |-> 0]

LoadsRegardless(restore, d, build) == Restores(d, build)
Loads(restore, d, build) == restore /\ Restores(d, build)

Boot(build, host, override) ==
  LET cursor  == Peek(dir, build)
      restore == RestorePersisted(host, build, cursor, override)
      loaded  == Loads(restore, dir, build)
      state   == IF loaded THEN Restored(dir, build) ELSE Empty
  IN
  /\ ~Up /\ lives < MaxLives
  /\ lives' = lives + 1
  /\ life' = [build |-> build, host |-> host, state |-> state,
              resumed |-> host = "cli" /\ restore, loaded |-> loaded,
              bounded |-> override, replayed |-> FALSE, broken |-> FALSE,
              checkpointed |-> FALSE, exit |-> "no"]
  /\ dir' \in IF restore THEN {dir, AfterLoad(dir, build)} ELSE {dir}
  /\ promised' = IF loaded THEN promised ELSE 0
  /\ UNCHANGED <<settled, savers>>

---------------------------------------------------------------------------
(* A life *)

Change(state) == life' = [life EXCEPT !.state = state]

\* A mutation applied to every projection.
Apply ==
  /\ Up /\ life.state.revision < MaxRevision
  /\ Change([life.state EXCEPT !.revision = @ + 1])
  /\ UNCHANGED <<dir, settled, savers, lives, promised>>

\* What a hydration leaves: the whole target, unless an override of the
\* replay bounded it; what it met short of the target is not counted.
Hydrations(l) ==
  [held : {l.build.cap}, target : {l.build.cap}]
    \cup IF l.bounded THEN {[held |-> 0, target |-> 0]} ELSE {}

Hydrate(h) ==
  [revision |-> life.state.revision + 1, held |-> h.held, target |-> h.target]

\* The replay of a boot that resumed nothing closes.
ReplayCloses(h) ==
  /\ Up /\ ~life.resumed /\ ~life.replayed /\ life.state.revision < MaxRevision
  /\ life' = [life EXCEPT !.replayed = TRUE, !.state = Hydrate(h)]
  /\ UNCHANGED <<dir, settled, savers, lives, promised>>

\* A branch too deep to follow: CanonicalReset empties the galaxy, and the
\* hydration after it fills it again.
Reset ==
  /\ Up /\ life.state.held > 0 /\ life.state.revision < MaxRevision
  /\ Change([revision |-> life.state.revision + 1, held |-> 0, target |-> 0])
  /\ UNCHANGED <<dir, settled, savers, lives, promised>>

Rehydrate(h) ==
  /\ Up /\ life.state.held = 0 /\ life.state.revision < MaxRevision
  /\ life.replayed \/ life.resumed
  /\ Change(Hydrate(h))
  /\ UNCHANGED <<dir, settled, savers, lives, promised>>

\* The galaxy panics and is quarantined: from now on it saves nothing.
Quarantine ==
  /\ Up /\ ~life.broken
  /\ life' = [life EXCEPT !.broken = TRUE]
  /\ UNCHANGED <<dir, settled, savers, lives, promised>>

---------------------------------------------------------------------------
(* A save *)

Persisted(l) ==
  [schema |-> l.build.schema, revision |-> l.state.revision,
   held |-> IF l.broken THEN 0 ELSE l.state.held,
   target |-> IF l.broken THEN 0 ELSE l.state.target,
   whole |-> FALSE, synced |-> FALSE]

\* Who may start one: the checkpoint once per life, after the boot replay;
\* the exit once, whenever the process is told to stop.
MayStart(w) ==
  \/ w = "checkpoint" /\ life.replayed /\ ~life.checkpointed
  \/ w = "exit" /\ life.exit = "no"
Started(w) ==
  IF w = "checkpoint" THEN [life EXCEPT !.checkpointed = TRUE]
                      ELSE [life EXCEPT !.exit = "saving"]

\* Under the save lock: capture, and create the temporary file (truncating
\* whatever a dead process left there).
MayLockAnyway == TRUE
MayLock == SaveLock

BeginSave(w) ==
  /\ Up /\ MayStart(w) /\ MayLock
  /\ life' = Started(w)
  /\ savers' = [savers EXCEPT ![w] = [at |-> "created", file |-> Persisted(life)]]
  /\ dir' = [dir EXCEPT !.tmp = Persisted(life)]
  /\ UNCHANGED <<settled, lives, promised>>

Steps == [created |-> "written", written |-> "synced", synced |-> "renamed"]
Proceed(w) == savers' = [savers EXCEPT ![w].at = Steps[@]]

\* write_all
WriteAll(w) ==
  /\ Up /\ savers[w].at = "created" /\ dir.tmp # NoFile
  /\ dir' = [dir EXCEPT !.tmp = [savers[w].file EXCEPT !.whole = TRUE]]
  /\ Proceed(w)
  /\ UNCHANGED <<settled, life, lives, promised>>

FlushedNot(file) == file
Flushed(file) == [file EXCEPT !.synced = TRUE]

\* sync_all
SyncAll(w) ==
  /\ Up /\ savers[w].at = "written" /\ dir.tmp # NoFile
  /\ dir' = [dir EXCEPT !.tmp = Flushed(@)]
  /\ Proceed(w)
  /\ UNCHANGED <<settled, life, lives, promised>>

Rename(w) ==
  /\ Up /\ savers[w].at = "synced" /\ dir.tmp # NoFile
  /\ dir' = [dir EXCEPT !.live = dir.tmp, !.tmp = NoFile]
  /\ Proceed(w)
  /\ UNCHANGED <<settled, life, lives, promised>>

\* The save returns, Ok or not, and its caller carries on.
Release(w) ==
  /\ savers' = [savers EXCEPT ![w] = Idle]
  /\ life' = IF w = "exit" THEN [life EXCEPT !.exit = "saved"] ELSE life

\* The directory itself is flushed, where the platform lets it be.
OnDiskBefore == settled
OnDisk == dir

SyncDirectory(w, flushed) ==
  /\ Up /\ savers[w].at = "renamed"
  /\ settled' = IF flushed THEN OnDisk ELSE settled
  /\ promised' = IF flushed THEN savers[w].file.revision ELSE promised
  /\ Release(w)
  /\ UNCHANGED <<dir, lives>>

\* create, write_all, sync_all or rename fails, and ? returns the error.
SaveFails(w) ==
  /\ Up /\ savers[w].at \in DOMAIN Steps
  /\ Release(w)
  /\ UNCHANGED <<dir, settled, lives, promised>>

---------------------------------------------------------------------------
(* The end of a life *)

Ended == life' = Down /\ savers' = [w \in Writers |-> Idle]

\* The blocking save of a checkpoint is waited for.
Exit ==
  /\ Up /\ life.exit = "saved" /\ SaveLock
  /\ Ended
  /\ UNCHANGED <<dir, settled, lives, promised>>

Kill ==
  /\ Up
  /\ Ended
  /\ UNCHANGED <<dir, settled, lives, promised>>

\* The disk takes the directory in its own time.
Settle ==
  /\ settled # dir
  /\ settled' = dir
  /\ UNCHANGED <<dir, life, savers, lives, promised>>

\* The machine stops: the directory is one the disk may have taken, and a
\* file whose bytes were not flushed may have kept its entry only.
Survivors(d) ==
  LET torn == [d EXCEPT !.live.whole = FALSE]
  IN IF Exists(d) /\ ~d.live.synced THEN {d, torn} ELSE {d}

PowerFails ==
  \E d \in Survivors(dir) \cup Survivors(settled) :
    /\ Ended
    /\ dir' = [d EXCEPT !.tmp = NoFile] /\ settled' = dir'
    /\ UNCHANGED <<lives, promised>>

---------------------------------------------------------------------------
Init ==
  /\ dir = [live |-> NoFile, tmp |-> NoFile, aside |-> {}]
  /\ settled = dir
  /\ life = Down
  /\ savers = [w \in Writers |-> Idle]
  /\ lives = 0 /\ promised = 0

Boots == \E b \in Builds, h \in Hosts, o \in BOOLEAN : Boot(b, h, o)
Lives ==
  \/ Apply \/ Reset \/ Quarantine
  \/ Up /\ \E h \in Hydrations(life) : ReplayCloses(h) \/ Rehydrate(h)
Saves ==
  \E w \in Writers :
    \/ BeginSave(w) \/ WriteAll(w) \/ SyncAll(w) \/ Rename(w) \/ SaveFails(w)
    \/ \E flushed \in BOOLEAN : SyncDirectory(w, flushed)
Ends == Exit \/ Kill \/ Settle \/ PowerFails

Next == Boots \/ Lives \/ Saves \/ Ends
Spec == Init /\ [][Next]_vars

---------------------------------------------------------------------------
(* Properties *)

Files == [schema : {b.schema : b \in Builds}, revision : 0..MaxRevision,
          held : Nat, target : Nat, whole : BOOLEAN, synced : BOOLEAN]
Directories == [live : Files \cup {NoFile}, tmp : Files \cup {NoFile},
                aside : SUBSET {b.schema : b \in Builds}]
\* The variables have their types.
TypeOK ==
  /\ dir \in Directories /\ settled \in Directories
  /\ \A w \in Writers : savers[w] = Idle \/
       /\ savers[w].at \in {"created", "written", "synced", "renamed"}
       /\ savers[w].file \in Files
  /\ lives \in 0..MaxLives /\ promised \in 0..MaxRevision

\* Whatever ended a life, and wherever its saves were, the live file is the
\* whole of some save: never half of one, and never an entry with nothing
\* behind it.
LiveFileIsWhole == Exists(dir) => dir.live.whole

\* A save that returned with its directory flushed is not lost to a later
\* crash, nor to a later save of the same state that failed or was
\* overtaken: until a boot starts over, the live file is at least as recent.
SavedIsKept == promised > 0 => Exists(dir) /\ dir.live.revision >= promised

\* The adapter and the server agree about the life that starts: the one
\* skips the boot replay exactly when the other has hydrated the file, and
\* a reservoir that nobody replays is the one this build asks for, whatever
\* the last life was in the middle of when it was saved.
ResumesWhatItLoaded ==
  [][~Up /\ Up' /\ life'.host = "cli" =>
       /\ life'.resumed = life'.loaded
       /\ life'.resumed => life'.state.held = life'.build.cap]_vars

\* The file a newer schema wrote: still live, or aside under its own name.
KeepsNewer ==
  Exists(dir) /\ dir.live.whole /\ SchemaOf(dir) > life'.build.schema =>
    dir'.live = dir.live \/ SchemaOf(dir) \in dir'.aside

\* A load never destroys the save of a newer schema.
LoadKeepsNewer == [][~Up /\ Up' => KeepsNewer]_vars

\* "The one file that is never discarded is one a NEWER schema wrote"
\* (persistence.rs).  Violated: the command line takes the file for absent,
\* no load sets it aside, and the boot checkpoint renames over it.
NewerIsKept == [][Up' => KeepsNewer]_vars
=============================================================================
