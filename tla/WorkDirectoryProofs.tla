------------------------- MODULE WorkDirectoryProofs -------------------------
(***************************************************************************)
(* Proofs about WorkDirectory, for any builds, hosts and bounds.           *)
(*                                                                         *)
(* That the live file is whole is not inductive: it needs to be flushed    *)
(* when it is renamed, which the one save under way knows of the temporary *)
(* file (SaveOK), and there is only one (OneSave).  That a promised save   *)
(* is kept needs the state to be at least as recent as the promise         *)
(* (PromiseInv), or a later save would take it back.                       *)
(***************************************************************************)
EXTENDS WorkDirectory, TLAPS

States == [revision : 0..MaxRevision, held : Nat, target : Nat]
Lifetimes ==
  [build : Builds, host : Hosts, state : States, resumed : BOOLEAN,
   loaded : BOOLEAN, bounded : BOOLEAN, replayed : BOOLEAN, broken : BOOLEAN,
   checkpointed : BOOLEAN, exit : {"no", "saving", "saved"}]
Savings == [at : {"created", "written", "synced", "renamed"}, file : Files]

TypeInv ==
  /\ dir \in Directories /\ settled \in Directories
  /\ life \in Lifetimes \cup {Down}
  /\ savers \in [Writers -> Savings \cup {Idle}]
  /\ lives \in 0..MaxLives /\ promised \in 0..MaxRevision

Active(w) == savers[w] # Idle

OneSave ==
  /\ \A w \in Writers : Active(w) => Up
  /\ \A v, w \in Writers : Active(v) /\ Active(w) => v = w

\* A file that no power failure can tear.
Flat(f) == f # NoFile => f.whole /\ f.synced

SaveOK(w) ==
  /\ savers[w].at \in {"written", "synced"} /\ dir.tmp # NoFile =>
       dir.tmp.whole /\ dir.tmp.revision = savers[w].file.revision
  /\ savers[w].at = "synced" /\ dir.tmp # NoFile => dir.tmp.synced
  /\ savers[w].at = "renamed" =>
       Exists(dir) /\ dir.live.revision = savers[w].file.revision

FileInv == Flat(dir.live) /\ Flat(settled.live) /\ \A w \in Writers : Active(w) => SaveOK(w)

Keeps(d) == promised > 0 => Exists(d) /\ d.live.revision >= promised

PromiseInv ==
  /\ Keeps(dir) /\ Keeps(settled)
  /\ Up => life.state.revision >= promised
  /\ \A w \in Writers : Active(w) =>
       /\ savers[w].file.revision >= promised
       /\ savers[w].file.revision <= life.state.revision

IInv == TypeInv /\ OneSave /\ FileInv /\ PromiseInv

-----------------------------------------------------------------------------
(* Facts about the values. *)

\* A lifetime is not Down: a boot is seen.
LEMMA LifetimesAreUp == ASSUME NEW l \in Lifetimes PROVE l # Down
<1>1. "build" \in DOMAIN l
  BY DEF Lifetimes
<1>2. "build" \notin DOMAIN Down
  BY DEF Down
<1> QED BY <1>1, <1>2

LEMMA FilesAreFiles == ASSUME NEW f \in Files PROVE f # NoFile
<1>1. "schema" \in DOMAIN f
  BY DEF Files
<1>2. "schema" \notin DOMAIN NoFile
  BY DEF NoFile
<1> QED BY <1>1, <1>2

LEMMA SavingsAreBusy == ASSUME NEW s \in Savings PROVE s # Idle /\ s.at # "idle"
<1>1. "file" \in DOMAIN s
  BY DEF Savings
<1>2. "file" \notin DOMAIN Idle
  BY DEF Idle
<1> QED BY <1>1, <1>2 DEF Savings

\* What a save captures is a file.
LEMMA PersistedIsAFile ==
  ASSUME NEW l \in Lifetimes
  PROVE  Persisted(l) \in Files /\ Persisted(l).revision = l.state.revision
BY WorkDirectoryAssumption DEF Lifetimes, States, Files, Persisted

\* The save lock is free exactly when nobody saves.
LEMMA LockIsFree ==
  ASSUME TypeInv
  PROVE  \A w \in Writers : savers[w].at = "idle" <=> ~Active(w)
BY SavingsAreBusy DEF TypeInv, Active, Idle

\* A load leaves the live file or nothing.
LEMMA LoadKeepsOrClears ==
  ASSUME NEW d \in Directories, NEW b \in Builds
  PROVE  /\ AfterLoad(d, b) \in Directories
         /\ AfterLoad(d, b).live \in {d.live, NoFile}
         /\ Restores(d, b) => AfterLoad(d, b) = d
<1>1. Discard(d) \in Directories /\ Discard(d).live = NoFile
  BY DEF Discard, Directories
<1>2. Exists(d) => SetAside(d) \in Directories /\ SetAside(d).live = NoFile
  BY DEF SetAside, Directories, Exists, SchemaOf, Files
<1>3. SchemaOf(d) = b.schema => ~(SchemaOf(d) < b.schema) /\ ~(SchemaOf(d) > b.schema)
  BY WorkDirectoryAssumption DEF SchemaOf
<1> QED BY <1>1, <1>2, <1>3 DEF AfterLoad, Restores

-----------------------------------------------------------------------------
(* Steps that leave the files and the savers alone. *)

\* A running server's state moves forward.
LEMMA LifeStep ==
  ASSUME IInv, Up, life' \in Lifetimes, life.state.revision <= life'.state.revision,
         UNCHANGED <<dir, settled, savers, lives, promised>>
  PROVE  IInv'
<1>1. TypeInv'
  BY DEF IInv, TypeInv
<1>2. OneSave'
  BY LifetimesAreUp DEF IInv, OneSave, Up, Active
<1>3. FileInv'
  BY DEF IInv, FileInv, Active, SaveOK, Exists
<1>4. PromiseInv'
  <2>1. life \in Lifetimes /\ life.state \in States /\ life'.state \in States
    BY DEF IInv, TypeInv, Up, Lifetimes
  <2>2. ASSUME NEW w \in Writers, Active(w)
        PROVE  savers[w].file.revision \in Nat
    BY <2>2 DEF IInv, TypeInv, Active, Savings, Files
  <2> QED BY <2>1, <2>2 DEF IInv, PromiseInv, TypeInv, Keeps, Exists, Up, Active, States
<1> QED BY <1>1, <1>2, <1>3, <1>4 DEF IInv

LEMMA HydrationsAreStates ==
  ASSUME life \in Lifetimes, life.state.revision < MaxRevision, NEW h \in Hydrations(life)
  PROVE  /\ Hydrate(h) \in States
         /\ life.state.revision <= Hydrate(h).revision
<1>1. h.held \in Nat /\ h.target \in Nat
  BY WorkDirectoryAssumption DEF Hydrations, Lifetimes
<1>2. life.state.revision \in 0..MaxRevision
  BY DEF Lifetimes, States
<1> QED BY <1>1, <1>2, WorkDirectoryAssumption DEF Hydrate, States

LEMMA LivesStep == ASSUME IInv, Lives PROVE IInv'
<1>1. CASE Apply
  <2>1. life \in Lifetimes /\ life.state \in States
    BY <1>1 DEF Apply, Up, IInv, TypeInv, Lifetimes
  <2>2. life'.state \in States /\ life.state.revision <= life'.state.revision
        /\ life' \in Lifetimes
    BY <1>1, <2>1, WorkDirectoryAssumption DEF Apply, Change, States, Lifetimes
  <2> QED BY <1>1, <2>2, LifeStep DEF Apply
<1>2. CASE Reset
  <2>1. life \in Lifetimes /\ life.state \in States
    BY <1>2 DEF Reset, Up, IInv, TypeInv, Lifetimes
  <2>2. life'.state \in States /\ life.state.revision <= life'.state.revision
        /\ life' \in Lifetimes
    BY <1>2, <2>1, WorkDirectoryAssumption DEF Reset, Change, States, Lifetimes
  <2> QED BY <1>2, <2>2, LifeStep DEF Reset
<1>3. CASE Quarantine
  <2>1. life \in Lifetimes
    BY <1>3 DEF Quarantine, Up, IInv, TypeInv
  <2>2. life' \in Lifetimes /\ life'.state = life.state
    BY <1>3, <2>1 DEF Quarantine, Lifetimes
  <2>3. life.state.revision \in Nat
    BY <2>1 DEF Lifetimes, States
  <2>4. life.state.revision <= life'.state.revision
    BY <2>2, <2>3
  <2> QED BY <1>3, <2>2, <2>4, LifeStep DEF Quarantine
<1>4. ASSUME Up, NEW h \in Hydrations(life), ReplayCloses(h) \/ Rehydrate(h) PROVE IInv'
  <2>1. life \in Lifetimes /\ life.state.revision < MaxRevision
    BY <1>4 DEF Up, IInv, TypeInv, ReplayCloses, Rehydrate
  <2>2. Hydrate(h) \in States /\ life.state.revision <= Hydrate(h).revision
    BY <2>1, HydrationsAreStates
  <2>3. life' \in Lifetimes /\ life'.state = Hydrate(h)
    BY <1>4, <2>1, <2>2 DEF ReplayCloses, Rehydrate, Change, Lifetimes
  <2>4. UNCHANGED <<dir, settled, savers, lives, promised>>
    BY <1>4 DEF ReplayCloses, Rehydrate
  <2> QED BY <1>4, <2>2, <2>3, <2>4, LifeStep
<1> QED BY <1>1, <1>2, <1>3, <1>4 DEF Lives

-----------------------------------------------------------------------------
(* A boot and the ends of a life. *)

LEMMA BootStep ==
  ASSUME IInv, NEW b \in Builds, NEW h \in Hosts, NEW o \in BOOLEAN, Boot(b, h, o)
  PROVE  IInv'
<1> DEFINE restore == RestorePersisted(h, b, Peek(dir, b), o)
<1>1. /\ ~Up /\ UNCHANGED <<settled, savers>>
      /\ dir \in Directories /\ dir' \in {dir, AfterLoad(dir, b)}
      /\ lives' \in 0..MaxLives /\ life'.state = (IF Loads(restore, dir, b) THEN Restored(dir, b) ELSE Empty)
      /\ promised' = IF Loads(restore, dir, b) THEN promised ELSE 0
  BY WorkDirectoryAssumption DEF Boot, IInv, TypeInv
<1>2. /\ dir' \in Directories
      /\ dir'.live \in {dir.live, NoFile}
      /\ Restores(dir, b) => dir' = dir
  BY <1>1, LoadKeepsOrClears
<1>3. Restores(dir, b) => Restored(dir, b) \in States /\ Restored(dir, b).revision = dir.live.revision
  <2> SUFFICES ASSUME Restores(dir, b)
               PROVE  Restored(dir, b) \in States /\ Restored(dir, b).revision = dir.live.revision
    OBVIOUS
  <2>1. dir.live \in Files
    BY <1>1 DEF Directories, Restores, Exists
  <2>2. AtMost(dir.live.held, b.cap) \in Nat
    BY <2>1, WorkDirectoryAssumption DEF Files, AtMost
  <2> QED BY <2>1, <2>2 DEF Restored, States, Files
<1>4. Empty \in States
  BY WorkDirectoryAssumption DEF Empty, States
<1>5. life' \in Lifetimes
  <2>1. Loads(restore, dir, b) \in BOOLEAN /\ (h = "cli" /\ restore) \in BOOLEAN
    BY DEF Loads, Restores, RestorePersisted
  <2>2. life'.state \in States
    BY <1>1, <1>3, <1>4 DEF Loads
  <2> QED BY <2>1, <2>2 DEF Boot, Lifetimes
<1>6. TypeInv'
  BY <1>1, <1>2, <1>5, WorkDirectoryAssumption DEF IInv, TypeInv
<1>7. \A w \in Writers : ~Active(w) /\ ~Active(w)'
  BY <1>1 DEF IInv, OneSave, Active
<1>8. OneSave'
  BY <1>7 DEF OneSave
<1>9. FileInv'
  BY <1>1, <1>2, <1>7 DEF IInv, FileInv, Flat
<1>10. PromiseInv'
  <2>1. CASE Loads(restore, dir, b)
    <3>1. dir' = dir /\ promised' = promised /\ life'.state.revision = dir.live.revision
      BY <2>1, <1>1, <1>2, <1>3 DEF Loads
    <3>2. promised \in Nat /\ dir.live.revision \in Nat
      BY <2>1 DEF IInv, TypeInv, Directories, Files, Loads, Restores, Exists
    <3> QED BY <3>1, <3>2, <1>1, <1>7 DEF IInv, PromiseInv, Keeps, Exists
  <2>2. CASE ~Loads(restore, dir, b)
    <3>1. promised' = 0 /\ life'.state.revision \in Nat
      BY <2>2, <1>1, <1>5 DEF Lifetimes, States
    <3> QED BY <3>1, <1>7 DEF PromiseInv, Keeps
  <2> QED BY <2>1, <2>2
<1> QED BY <1>6, <1>8, <1>9, <1>10 DEF IInv

\* A life that ends holds no save.
LEMMA EndStep ==
  ASSUME IInv, Ended, UNCHANGED <<lives, promised>>,
         dir' \in Directories, settled' \in Directories,
         dir'.live \in {dir.live, settled.live}, settled'.live \in {dir.live, settled.live}
  PROVE  IInv'
<1>1. life' = Down /\ savers' = [w \in Writers |-> Idle]
  BY DEF Ended
<1>2. \A w \in Writers : ~Active(w)'
  BY <1>1 DEF Active
<1>3. TypeInv'
  BY <1>1 DEF IInv, TypeInv
<1>4. OneSave' /\ ~Up'
  BY <1>1, <1>2 DEF OneSave, Up
<1>5. FileInv'
  BY <1>2 DEF IInv, FileInv, Flat
<1>6. PromiseInv'
  BY <1>2, <1>4 DEF IInv, PromiseInv, Keeps, Exists
<1> QED BY <1>3, <1>4, <1>5, <1>6 DEF IInv

\* Flat files have nothing to lose.
LEMMA SurvivorsAreWhole ==
  ASSUME NEW d \in Directories, Flat(d.live) PROVE Survivors(d) = {d}
BY DEF Survivors, Flat, Exists

LEMMA EndsStep == ASSUME IInv, Ends PROVE IInv'
<1>1. CASE Exit \/ Kill
  BY <1>1, EndStep DEF Exit, Kill, IInv, TypeInv
<1>2. CASE Settle
  <2>1. TypeInv' /\ OneSave'
    BY <1>2 DEF Settle, IInv, TypeInv, OneSave, Up, Active
  <2>2. FileInv'
    BY <1>2 DEF Settle, IInv, FileInv, Active, SaveOK, Exists
  <2>3. PromiseInv'
    BY <1>2 DEF Settle, IInv, PromiseInv, Keeps, Exists, Up, Active
  <2> QED BY <2>1, <2>2, <2>3 DEF IInv
<1>3. CASE PowerFails
  <2>1. dir \in Directories /\ settled \in Directories /\ Flat(dir.live) /\ Flat(settled.live)
    BY DEF IInv, TypeInv, FileInv
  <2>2. Survivors(dir) \cup Survivors(settled) = {dir, settled}
    BY <2>1, SurvivorsAreWhole
  <2>3. PICK d \in {dir, settled} :
          /\ Ended
          /\ dir' = [d EXCEPT !.tmp = NoFile] /\ settled' = dir'
          /\ UNCHANGED <<lives, promised>>
    BY <1>3, <2>2 DEF PowerFails
  <2>4. dir' \in Directories /\ dir'.live = d.live
    BY <2>1, <2>3 DEF Directories
  <2> QED BY <2>3, <2>4, EndStep
<1> QED BY <1>1, <1>2, <1>3 DEF Ends

-----------------------------------------------------------------------------
(* A save.  Its steps touch one saver, the other is idle. *)

LEMMA BeginStep == ASSUME IInv, NEW w \in Writers, BeginSave(w) PROVE IInv'
<1>1. life \in Lifetimes /\ Up /\ (\A v \in Writers : ~Active(v))
  BY LockIsFree DEF BeginSave, Up, IInv, TypeInv, MayLock, SaveLock
<1>2. Persisted(life) \in Files /\ Persisted(life).revision = life.state.revision
  BY <1>1, PersistedIsAFile
<1>3. life' \in Lifetimes /\ life'.state = life.state
  BY <1>1 DEF BeginSave, Started, Lifetimes
<1>4. /\ savers' \in [Writers -> Savings \cup {Idle}]
      /\ savers'[w] = [at |-> "created", file |-> Persisted(life)]
      /\ \A v \in Writers \ {w} : savers'[v] = Idle
  BY <1>1, <1>2 DEF BeginSave, IInv, TypeInv, Savings, Active
<1>5. dir' \in Directories /\ dir'.live = dir.live
  BY <1>2 DEF BeginSave, IInv, TypeInv, Directories
<1>6. UNCHANGED <<settled, lives, promised>>
  BY DEF BeginSave
<1>7. TypeInv'
  BY <1>3, <1>4, <1>5, <1>6 DEF IInv, TypeInv
<1>8. OneSave'
  BY <1>3, <1>4, LifetimesAreUp DEF OneSave, Active, Up
<1>9. FileInv'
  BY <1>4, <1>5, <1>6 DEF IInv, FileInv, Flat, Active, SaveOK
<1>10. PromiseInv'
  <2>1. life.state.revision \in Nat
    BY <1>1 DEF Lifetimes, States
  <2> QED BY <2>1, <1>1, <1>2, <1>3, <1>4, <1>5, <1>6
          DEF IInv, PromiseInv, Keeps, Exists, Active, Up
<1> QED BY <1>7, <1>8, <1>9, <1>10 DEF IInv

\* The saver that takes a step is the only one, and knows its file.
LEMMA SaverFacts ==
  ASSUME IInv, NEW w \in Writers, Up,
         savers[w].at \in {"created", "written", "synced", "renamed"}
  PROVE  /\ savers[w] \in Savings /\ Active(w) /\ SaveOK(w)
         /\ \A v \in Writers \ {w} : savers[v] = Idle
         /\ life \in Lifetimes /\ life.state.revision \in Nat
         /\ savers[w].file \in Files /\ savers[w].file.revision \in Nat
<1>1. savers[w] # Idle
  BY DEF Idle
<1>2. savers[w] \in Savings
  BY <1>1 DEF IInv, TypeInv
<1>3. SaveOK(w) /\ \A v \in Writers \ {w} : savers[v] = Idle
  BY <1>1 DEF IInv, FileInv, OneSave, Active
<1>4. life \in Lifetimes /\ life.state.revision \in Nat
  BY DEF IInv, TypeInv, Up, Lifetimes, States
<1> QED BY <1>1, <1>2, <1>3, <1>4 DEF Active, Savings, Files

\* Its step only moves it along and leaves the live file and the life.
LEMMA ProceedStep ==
  ASSUME IInv, NEW w \in Writers, Up, savers[w].at \in DOMAIN Steps, Proceed(w),
         dir' \in Directories, Flat(dir'.live), Keeps(dir)',
         SaveOK(w)', UNCHANGED <<settled, life, lives, promised>>
  PROVE  IInv'
<1>1. savers[w].at \in {"created", "written", "synced"}
  BY DEF Steps
<1>2. /\ savers[w] \in Savings /\ Active(w)
      /\ \A v \in Writers \ {w} : savers[v] = Idle
  BY <1>1, SaverFacts
<1>3. Steps[savers[w].at] \in {"written", "synced", "renamed"}
  BY <1>1 DEF Steps
<1>4. /\ savers'[w] \in Savings /\ savers'[w].file = savers[w].file
      /\ \A v \in Writers \ {w} : savers'[v] = Idle
      /\ savers' \in [Writers -> Savings \cup {Idle}]
  BY <1>2, <1>3 DEF Proceed, IInv, TypeInv, Savings
<1>5. TypeInv'
  BY <1>4 DEF IInv, TypeInv
<1>6. OneSave'
  BY <1>2, <1>4 DEF OneSave, Active, Up
<1>7. FileInv'
  BY <1>4 DEF IInv, FileInv, Active
<1>8. PromiseInv'
  BY <1>2, <1>4 DEF IInv, PromiseInv, Keeps, Exists, Active, Up
<1> QED BY <1>5, <1>6, <1>7, <1>8 DEF IInv

LEMMA WriteStep == ASSUME IInv, NEW w \in Writers, WriteAll(w) PROVE IInv'
<1>1. /\ savers[w].at = "created" /\ Proceed(w) /\ Up
      /\ dir' = [dir EXCEPT !.tmp = [savers[w].file EXCEPT !.whole = TRUE]]
      /\ UNCHANGED <<settled, life, lives, promised>>
  BY DEF WriteAll
<1>2. savers[w] \in Savings /\ savers[w].file \in Files
  BY <1>1, SaverFacts
<1> DEFINE file == [savers[w].file EXCEPT !.whole = TRUE]
<1>3. file \in Files /\ file.whole /\ file.revision = savers[w].file.revision
  BY <1>2 DEF Files
<1> HIDE DEF file
<1>4. dir' \in Directories /\ dir'.live = dir.live /\ dir'.tmp = file
  BY <1>1, <1>3 DEF IInv, TypeInv, Directories, file
<1>5. savers'[w].at = "written" /\ savers'[w].file = savers[w].file
  BY <1>1, <1>2 DEF Proceed, Steps, Savings, IInv, TypeInv
<1>6. Keeps(dir)' /\ Flat(dir'.live)
  BY <1>1, <1>4 DEF IInv, FileInv, PromiseInv, Keeps, Exists
<1>7. SaveOK(w)'
  BY <1>3, <1>4, <1>5 DEF SaveOK
<1> QED BY <1>1, <1>4, <1>6, <1>7, ProceedStep DEF Steps

LEMMA SyncStep == ASSUME IInv, NEW w \in Writers, SyncAll(w) PROVE IInv'
<1>1. /\ savers[w].at = "written" /\ Proceed(w) /\ Up /\ dir.tmp # NoFile
      /\ dir' = [dir EXCEPT !.tmp = Flushed(dir.tmp)]
      /\ UNCHANGED <<settled, life, lives, promised>>
  BY DEF SyncAll
<1>2. savers[w] \in Savings /\ SaveOK(w) /\ dir.tmp \in Files
  BY <1>1, SaverFacts DEF IInv, TypeInv, Directories
<1>3. /\ Flushed(dir.tmp) \in Files /\ Flushed(dir.tmp).synced
      /\ Flushed(dir.tmp).whole = dir.tmp.whole
      /\ Flushed(dir.tmp).revision = dir.tmp.revision
  BY <1>2 DEF Files, Flushed
<1>4. dir' \in Directories /\ dir'.live = dir.live /\ dir'.tmp = Flushed(dir.tmp)
  BY <1>1, <1>3 DEF IInv, TypeInv, Directories
<1>5. savers'[w].at = "synced" /\ savers'[w].file = savers[w].file
  BY <1>1, <1>2 DEF Proceed, Steps, Savings, IInv, TypeInv
<1>6. Keeps(dir)' /\ Flat(dir'.live)
  BY <1>1, <1>4 DEF IInv, FileInv, PromiseInv, Keeps, Exists
<1>7. SaveOK(w)'
  BY <1>1, <1>2, <1>3, <1>4, <1>5 DEF SaveOK
<1> QED BY <1>1, <1>4, <1>6, <1>7, ProceedStep DEF Steps

LEMMA RenameStep == ASSUME IInv, NEW w \in Writers, Rename(w) PROVE IInv'
<1>1. /\ savers[w].at = "synced" /\ Proceed(w) /\ Up /\ dir.tmp # NoFile
      /\ dir' = [dir EXCEPT !.live = dir.tmp, !.tmp = NoFile]
      /\ UNCHANGED <<settled, life, lives, promised>>
  BY DEF Rename
<1>2. savers[w] \in Savings /\ SaveOK(w) /\ Active(w)
  BY <1>1, SaverFacts
<1>3. dir' \in Directories /\ dir'.live = dir.tmp /\ dir'.tmp = NoFile
  BY <1>1 DEF IInv, TypeInv, Directories
<1>4. savers'[w].at = "renamed" /\ savers'[w].file = savers[w].file
  BY <1>1, <1>2 DEF Proceed, Steps, Savings, IInv, TypeInv
<1>5. Flat(dir'.live) /\ dir'.live # NoFile /\ dir'.live.revision = savers[w].file.revision
  BY <1>1, <1>2, <1>3 DEF SaveOK, Flat
<1>6. Keeps(dir)'
  BY <1>1, <1>2, <1>5 DEF IInv, PromiseInv, Keeps, Exists
<1>7. SaveOK(w)'
  BY <1>3, <1>4, <1>5 DEF SaveOK, Exists
<1> QED BY <1>1, <1>3, <1>5, <1>6, <1>7, ProceedStep DEF Steps

\* A save that returns has its file safe, or has promised nothing.
LEMMA ReleaseStep ==
  ASSUME IInv, NEW w \in Writers, Up,
         savers[w].at \in {"created", "written", "synced", "renamed"},
         Release(w), UNCHANGED <<dir, lives>>,
         settled' \in {settled, dir},
         \/ promised' = promised
         \/ /\ savers[w].at = "renamed" /\ settled' = dir
            /\ promised' = savers[w].file.revision
  PROVE  IInv'
<1>1. /\ savers[w] \in Savings /\ Active(w) /\ SaveOK(w)
      /\ \A v \in Writers \ {w} : savers[v] = Idle
      /\ life \in Lifetimes /\ life.state.revision \in Nat
      /\ savers[w].file \in Files /\ savers[w].file.revision \in Nat
  BY SaverFacts
<1>2. savers' \in [Writers -> {Idle}]
  BY <1>1 DEF Release, IInv, TypeInv
<1>3. life' \in Lifetimes /\ life'.state = life.state
  BY <1>1 DEF Release, Lifetimes
<1>4. promised' \in 0..MaxRevision
  BY <1>1 DEF IInv, TypeInv, Files
<1>5. TypeInv'
  BY <1>2, <1>3, <1>4 DEF IInv, TypeInv
<1>6. \A v \in Writers : ~Active(v)'
  BY <1>2 DEF Active
<1>7. OneSave'
  BY <1>6 DEF OneSave
<1>8. FileInv'
  BY <1>6 DEF IInv, FileInv
<1>9. PromiseInv'
  BY <1>1, <1>3, <1>6 DEF IInv, PromiseInv, Keeps, Exists, SaveOK, Up
<1> QED BY <1>5, <1>7, <1>8, <1>9 DEF IInv

LEMMA SavesStep == ASSUME IInv, Saves PROVE IInv'
<1>1. PICK w \in Writers :
        \/ BeginSave(w) \/ WriteAll(w) \/ SyncAll(w) \/ Rename(w) \/ SaveFails(w)
        \/ \E flushed \in BOOLEAN : SyncDirectory(w, flushed)
  BY DEF Saves
<1>2. CASE SaveFails(w)
  BY <1>2, ReleaseStep DEF SaveFails, Steps
<1>3. ASSUME NEW flushed \in BOOLEAN, SyncDirectory(w, flushed) PROVE IInv'
  BY <1>3, ReleaseStep DEF SyncDirectory, OnDisk
<1> QED BY <1>1, <1>2, <1>3, BeginStep, WriteStep, SyncStep, RenameStep

-----------------------------------------------------------------------------
(* The invariant. *)

LEMMA InitInv == Init => IInv
<1> SUFFICES ASSUME Init PROVE IInv
  OBVIOUS
<1>1. TypeInv
  BY WorkDirectoryAssumption DEF Init, TypeInv, Directories
<1>2. \A w \in Writers : ~Active(w)
  BY DEF Init, Active
<1>3. ~Up
  BY DEF Init, Up
<1> QED BY <1>1, <1>2, <1>3 DEF Init, IInv, OneSave, FileInv, Flat, PromiseInv, Keeps

LEMMA StutterInv == ASSUME IInv, UNCHANGED vars PROVE IInv'
<1>1. TypeInv'
  BY DEF IInv, TypeInv, vars
<1>2. OneSave'
  BY DEF IInv, OneSave, Up, Active, vars
<1>3. FileInv'
  BY DEF IInv, FileInv, Flat, Active, SaveOK, Exists, vars
<1>4. PromiseInv'
  BY DEF IInv, PromiseInv, Keeps, Exists, Up, Active, vars
<1> QED BY <1>1, <1>2, <1>3, <1>4 DEF IInv

\* The invariant holds of every life, save and crash.
THEOREM DirectoryInvariant == Spec => []IInv
<1>1. Init => IInv
  BY InitInv
<1>2. IInv /\ [Next]_vars => IInv'
  <2> SUFFICES ASSUME IInv, [Next]_vars PROVE IInv'
    OBVIOUS
  <2>1. CASE Boots
    BY <2>1, BootStep DEF Boots
  <2>2. CASE Lives
    BY <2>2, LivesStep
  <2>3. CASE Saves
    BY <2>3, SavesStep
  <2>4. CASE Ends
    BY <2>4, EndsStep
  <2>5. CASE UNCHANGED vars
    BY <2>5, StutterInv
  <2> QED BY <2>1, <2>2, <2>3, <2>4, <2>5 DEF Next
<1> QED BY <1>1, <1>2, PTL DEF Spec

\* The live file is always the whole of some save: for any builds, hosts
\* and number of lives, wherever a life ended (persistence::save).
THEOREM LiveFileStaysWhole == Spec => []LiveFileIsWhole
<1>1. IInv => LiveFileIsWhole
  BY DEF IInv, FileInv, Flat, LiveFileIsWhole, Exists
<1> QED BY <1>1, DirectoryInvariant, PTL

\* Directories, savers and counters keep their types.
THEOREM TypeCorrect == Spec => []TypeOK
<1>1. IInv => TypeOK
  BY DEF IInv, TypeInv, TypeOK, Savings
<1> QED BY <1>1, DirectoryInvariant, PTL

\* A save that returned with its directory flushed is never lost, nor taken
\* back by a later save, until a boot starts over (persistence::save, the
\* save lock of ServerHandle::save).
THEOREM SavesAreKept == Spec => []SavedIsKept
<1>1. IInv => SavedIsKept
  BY DEF IInv, PromiseInv, Keeps, SavedIsKept
<1> QED BY <1>1, DirectoryInvariant, PTL

-----------------------------------------------------------------------------
(* Boots. *)

LEMMA BootsOnly ==
  ASSUME [Next]_vars, ~Up, Up'
  PROVE  \E b \in Builds, h \in Hosts, o \in BOOLEAN : Boot(b, h, o)
BY DEF Next, vars, Up, Boots, Lives, Apply, Reset, Quarantine, Saves, BeginSave,
       WriteAll, SyncAll, Rename, SyncDirectory, SaveFails, Ends, Exit, Kill,
       Settle, PowerFails, Ended

\* A load never destroys the save of a newer schema (persistence::load).
THEOREM LoadsKeepNewer == Spec => LoadKeepsNewer
<1>1. IInv /\ [Next]_vars => [~Up /\ Up' => KeepsNewer]_vars
  <2> SUFFICES ASSUME IInv, [Next]_vars, ~Up, Up' PROVE KeepsNewer
    OBVIOUS
  <2>1. PICK b \in Builds, h \in Hosts, o \in BOOLEAN : Boot(b, h, o)
    BY BootsOnly
  <2>2. life'.build = b /\ dir' \in {dir, AfterLoad(dir, b)} /\ dir \in Directories
    BY <2>1 DEF Boot, IInv, TypeInv
  <2> SUFFICES ASSUME Exists(dir), dir.live.whole, SchemaOf(dir) > b.schema
               PROVE  dir'.live = dir.live \/ SchemaOf(dir) \in dir'.aside
    BY <2>2 DEF KeepsNewer
  <2>3. AfterLoad(dir, b) = SetAside(dir)
    <3>1. dir.live \in Files /\ SchemaOf(dir) \in Nat /\ b.schema \in Nat
      BY <2>2, WorkDirectoryAssumption DEF Directories, Exists, Files, SchemaOf
    <3>2. ~(SchemaOf(dir) < b.schema)
      BY <3>1
    <3> HIDE DEF Exists
    <3> QED BY <3>1, <3>2 DEF AfterLoad
  <2>4. SchemaOf(dir) \in SetAside(dir).aside
    BY <2>2 DEF SetAside, Directories
  <2> QED BY <2>2, <2>3, <2>4
<1> QED BY <1>1, DirectoryInvariant, PTL DEF Spec, LoadKeepsNewer

-----------------------------------------------------------------------------
(* Resuming.  While no boot trims the reservoir it loads, a reservoir that *)
(* claims a target holds it, wherever it is kept.  A boot that trims it    *)
(* keeps the claim, and the next build to ask for more would believe it.   *)

\* No server starts with a cap below what the file it loads holds.
LoadsFit == [][~Up /\ Up' /\ life'.loaded => dir.live.held <= life'.build.cap]_vars

\* The adapter skips the replay of exactly what the server has loaded.
SkipsWhatItLoaded ==
  [][~Up /\ Up' /\ life'.host = "cli" => life'.resumed = life'.loaded]_vars

Full(s) == s.target # 0 => s.held = s.target

ReservoirInv ==
  /\ \A f \in {dir.live, dir.tmp, settled.live} : f # NoFile => Full(f)
  /\ \A w \in Writers : Active(w) => Full(savers[w].file)
  /\ Up => Full(life.state)

RInv == IInv /\ ReservoirInv

LEMMA ReservoirOfALife ==
  ASSUME RInv, Up, Full(life'.state), UNCHANGED <<dir, settled, savers>>
  PROVE  ReservoirInv'
BY DEF RInv, ReservoirInv, Full, Active

\* The one decision, taken twice: from the cursor and from the file.
LEMMA DecisionsAgree ==
  ASSUME IInv, NEW b \in Builds, NEW h \in Hosts, NEW o \in BOOLEAN, Boot(b, h, o)
  PROVE  /\ ~Up /\ life'.build = b /\ life'.host = h
         /\ life'.host = "cli" => life'.resumed = life'.loaded
         /\ life'.loaded => Restores(dir, b) /\ life'.state = Restored(dir, b)
         /\ ~life'.loaded => life'.state = Empty
         /\ life'.resumed => dir.live.target >= b.cap /\ dir.live.target # 0
<1> DEFINE restore == RestorePersisted(h, b, Peek(dir, b), o)
           loaded == Loads(restore, dir, b)
<1>1. /\ ~Up /\ dir \in Directories
      /\ life' = [build |-> b, host |-> h,
                  state |-> IF loaded THEN Restored(dir, b) ELSE Empty,
                  resumed |-> h = "cli" /\ restore, loaded |-> loaded,
                  bounded |-> o, replayed |-> FALSE, broken |-> FALSE,
                  checkpointed |-> FALSE, exit |-> "no"]
  BY DEF Boot, IInv, TypeInv
<1>2. ASSUME h = "cli", restore
      PROVE  loaded /\ dir.live.target >= b.cap /\ dir.live.target # 0
  <2>1. Peek(dir, b) # NoCursor /\ Peek(dir, b).target >= b.cap
    BY <1>2 DEF RestorePersisted
  <2>2. Restores(dir, b) /\ Peek(dir, b).target = dir.live.target
    BY <2>1 DEF Peek, Restores
  <2>3. dir.live \in Files
    BY <1>1, <2>2 DEF Restores, Exists, Directories
  <2> QED BY <1>2, <2>1, <2>2, <2>3, WorkDirectoryAssumption DEF Loads, Files
<1>3. life'.build = b /\ life'.host = h /\ life'.resumed = (h = "cli" /\ restore)
      /\ life'.loaded = loaded
      /\ life'.state = IF loaded THEN Restored(dir, b) ELSE Empty
  BY <1>1
<1>4. (loaded => restore /\ Restores(dir, b)) /\ restore \in BOOLEAN /\ loaded \in BOOLEAN
  BY DEF Loads, Restores, RestorePersisted
<1> HIDE DEF restore, loaded
<1> QED BY <1>1, <1>2, <1>3, <1>4

LEMMA ReservoirBoot ==
  ASSUME RInv, NEW b \in Builds, NEW h \in Hosts, NEW o \in BOOLEAN, Boot(b, h, o),
         life'.loaded => dir.live.held <= b.cap
  PROVE  /\ ReservoirInv'
         /\ life'.host = "cli" /\ life'.resumed => life'.state.held = b.cap
<1>1. /\ UNCHANGED <<settled, savers>> /\ dir \in Directories
      /\ dir' \in {dir, AfterLoad(dir, b)}
  BY DEF Boot, RInv, IInv, TypeInv
<1>2. ASSUME life'.loaded
      PROVE  /\ dir.live \in Files /\ Full(dir.live)
             /\ life'.state.held = dir.live.held /\ life'.state.target = dir.live.target
  <2>1. Restores(dir, b) /\ life'.state = Restored(dir, b)
    BY <1>2, DecisionsAgree DEF RInv
  <2>2. dir.live \in Files /\ Exists(dir)
    BY <1>1, <2>1 DEF Restores, Exists, Directories
  <2>3. Full(dir.live)
    BY <2>2 DEF RInv, ReservoirInv, Exists
  <2>4. AtMost(dir.live.held, b.cap) = dir.live.held
    BY <1>2, <2>2, WorkDirectoryAssumption DEF AtMost, Files
  <2> QED BY <2>1, <2>2, <2>3, <2>4 DEF Restored
<1>3. Full(life'.state)
  <2>1. CASE life'.loaded
    BY <1>2, <2>1 DEF Full
  <2>2. CASE ~life'.loaded
    BY <2>2, DecisionsAgree DEF RInv, Full, Empty
  <2> QED BY <2>1, <2>2
<1>4. AfterLoad(dir, b) \in Directories /\ AfterLoad(dir, b).live \in {dir.live, NoFile}
      /\ AfterLoad(dir, b).tmp = dir.tmp
  <2>1. Discard(dir).tmp = dir.tmp /\ (Exists(dir) => SetAside(dir).tmp = dir.tmp)
    BY <1>1 DEF Discard, SetAside, Directories
  <2> QED BY <1>1, <2>1, LoadKeepsOrClears DEF AfterLoad
<1>5. ReservoirInv'
  <2>1. {dir'.live, dir'.tmp, settled'.live} \subseteq {dir.live, dir.tmp, settled.live, NoFile}
    BY <1>1, <1>4
  <2> QED BY <2>1, <1>1, <1>3 DEF RInv, ReservoirInv, Full, Active
<1>6. ASSUME life'.host = "cli", life'.resumed PROVE life'.state.held = b.cap
  <2>1. life'.loaded /\ dir.live.target >= b.cap /\ dir.live.target # 0
    BY <1>6, DecisionsAgree DEF RInv
  <2>2. dir.live.held = dir.live.target
    BY <1>2, <2>1 DEF Full
  <2>3. dir.live.held \in Nat /\ b.cap \in Nat /\ dir.live.held <= b.cap
    BY <1>2, <2>1, WorkDirectoryAssumption DEF Files
  <2> QED BY <1>2, <2>1, <2>2, <2>3
<1> QED BY <1>5, <1>6

LEMMA ReservoirLives == ASSUME RInv, Lives PROVE ReservoirInv'
<1>1. ASSUME Up PROVE life \in Lifetimes /\ Full(life.state)
  BY <1>1 DEF RInv, ReservoirInv, IInv, TypeInv, Up
<1>2. CASE Apply
  <2>1. life'.state.held = life.state.held /\ life'.state.target = life.state.target
    BY <1>1, <1>2 DEF Apply, Change, Lifetimes, States
  <2> QED BY <1>1, <1>2, <2>1, ReservoirOfALife DEF Apply, Full
<1>3. CASE Reset
  <2>1. life'.state.target = 0
    BY <1>1, <1>3 DEF Reset, Change, Lifetimes
  <2> QED BY <1>3, <2>1, ReservoirOfALife DEF Reset, Full
<1>4. CASE Quarantine
  <2>1. life'.state = life.state
    BY <1>1, <1>4 DEF Quarantine, Lifetimes
  <2> QED BY <1>1, <1>4, <2>1, ReservoirOfALife DEF Quarantine
<1>5. ASSUME Up, NEW g \in Hydrations(life), ReplayCloses(g) \/ Rehydrate(g)
      PROVE  ReservoirInv'
  <2>1. life'.state = Hydrate(g)
    BY <1>1, <1>5 DEF ReplayCloses, Rehydrate, Change, Lifetimes
  <2>2. g.target # 0 => g.held = life.build.cap /\ g.target = life.build.cap
    BY <1>5 DEF Hydrations
  <2>3. Full(Hydrate(g))
    BY <2>2 DEF Full, Hydrate
  <2> QED BY <1>5, <2>1, <2>3, ReservoirOfALife DEF ReplayCloses, Rehydrate
<1> QED BY <1>2, <1>3, <1>4, <1>5 DEF Lives

LEMMA ReservoirSaves == ASSUME RInv, Saves PROVE ReservoirInv'
<1>1. PICK w \in Writers :
        \/ BeginSave(w) \/ WriteAll(w) \/ SyncAll(w) \/ Rename(w) \/ SaveFails(w)
        \/ \E flushed \in BOOLEAN : SyncDirectory(w, flushed)
  BY DEF Saves
<1>2. Up /\ life \in Lifetimes /\ Full(life.state) /\ TypeInv
  BY <1>1 DEF BeginSave, WriteAll, SyncAll, Rename, SaveFails, SyncDirectory, Up,
             RInv, IInv, TypeInv, ReservoirInv
<1>3. CASE BeginSave(w)
  <2>1. Full(Persisted(life))
    BY <1>2 DEF Persisted, Full
  <2>2. life'.state = life.state
    BY <1>2, <1>3 DEF BeginSave, Started, Lifetimes
  <2>3. dir'.live = dir.live /\ dir'.tmp = Persisted(life) /\ settled' = settled
    BY <1>2, <1>3 DEF BeginSave, TypeInv, Directories
  <2>4. \A v \in Writers : savers'[v] = IF v = w THEN [at |-> "created", file |-> Persisted(life)]
                                         ELSE savers[v]
    BY <1>2, <1>3 DEF BeginSave, TypeInv
  <2> QED BY <1>2, <2>1, <2>2, <2>3, <2>4 DEF RInv, ReservoirInv, Full, Active
<1>4. ASSUME savers[w].at \in DOMAIN Steps, Proceed(w), UNCHANGED <<settled, life>>,
             {dir'.live, dir'.tmp} \subseteq {dir.live, dir.tmp, NoFile}
               \/ (dir'.live = dir.live /\ Full(dir'.tmp))
      PROVE  ReservoirInv'
  <2>1. savers[w] \in Savings /\ savers[w].at \in {"created", "written", "synced"}
    BY <1>2, <1>4, SaverFacts DEF Steps, RInv
  <2>2. \A v \in Writers : Active(v)' => Active(v) /\ savers'[v].file = savers[v].file
    BY <1>2, <1>4, <2>1, SavingsAreBusy DEF Proceed, TypeInv, Savings, Active
  <2> QED BY <1>2, <1>4, <2>2 DEF RInv, ReservoirInv, Full, Up
<1>5. CASE WriteAll(w)
  <2>1. savers[w] \in Savings /\ Full(savers[w].file) /\ Active(w)
    BY <1>2, <1>5, SaverFacts DEF WriteAll, RInv, ReservoirInv
  <2>2. Full([savers[w].file EXCEPT !.whole = TRUE])
    BY <2>1 DEF Full, Savings, Files
  <2>3. dir'.live = dir.live /\ dir'.tmp = [savers[w].file EXCEPT !.whole = TRUE]
    BY <1>2, <1>5 DEF WriteAll, TypeInv, Directories
  <2> QED BY <1>4, <1>5, <2>2, <2>3 DEF WriteAll, Steps
<1>6. CASE SyncAll(w)
  <2>1. dir.tmp \in Files /\ Full(dir.tmp)
    BY <1>2, <1>6 DEF SyncAll, TypeInv, Directories, RInv, ReservoirInv
  <2>2. Full(Flushed(dir.tmp))
    BY <2>1 DEF Full, Flushed, Files
  <2>3. dir'.live = dir.live /\ dir'.tmp = Flushed(dir.tmp)
    BY <1>2, <1>6 DEF SyncAll, TypeInv, Directories
  <2> QED BY <1>4, <1>6, <2>2, <2>3 DEF SyncAll, Steps
<1>7. CASE Rename(w)
  <2>1. dir'.live = dir.tmp /\ dir'.tmp = NoFile
    BY <1>2, <1>7 DEF Rename, TypeInv, Directories
  <2> QED BY <1>4, <1>7, <2>1 DEF Rename, Steps
<1>8. ASSUME Release(w), UNCHANGED dir, settled' \in {settled, dir} PROVE ReservoirInv'
  <2>1. life'.state = life.state
    BY <1>2, <1>8 DEF Release, Lifetimes
  <2>2. \A v \in Writers : Active(v)' => Active(v) /\ savers'[v] = savers[v]
    BY <1>2, <1>8 DEF Release, TypeInv, Active
  <2> QED BY <1>2, <1>8, <2>1, <2>2 DEF RInv, ReservoirInv, Full
<1> QED BY <1>1, <1>3, <1>5, <1>6, <1>7, <1>8 DEF SaveFails, SyncDirectory, OnDisk

LEMMA ReservoirEnds == ASSUME RInv, Ends PROVE ReservoirInv'
<1>1. CASE Settle
  BY <1>1 DEF Settle, RInv, ReservoirInv, Full, Active, Up
<1>2. ASSUME Ended, dir'.tmp \in {dir.tmp, NoFile},
             {dir'.live, settled'.live} \subseteq {dir.live, settled.live}
      PROVE  ReservoirInv'
  <2>1. ~Up' /\ \A w \in Writers : ~Active(w)'
    BY <1>2 DEF Ended, Up, Active
  <2>2. {dir'.live, dir'.tmp, settled'.live} \subseteq {dir.live, dir.tmp, settled.live, NoFile}
    BY <1>2
  <2> QED BY <2>1, <2>2 DEF RInv, ReservoirInv, Full
<1>3. CASE Exit \/ Kill
  BY <1>2, <1>3 DEF Exit, Kill
<1>4. CASE PowerFails
  <2>1. dir \in Directories /\ settled \in Directories /\ Flat(dir.live) /\ Flat(settled.live)
    BY DEF RInv, IInv, TypeInv, FileInv
  <2>2. Survivors(dir) \cup Survivors(settled) = {dir, settled}
    BY <2>1, SurvivorsAreWhole
  <2>3. PICK d \in {dir, settled} :
          Ended /\ dir' = [d EXCEPT !.tmp = NoFile] /\ settled' = dir'
    BY <1>4, <2>2 DEF PowerFails
  <2>4. dir'.live = d.live /\ dir'.tmp = NoFile
    BY <2>1, <2>3 DEF Directories
  <2> QED BY <1>2, <2>3, <2>4
<1> QED BY <1>1, <1>3, <1>4 DEF Ends

\* The adapter skips the boot replay exactly when the server has hydrated
\* the file, for any builds, caps, hosts and number of lives (serve,
\* ServerBuilder::build).
THEOREM ResumesAgree == Spec => SkipsWhatItLoaded
<1>1. IInv /\ [Next]_vars =>
        [~Up /\ Up' /\ life'.host = "cli" => life'.resumed = life'.loaded]_vars
  BY BootsOnly, DecisionsAgree
<1> QED BY <1>1, DirectoryInvariant, PTL DEF Spec, SkipsWhatItLoaded

\* While no server starts with a cap below what the file it loads holds,
\* what nobody replays is also the whole reservoir this build asks for, over
\* any number of lives of builds with any caps (CellGalaxy::restore_from).
THEOREM ResumesTheTarget == Spec /\ LoadsFit => ResumesWhatItLoaded
<1>1. Init => RInv
  <2> SUFFICES ASSUME Init PROVE RInv
    OBVIOUS
  <2>1. ~Up /\ \A w \in Writers : ~Active(w)
    BY DEF Init, Up, Active
  <2> QED BY <2>1, InitInv DEF RInv, ReservoirInv, Init
<1> DEFINE Fits == ~Up /\ Up' /\ life'.loaded => dir.live.held <= life'.build.cap
<1>2. ASSUME RInv, NEW b \in Builds, NEW h \in Hosts, NEW o \in BOOLEAN, Boot(b, h, o),
             [Fits]_vars
      PROVE  /\ ReservoirInv' /\ life'.build = b
             /\ life'.host = "cli" /\ life'.resumed => life'.state.held = b.cap
  <2>1. ~Up /\ life'.build = b
    BY <1>2, DecisionsAgree DEF RInv
  <2>2. Up'
    BY <1>2, BootStep, LifetimesAreUp DEF RInv, IInv, TypeInv, Boot, Up, Down
  <2>3. Fits
    BY <1>2, <2>1, <2>2 DEF vars, Up
  <2> QED BY <1>2, <2>1, <2>2, <2>3, ReservoirBoot
<1>3. RInv /\ [Next]_vars /\ [Fits]_vars => RInv'
  <2> SUFFICES ASSUME RInv, [Next]_vars, [Fits]_vars PROVE RInv'
    OBVIOUS
  <2> HIDE DEF Fits
  <2>1. CASE Boots
    BY <1>2, <2>1, BootStep DEF Boots, RInv
  <2>2. CASE Lives
    BY <2>2, LivesStep, ReservoirLives DEF RInv
  <2>3. CASE Saves
    BY <2>3, SavesStep, ReservoirSaves DEF RInv
  <2>4. CASE Ends
    BY <2>4, EndsStep, ReservoirEnds DEF RInv
  <2>5. CASE UNCHANGED vars
    BY <2>5, StutterInv DEF RInv, ReservoirInv, vars, Up, Active, Full
  <2> QED BY <2>1, <2>2, <2>3, <2>4, <2>5 DEF Next
<1>4. RInv /\ [Next]_vars /\ [Fits]_vars =>
        [~Up /\ Up' /\ life'.host = "cli" =>
           /\ life'.resumed = life'.loaded
           /\ life'.resumed => life'.state.held = life'.build.cap]_vars
  <2> HIDE DEF Fits
  <2> QED BY <1>2, BootsOnly, DecisionsAgree DEF RInv
<1> QED BY <1>1, <1>3, <1>4, PTL DEF Spec, LoadsFit, ResumesWhatItLoaded
=============================================================================
