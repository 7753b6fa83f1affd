------------------------------- MODULE Backup -------------------------------
(***************************************************************************)
(* The backup task of the controller: a snapshot at every tick of an       *)
(* interval, then the removal of all but the newest files, unless the      *)
(* configuration says 0, which disables it.  Snapshots fail or are cut off *)
(* by a crash and leave partial files behind, whose names look like any    *)
(* other; removals fail.                                                   *)
(*                                                                         *)
(* A name is the wall-clock second at which the snapshot began.  Only the  *)
(* order of the names and the current second matter, so files is a         *)
(* sequence and time is not bounded.                                       *)
(***************************************************************************)
EXTENDS Naturals, Sequences, SequencesExt

CONSTANTS
  Keeps,         \* values of backup.keep
  ClockBack,     \* whether the wall clock may step back
  MaxFaults,     \* bound on crashes, failed snapshots and failed removals
  MaxFiles       \* bound on the files of a directory that is not pruned: the
                 \* disk has no room for more

ASSUME ConstantsAssumption ==
  /\ Keeps \subseteq Nat
  /\ ClockBack \in BOOLEAN
  /\ {MaxFaults, MaxFiles} \subseteq Nat

VARIABLES
  keep,          \* configuration: backup.keep
  files,         \* the directory in the order of the names; "latest" is the
                 \* snapshot that was completed last
  sameSecond,    \* the last file is named after the current second
  due,           \* a tick of the interval
  pc,            \* the task
  at,            \* the place of the file being written, or to be removed
  made,          \* history: a snapshot has been completed
  faults

vars == <<keep, files, sameSecond, due, pc, at, made, faults>>

Kinds == {"partial", "good", "latest"}

TypeOK ==
  /\ keep \in Keeps
  /\ files \in Seq(Kinds)
  /\ {sameSecond, due, made} \subseteq BOOLEAN
  /\ pc \in {"down", "start", "idle", "wait", "vacuum", "list", "prune"}
  /\ at \in 0..Len(files)
  /\ faults \in 0..MaxFaults

Init ==
  /\ keep \in Keeps
  /\ files = <<>>
  /\ sameSecond = FALSE
  /\ due = FALSE
  /\ pc = "start"
  /\ at = 0
  /\ made = FALSE
  /\ faults = 0

Fault == faults < MaxFaults /\ faults' = faults + 1

-----------------------------------------------------------------------------
(* run_backup_loop.                                                        *)

\* Without its directory the task stays idle until the process is restarted.
create_dir ==
  /\ pc = "start"
  /\ \/ pc' = "wait" /\ due' = TRUE /\ UNCHANGED faults
     \/ pc' = "idle" /\ UNCHANGED due /\ Fault
  /\ UNCHANGED <<keep, files, sameSecond, at, made>>

\* Where a new name falls in the order.
NewPlaces == IF ClockBack THEN 1..(Len(files) + 1) ELSE {Len(files) + 1}

\* A directory that is not pruned fills the disk.
Full == keep = 0 /\ Len(files) = MaxFiles

\* A tick.  SQLite creates the file, or refuses one that exists; it accepts an
\* empty one.
backup_to_dir ==
  /\ pc = "wait"
  /\ due
  /\ due' = FALSE
  /\ \/ /\ ~sameSecond
        /\ ~Full
        /\ \E i \in NewPlaces : /\ files' = InsertAt(files, i, "partial")
                                /\ at' = i
                                /\ sameSecond' = (i = Len(files) + 1)
        /\ pc' = "vacuum"
        /\ UNCHANGED faults
     \/ /\ sameSecond
        /\ Last(files) = "partial"
        /\ at' = Len(files)
        /\ pc' = "vacuum"
        /\ UNCHANGED <<files, sameSecond, faults>>
     \/ /\ IF sameSecond \/ Full THEN UNCHANGED faults ELSE Fault
        /\ UNCHANGED <<files, sameSecond, at, pc>>
  /\ UNCHANGED <<keep, made>>

\* The file being written becomes the latest snapshot.
Completed ==
  [i \in DOMAIN files |->
     IF i = at THEN "latest" ELSE IF files[i] = "latest" THEN "good" ELSE files[i]]

\* The end of the snapshot: a success leads to the pruning, an error is logged.
VACUUM_INTO ==
  /\ pc = "vacuum"
  /\ at' = 0
  /\ \/ files' = Completed /\ made' = TRUE /\ pc' = "list" /\ UNCHANGED faults
     \/ Fault /\ pc' = "wait" /\ UNCHANGED <<files, made>>
  /\ UNCHANGED <<keep, sameSecond, due>>

\* Mutant of Outdated: no file is skipped.
OutdatedAll == Len(files)

\* Mutant of Outdated: one file at a time.
OutdatedOne == IF Len(files) > keep THEN 1 ELSE 0

\* The newest of the files to be removed: all are but the newest names.
Outdated == IF Len(files) > keep THEN Len(files) - keep ELSE 0

\* keep = 0 "disables retention pruning only".
no_pruning ==
  /\ pc = "list"
  /\ keep = 0
  /\ pc' = "wait"
  /\ UNCHANGED <<keep, files, sameSecond, due, at, made, faults>>

\* The listing; when it fails nothing is removed.
read_dir ==
  /\ pc = "list"
  /\ keep > 0
  /\ \/ pc' = "prune" /\ at' = Outdated /\ UNCHANGED faults
     \/ pc' = "wait" /\ UNCHANGED at /\ Fault
  /\ UNCHANGED <<keep, files, sameSecond, due, made>>

\* One file after the other, the newest first; a failure is logged and the
\* next one is tried.
remove_file ==
  /\ pc = "prune"
  /\ \/ /\ at # 0
        /\ at' = at - 1
        /\ \/ files' = RemoveAt(files, at) /\ UNCHANGED faults
           \/ UNCHANGED files /\ Fault
        /\ UNCHANGED pc
     \/ /\ at = 0
        /\ pc' = "wait"
        /\ UNCHANGED <<files, at, faults>>
  /\ UNCHANGED <<keep, sameSecond, due, made>>

prune_old_backups == read_dir \/ remove_file

-----------------------------------------------------------------------------
(* The process and the clock.                                              *)

\* A crash cuts a snapshot or a removal off.
Crash ==
  /\ pc # "down"
  /\ Fault
  /\ pc' = "down"
  /\ at' = 0
  /\ due' = FALSE
  /\ UNCHANGED <<keep, files, sameSecond, made>>

\* The operator restarts a controller that makes no backups.
restart ==
  /\ pc = "idle"
  /\ pc' = "down"
  /\ UNCHANGED <<keep, files, sameSecond, due, at, made, faults>>

boot ==
  /\ pc = "down"
  /\ pc' = "start"
  /\ UNCHANGED <<keep, files, sameSecond, due, at, made, faults>>

Second ==
  /\ sameSecond
  /\ sameSecond' = FALSE
  /\ UNCHANGED <<keep, files, due, pc, at, made, faults>>

\* Mutant of IntervalElapses: a name is good for more than an interval.
NamedByDay ==
  /\ pc \in {"wait", "vacuum", "list", "prune"}
  /\ ~due
  /\ due' = TRUE
  /\ UNCHANGED <<keep, files, sameSecond, pc, at, made, faults>>

\* The interval is a minute at least; ticks missed are skipped.
IntervalElapses ==
  /\ pc \in {"wait", "vacuum", "list", "prune"}
  /\ ~due
  /\ due' = TRUE
  /\ sameSecond' = FALSE
  /\ UNCHANGED <<keep, files, pc, at, made, faults>>

-----------------------------------------------------------------------------

Work ==
  \/ create_dir \/ backup_to_dir \/ VACUUM_INTO \/ no_pruning
  \/ prune_old_backups \/ boot

Next == Work \/ Crash \/ restart \/ Second \/ IntervalElapses

Spec == Init /\ [][Next]_vars

\* The task goes on, systemd restarts the controller, and time passes.
FairSpec ==
  /\ Spec
  /\ WF_vars(Work)
  /\ WF_vars(IntervalElapses)

-----------------------------------------------------------------------------
(* Properties.                                                             *)

\* The snapshot completed last is never lost: not to the pruning, which also
\* counts partial files, not to a later snapshot that fails or is cut off, and
\* not to a restart in the same second.  It rests on pruning only after a
\* success, when the newest name is a good one, and on a clock that does not
\* step back (backup.rs, run_backup_loop and prune_old_backups).
LatestBackupKept == made => \E i \in DOMAIN files : files[i] = "latest"

\* A directory that is pruned holds no more than keep files, the one being
\* written or just completed, and one for each failure: a partial file, a file
\* that could not be removed, or those that a crash or a failed listing left to
\* be removed.  While pruning is under way, the files yet to be tried are not
\* counted (backup.rs, prune_old_backups).
DirectoryBounded ==
  /\ pc \in {"vacuum", "list"} => Len(files) <= keep + faults + 1
  /\ pc = "prune" => Len(files) - at <= keep + faults
  /\ pc = "prune" => Len(files) <= keep + faults + 1
  /\ pc \in {"down", "start", "idle", "wait"} => Len(files) <= keep + faults

\* The place of the file being written or to be removed, and that a name taken
\* in this second is the last one.  With a clock that does not step back the
\* newest file is the one being written, and after its completion the latest
\* snapshot, out of the reach of the removal.
PlaceSound ==
  /\ sameSecond => files # <<>>
  /\ pc \notin {"vacuum", "prune"} => at = 0
  /\ pc = "vacuum" => at # 0 /\ files[at] = "partial"
  /\ pc = "list" => files # <<>>
  /\ pc = "prune" => keep > 0 /\ at < Len(files)
  /\ ~ClockBack =>
       /\ pc = "vacuum" => at = Len(files)
       /\ pc \in {"list", "prune"} => files[Len(files)] = "latest"

\* The directory is bounded if it is pruned, and with a clock that does not
\* step back the latest snapshot is kept in any case (backup.rs).
BackupInv ==
  /\ TypeOK
  /\ keep > 0 => DirectoryBounded
  /\ PlaceSound
  /\ ~ClockBack => LatestBackupKept

\* Snapshots go on being completed after any failure, unless the directory
\* could not be created, or is not pruned and has filled the disk (backup.rs,
\* run_backup_loop).
BackupsGoOn == []<>(pc \in {"list", "idle"} \/ Full)

\* After the last failure a directory that is pruned gets back to its size:
\* partial files and those whose removal failed go as well (backup.rs,
\* prune_old_backups).
RetentionRegained ==
  keep > 0 => <>[](pc = "idle" \/ Len(files) <= keep + 1)

-----------------------------------------------------------------------------
(* Statements of the documentation that the code does not keep.            *)

Goods(f) == Len(SelectSeq(f, LAMBDA kind : kind # "partial"))

\* deploy/README.md:27, "hourly, keep 48": no good snapshot is removed while a
\* newer partial file is kept.  The names of both look alike.
KeptAreGood ==
  [][Goods(files') < Goods(files)
       => \A i \in at..Len(files') : files'[i] # "partial"]_vars

=============================================================================
