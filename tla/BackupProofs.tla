---------------------------- MODULE BackupProofs ----------------------------
(***************************************************************************)
(* Proofs about Backup, for every number of files to keep, 0 included, and *)
(* any number of failures: the directory is bounded if it is pruned, and   *)
(* with a clock that does not step back the snapshot completed last is     *)
(* never lost.                                                             *)
(***************************************************************************)
EXTENDS Backup, TLAPS

-----------------------------------------------------------------------------
(* Sequences.                                                              *)

\* A file is created at place i; with i the last place it is appended.
LEMMA InsertAtFacts ==
  ASSUME NEW S, NEW f \in Seq(S), NEW e \in S, NEW i \in 1..(Len(f) + 1)
  PROVE  /\ InsertAt(f, i, e) \in Seq(S)
         /\ Len(InsertAt(f, i, e)) = Len(f) + 1
         /\ InsertAt(f, i, e)[i] = e
         /\ i = Len(f) + 1 =>
              \A j \in 1..Len(f) : InsertAt(f, i, e)[j] = f[j]
<1> DEFINE a == SubSeq(f, 1, i - 1)
           b == SubSeq(f, i, Len(f))
<1>1. Len(f) \in Nat /\ i \in Nat /\ i - 1 \in 0..Len(f)
  OBVIOUS
<1>2. /\ a \in Seq(S) /\ Len(a) = i - 1
      /\ \A j \in 1..(i - 1) : a[j] = f[j]
  BY <1>1
<1>3. b \in Seq(S) /\ Len(b) = Len(f) - i + 1
  BY <1>1
<1> HIDE DEF a, b
<1>4. /\ a \o <<e>> \in Seq(S) /\ Len(a \o <<e>>) = i
      /\ (a \o <<e>>)[i] = e
      /\ \A j \in 1..(i - 1) : (a \o <<e>>)[j] = a[j]
  BY <1>1, <1>2
<1>5. InsertAt(f, i, e) = (a \o <<e>>) \o b
  BY DEF InsertAt, a, b
<1> QED
  BY <1>1, <1>2, <1>3, <1>4, <1>5

\* A file is removed at place i: what is after it moves down by one.
LEMMA RemoveAtFacts ==
  ASSUME NEW S, NEW f \in Seq(S), NEW i \in 1..Len(f)
  PROVE  /\ RemoveAt(f, i) \in Seq(S)
         /\ Len(RemoveAt(f, i)) = Len(f) - 1
         /\ \A j \in i..(Len(f) - 1) : RemoveAt(f, i)[j] = f[j + 1]
<1> DEFINE a == SubSeq(f, 1, i - 1)
           b == SubSeq(f, i + 1, Len(f))
<1>1. Len(f) \in Nat /\ i \in Nat /\ i - 1 \in 0..Len(f)
  OBVIOUS
<1>2. a \in Seq(S) /\ Len(a) = i - 1
  BY <1>1
<1>3. /\ b \in Seq(S) /\ Len(b) = Len(f) - i
      /\ \A j \in 1..(Len(f) - i) : b[j] = f[i + j]
  BY <1>1
<1> HIDE DEF a, b
<1>4. RemoveAt(f, i) = a \o b
  BY DEF RemoveAt, a, b
<1>5. a \o b \in Seq(S) /\ Len(a \o b) = Len(f) - 1
  BY <1>1, <1>2, <1>3
<1>6. ASSUME NEW j \in i..(Len(f) - 1)
      PROVE  (a \o b)[j] = f[j + 1]
  <2>1. j - (i - 1) \in 1..(Len(f) - i) /\ i + (j - (i - 1)) = j + 1
    BY <1>1
  <2>2. (a \o b)[j] = b[j - (i - 1)]
    BY <1>1, <1>2, <1>3, <2>1
  <2> QED
    BY <1>3, <2>1, <2>2
<1> QED
  BY <1>4, <1>5, <1>6

-----------------------------------------------------------------------------
(* The actions.                                                            *)

\* The numbers and the directory in any state of the invariant.
LEMMA StateFacts ==
  ASSUME BackupInv
  PROVE  /\ keep \in Nat /\ MaxFaults \in Nat /\ faults \in Nat
         /\ files \in Seq(Kinds) /\ Len(files) \in Nat
         /\ DOMAIN files = 1..Len(files) /\ at \in Nat /\ at <= Len(files)
BY ConstantsAssumption DEF BackupInv, TypeOK

\* A failure stays within the bound.
LEMMA FaultFacts ==
  ASSUME BackupInv, Fault
  PROVE  faults' = faults + 1 /\ faults' \in 0..MaxFaults
BY ConstantsAssumption DEF BackupInv, TypeOK, Fault

\* A step that touches neither the directory nor the file at hand.
LEMMA SameDirectory ==
  ASSUME BackupInv, UNCHANGED <<keep, files, at, made>>,
         {sameSecond', due'} \subseteq BOOLEAN, sameSecond' => sameSecond,
         pc' # pc => pc' \in {"down", "start", "idle", "wait"} /\ at = 0,
         pc' # pc => pc \in {"down", "start", "idle", "wait"},
         faults' \in 0..MaxFaults, faults' >= faults
  PROVE  BackupInv'
<1>1. TypeOK'
  BY DEF BackupInv, TypeOK
<1>2. (keep > 0 => DirectoryBounded)'
  BY StateFacts DEF BackupInv, DirectoryBounded
<1>3. PlaceSound'
  BY DEF BackupInv, PlaceSound
<1>4. (~ClockBack => LatestBackupKept)'
  BY DEF BackupInv, LatestBackupKept
<1> QED
  BY <1>1, <1>2, <1>3, <1>4 DEF BackupInv

\* Creating the directory, or failing to, touches no file.
LEMMA CreateDirKeeps ==
  ASSUME BackupInv, create_dir
  PROVE  BackupInv'
<1>1. /\ pc = "start" /\ pc' \in {"wait", "idle"}
      /\ UNCHANGED <<keep, files, sameSecond, at, made>>
  BY DEF create_dir
<1>2. faults' \in 0..MaxFaults /\ faults' >= faults
  BY StateFacts, FaultFacts DEF create_dir, BackupInv, TypeOK
<1>3. due' \in BOOLEAN /\ sameSecond' \in BOOLEAN
  BY <1>1 DEF create_dir, BackupInv, TypeOK
<1>4. at = 0
  BY <1>1 DEF BackupInv, PlaceSound
<1> QED
  BY <1>1, <1>2, <1>3, <1>4, SameDirectory

\* A snapshot begins with a partial file, under a new name or in the place of
\* the last.
LEMMA BackupToDirKeeps ==
  ASSUME BackupInv, backup_to_dir
  PROVE  BackupInv'
<1>1. /\ pc = "wait" /\ due' = FALSE /\ UNCHANGED <<keep, made>> /\ at = 0
      /\ keep > 0 => Len(files) <= keep + faults
  BY DEF backup_to_dir, BackupInv, PlaceSound, DirectoryBounded
<1>2. ASSUME NEW i \in NewPlaces, files' = InsertAt(files, i, "partial"),
             at' = i, sameSecond' = (i = Len(files) + 1), pc' = "vacuum",
             UNCHANGED faults
      PROVE  BackupInv'
  <2>1. i \in 1..(Len(files) + 1) /\ (~ClockBack => i = Len(files) + 1)
    BY StateFacts DEF NewPlaces
  <2>2. "partial" \in Kinds
    BY DEF Kinds
  <2>3. /\ files' \in Seq(Kinds) /\ Len(files') = Len(files) + 1
        /\ files'[i] = "partial"
        /\ i = Len(files) + 1 => \A j \in 1..Len(files) : files'[j] = files[j]
    BY <1>2, <2>1, <2>2, StateFacts, InsertAtFacts
  <2>4. TypeOK'
    <3>1. at' \in 0..Len(files')
      BY <1>2, <2>1, <2>3, StateFacts
    <3>2. {sameSecond', due', made'} \subseteq BOOLEAN
      BY <1>1, <1>2 DEF BackupInv, TypeOK
    <3> QED
      BY <1>1, <1>2, <2>3, <3>1, <3>2 DEF BackupInv, TypeOK
  <2>5. (keep > 0 => DirectoryBounded)'
    BY <1>1, <1>2, <2>3, StateFacts DEF DirectoryBounded
  <2>6. PlaceSound'
    BY <1>2, <2>1, <2>3, StateFacts DEF PlaceSound
  <2>7. ASSUME ~ClockBack, made'
        PROVE  \E j \in DOMAIN files' : files'[j] = "latest"
    <3>1. PICK j \in 1..Len(files) : files[j] = "latest"
      BY <1>1, <2>7, StateFacts DEF BackupInv, LatestBackupKept
    <3>2. files'[j] = "latest" /\ j \in DOMAIN files'
      BY <2>1, <2>3, <2>7, <3>1, StateFacts
    <3> QED
      BY <3>2
  <2> QED
    BY <2>4, <2>5, <2>6, <2>7 DEF BackupInv, LatestBackupKept
<1>3. CASE /\ sameSecond /\ Last(files) = "partial" /\ at' = Len(files)
           /\ pc' = "vacuum" /\ UNCHANGED <<files, sameSecond, faults>>
  <2>1. Len(files) # 0 /\ files[Len(files)] = "partial"
    BY <1>3, StateFacts DEF BackupInv, PlaceSound, Last
  <2>2. TypeOK'
    <3>1. {sameSecond', due', made'} \subseteq BOOLEAN
      BY <1>1, <1>3 DEF BackupInv, TypeOK
    <3>2. at' \in 0..Len(files')
      BY <1>3, StateFacts
    <3> QED
      BY <1>1, <1>3, <3>1, <3>2 DEF BackupInv, TypeOK
  <2>3. (keep > 0 => DirectoryBounded)'
    BY <1>1, <1>3, StateFacts DEF DirectoryBounded
  <2>4. PlaceSound'
    BY <1>3, <2>1 DEF BackupInv, PlaceSound
  <2>5. (~ClockBack => LatestBackupKept)'
    BY <1>1, <1>3 DEF BackupInv, LatestBackupKept
  <2> QED
    BY <2>2, <2>3, <2>4, <2>5 DEF BackupInv
<1>4. CASE /\ IF sameSecond \/ Full THEN UNCHANGED faults ELSE Fault
           /\ UNCHANGED <<files, sameSecond, at, pc>>
  <2>1. faults' \in 0..MaxFaults /\ faults' >= faults
    BY <1>4, StateFacts, FaultFacts DEF BackupInv, TypeOK
  <2>2. {sameSecond', due'} \subseteq BOOLEAN
    BY <1>1, <1>4 DEF BackupInv, TypeOK
  <2> QED
    BY <1>1, <1>4, <2>1, <2>2, SameDirectory
<1> QED
  BY <1>2, <1>3, <1>4 DEF backup_to_dir

\* The end of a snapshot: with a clock that does not step back it is the last
\* file that becomes the latest.
LEMMA VacuumKeeps ==
  ASSUME BackupInv, VACUUM_INTO
  PROVE  BackupInv'
<1>1. /\ pc = "vacuum" /\ at' = 0 /\ UNCHANGED <<keep, sameSecond, due>>
      /\ at \in 1..Len(files) /\ (~ClockBack => at = Len(files))
      /\ keep > 0 => Len(files) <= keep + faults + 1
  BY StateFacts DEF VACUUM_INTO, BackupInv, PlaceSound, DirectoryBounded
<1>2. CASE files' = Completed /\ made' = TRUE /\ pc' = "list" /\ UNCHANGED faults
  <2>1. /\ files' \in Seq(Kinds) /\ Len(files') = Len(files)
        /\ files'[at] = "latest"
    <3>1. at \in 1..Len(files) /\ files' = Completed
      BY <1>1, <1>2
    <3>2. /\ DOMAIN Completed = 1..Len(files) /\ Completed[at] = "latest"
          /\ \A i \in 1..Len(files) :
               Completed[i] \in {files[i], "good", "latest"}
      BY <3>1, StateFacts DEF Completed
    <3>3. \A i \in 1..Len(files) : Completed[i] \in Kinds
      BY <3>2, StateFacts DEF Kinds
    <3>4. Completed = [i \in 1..Len(files) |-> Completed[i]]
      BY <3>2 DEF Completed
    <3>5. Completed \in Seq(Kinds) /\ Len(Completed) = Len(files)
      BY <3>2, <3>3, <3>4, StateFacts
    <3> QED
      BY <3>1, <3>2, <3>5
  <2>2. TypeOK'
    <3>1. {sameSecond', due', made'} \subseteq BOOLEAN
      BY <1>1, <1>2 DEF BackupInv, TypeOK
    <3>2. at' \in 0..Len(files')
      BY <1>1, <2>1, StateFacts
    <3> QED
      BY <1>1, <1>2, <2>1, <3>1, <3>2 DEF BackupInv, TypeOK
  <2>3. (keep > 0 => DirectoryBounded)'
    BY <1>1, <1>2, <2>1 DEF DirectoryBounded
  <2>4. PlaceSound'
    <3>1. Len(files') # 0
      BY <1>1, <2>1, StateFacts
    <3> QED
      BY <1>1, <1>2, <2>1, <3>1 DEF PlaceSound
  <2>5. LatestBackupKept'
    BY <1>1, <2>1 DEF LatestBackupKept
  <2> QED
    BY <2>2, <2>3, <2>4, <2>5 DEF BackupInv
<1>3. CASE Fault /\ pc' = "wait" /\ UNCHANGED <<files, made>>
  <2>1. faults' = faults + 1 /\ faults' \in 0..MaxFaults
    BY <1>3, FaultFacts
  <2>2. TypeOK'
    <3>1. {sameSecond', due', made'} \subseteq BOOLEAN
      BY <1>1, <1>3 DEF BackupInv, TypeOK
    <3>2. at' = 0 /\ files' = files
      BY <1>1, <1>3
    <3>3. at' \in 0..Len(files')
      BY <3>2, StateFacts
    <3> QED
      BY <1>1, <1>3, <2>1, <3>1, <3>3 DEF BackupInv, TypeOK
  <2>3. (keep > 0 => DirectoryBounded)'
    <3>1. /\ files' = files /\ pc' = "wait" /\ keep' = keep
          /\ keep > 0 => Len(files) <= keep + faults + 1
      BY <1>1, <1>3
    <3> QED
      BY <2>1, <3>1, StateFacts DEF DirectoryBounded
  <2>4. PlaceSound'
    BY <1>1, <1>3 DEF BackupInv, PlaceSound
  <2>5. (~ClockBack => LatestBackupKept)'
    BY <1>3 DEF BackupInv, LatestBackupKept
  <2> QED
    BY <2>2, <2>3, <2>4, <2>5 DEF BackupInv
<1> QED
  BY <1>2, <1>3 DEF VACUUM_INTO

\* Listing the directory finds what is outdated, never the latest snapshot.
LEMMA ReadDirKeeps ==
  ASSUME BackupInv, read_dir
  PROVE  BackupInv'
<1>1. /\ pc = "list" /\ keep > 0
      /\ UNCHANGED <<keep, files, sameSecond, due, made>>
      /\ Len(files) <= keep + faults + 1 /\ files # <<>> /\ at = 0
      /\ ~ClockBack => files[Len(files)] = "latest"
  BY DEF read_dir, BackupInv, PlaceSound, DirectoryBounded
<1>2. Len(files) \in Nat \ {0}
  BY <1>1, StateFacts
<1>3. Outdated \in 0..(Len(files) - 1) /\ Len(files) - Outdated <= keep
  BY <1>1, <1>2, StateFacts DEF Outdated
<1>4. (~ClockBack => LatestBackupKept)'
  BY <1>1 DEF BackupInv, LatestBackupKept
<1>5. CASE pc' = "prune" /\ at' = Outdated /\ UNCHANGED faults
  <2>1. TypeOK'
    <3>1. at' \in 0..Len(files')
      BY <1>1, <1>2, <1>3, <1>5
    <3> QED
      BY <1>1, <1>5, <3>1 DEF BackupInv, TypeOK
  <2>2. (keep > 0 => DirectoryBounded)'
    BY <1>1, <1>3, <1>5, StateFacts DEF DirectoryBounded
  <2>3. PlaceSound'
    <3>1. at' < Len(files')
      BY <1>1, <1>2, <1>3, <1>5
    <3> QED
      BY <1>1, <1>5, <3>1 DEF BackupInv, PlaceSound
  <2> QED
    BY <1>4, <2>1, <2>2, <2>3 DEF BackupInv
<1>6. CASE pc' = "wait" /\ UNCHANGED at /\ Fault
  <2>1. faults' = faults + 1 /\ faults' \in 0..MaxFaults
    BY <1>6, FaultFacts
  <2>2. TypeOK'
    BY <1>1, <1>6, <2>1 DEF BackupInv, TypeOK
  <2>3. (keep > 0 => DirectoryBounded)'
    BY <1>1, <1>6, <2>1, StateFacts DEF DirectoryBounded
  <2>4. PlaceSound'
    BY <1>1, <1>6 DEF BackupInv, PlaceSound
  <2> QED
    BY <1>4, <2>2, <2>3, <2>4 DEF BackupInv
<1> QED
  BY <1>5, <1>6 DEF read_dir

\* Without pruning the task waits for the next tick and touches no file.
LEMMA NoPruningKeeps ==
  ASSUME BackupInv, no_pruning
  PROVE  BackupInv'
<1>1. /\ pc = "list" /\ keep = 0 /\ pc' = "wait"
      /\ UNCHANGED <<keep, files, sameSecond, due, at, made, faults>>
  BY DEF no_pruning
<1>2. TypeOK'
  BY <1>1 DEF BackupInv, TypeOK
<1>3. PlaceSound'
  BY <1>1 DEF BackupInv, PlaceSound
<1>4. (~ClockBack => LatestBackupKept)'
  BY <1>1 DEF BackupInv, LatestBackupKept
<1> QED
  BY <1>1, <1>2, <1>3, <1>4 DEF BackupInv

\* A removal is below the last file, which stays the last.
LEMMA RemoveFileKeeps ==
  ASSUME BackupInv, remove_file
  PROVE  BackupInv'
<1>1. /\ pc = "prune" /\ keep > 0
      /\ UNCHANGED <<keep, sameSecond, due, made>>
      /\ at < Len(files) /\ Len(files) - at <= keep + faults
      /\ Len(files) <= keep + faults + 1
      /\ ~ClockBack => files[Len(files)] = "latest"
  BY DEF remove_file, BackupInv, PlaceSound, DirectoryBounded
<1>2. CASE /\ at # 0 /\ at' = at - 1 /\ files' = RemoveAt(files, at)
           /\ UNCHANGED <<faults, pc>>
  <2>1. at \in 1..Len(files) /\ Len(files) - 1 \in at..(Len(files) - 1)
    BY <1>1, <1>2, StateFacts
  <2>2. /\ files' \in Seq(Kinds) /\ Len(files') = Len(files) - 1
        /\ \A j \in at..(Len(files) - 1) : files'[j] = files[j + 1]
    BY <1>2, <2>1, StateFacts, RemoveAtFacts
  <2>3. files'[Len(files')] = files[Len(files)]
    <3>1. files'[Len(files) - 1] = files[(Len(files) - 1) + 1]
      BY <2>1, <2>2
    <3>2. (Len(files) - 1) + 1 = Len(files)
      BY StateFacts
    <3> QED
      BY <2>2, <3>1, <3>2
  <2>4. at' \in 0..Len(files') /\ at' < Len(files')
    BY <1>1, <1>2, <2>2, StateFacts
  <2>5. TypeOK'
    BY <1>1, <1>2, <2>2, <2>4 DEF BackupInv, TypeOK
  <2>6. (keep > 0 => DirectoryBounded)'
    BY <1>1, <1>2, <2>2, StateFacts DEF DirectoryBounded
  <2>7. Len(files') \in DOMAIN files' /\ files' # <<>>
    BY <2>2, <2>4, StateFacts
  <2>8. PlaceSound'
    BY <1>1, <1>2, <2>3, <2>4, <2>7 DEF PlaceSound
  <2>9. (~ClockBack => LatestBackupKept)'
    BY <1>1, <2>3, <2>7 DEF LatestBackupKept
  <2> QED
    BY <2>5, <2>6, <2>8, <2>9 DEF BackupInv
<1>3. CASE at # 0 /\ at' = at - 1 /\ UNCHANGED <<files, pc>> /\ Fault
  <2>1. faults' = faults + 1 /\ faults' \in 0..MaxFaults
    BY <1>3, FaultFacts
  <2>2. at' \in 0..Len(files) /\ at' < Len(files)
    BY <1>1, <1>3, StateFacts
  <2>3. TypeOK'
    BY <1>1, <1>3, <2>1, <2>2 DEF BackupInv, TypeOK
  <2>4. (keep > 0 => DirectoryBounded)'
    BY <1>1, <1>3, <2>1, StateFacts DEF DirectoryBounded
  <2>5. PlaceSound'
    BY <1>1, <1>3, <2>2 DEF BackupInv, PlaceSound
  <2>6. (~ClockBack => LatestBackupKept)'
    BY <1>1, <1>3 DEF BackupInv, LatestBackupKept
  <2> QED
    BY <2>3, <2>4, <2>5, <2>6 DEF BackupInv
<1>4. CASE at = 0 /\ pc' = "wait" /\ UNCHANGED <<files, at, faults>>
  <2>1. TypeOK'
    BY <1>1, <1>4 DEF BackupInv, TypeOK
  <2>2. (keep > 0 => DirectoryBounded)'
    BY <1>1, <1>4, StateFacts DEF DirectoryBounded
  <2>3. PlaceSound'
    BY <1>1, <1>4 DEF BackupInv, PlaceSound
  <2>4. (~ClockBack => LatestBackupKept)'
    BY <1>1, <1>4 DEF BackupInv, LatestBackupKept
  <2> QED
    BY <2>1, <2>2, <2>3, <2>4 DEF BackupInv
<1> QED
  BY <1>2, <1>3, <1>4 DEF remove_file

\* A crash counts as one failure, whatever it cuts off.
LEMMA CrashKeeps ==
  ASSUME BackupInv, Crash
  PROVE  BackupInv'
<1>1. /\ pc' = "down" /\ at' = 0 /\ due' = FALSE
      /\ UNCHANGED <<keep, files, sameSecond, made>>
  BY DEF Crash
<1>2. faults' = faults + 1 /\ faults' \in 0..MaxFaults
  BY FaultFacts DEF Crash
<1>3. TypeOK'
  <2>1. {sameSecond', due', made'} \subseteq BOOLEAN
    BY <1>1 DEF BackupInv, TypeOK
  <2>2. at' \in 0..Len(files')
    BY <1>1, StateFacts
  <2> QED
    BY <1>1, <1>2, <2>1, <2>2 DEF BackupInv, TypeOK
<1>4. keep > 0 => Len(files) <= keep + faults + 1
  BY StateFacts DEF BackupInv, DirectoryBounded, TypeOK
<1>5. (keep > 0 => DirectoryBounded)'
  BY <1>1, <1>2, <1>4, StateFacts DEF DirectoryBounded
<1>6. PlaceSound'
  BY <1>1 DEF BackupInv, PlaceSound
<1>7. (~ClockBack => LatestBackupKept)'
  BY <1>1 DEF BackupInv, LatestBackupKept
<1> QED
  BY <1>3, <1>5, <1>6, <1>7 DEF BackupInv

-----------------------------------------------------------------------------
(* The invariant.                                                          *)

\* The task starts with an empty directory.
LEMMA InitInv ==
  Init => BackupInv
<1> SUFFICES ASSUME Init PROVE BackupInv
  OBVIOUS
<1>1. Len(files) = 0 /\ files \in Seq(Kinds) /\ 0 \in 0..MaxFaults
  BY ConstantsAssumption DEF Init
<1>2. TypeOK
  <2>1. {sameSecond, due, made} \subseteq BOOLEAN
    BY DEF Init
  <2>2. at \in 0..Len(files)
    BY <1>1 DEF Init
  <2> QED
    BY <1>1, <2>1, <2>2 DEF Init, TypeOK
<1>3. DirectoryBounded
  BY <1>1, ConstantsAssumption DEF Init, DirectoryBounded
<1>4. PlaceSound /\ LatestBackupKept
  BY DEF Init, PlaceSound, LatestBackupKept
<1> QED
  BY <1>2, <1>3, <1>4 DEF BackupInv

\* Every step of the task, of the clock and of crashes keeps BackupInv.
LEMMA StepInv ==
  BackupInv /\ [Next]_vars => BackupInv'
<1> SUFFICES ASSUME BackupInv, [Next]_vars PROVE BackupInv'
  OBVIOUS
<1>1. /\ faults \in 0..MaxFaults /\ faults >= faults
      /\ {sameSecond, due} \subseteq BOOLEAN
  BY StateFacts DEF BackupInv, TypeOK
<1>2. CASE UNCHANGED vars
  BY <1>1, <1>2, SameDirectory DEF vars
<1>3. CASE restart \/ boot
  <2>1. /\ pc \in {"idle", "down"} /\ pc' \in {"down", "start"}
        /\ UNCHANGED <<keep, files, sameSecond, due, at, made, faults>>
    BY <1>3 DEF restart, boot
  <2>2. at = 0
    BY <2>1 DEF BackupInv, PlaceSound
  <2> QED
    BY <1>1, <2>1, <2>2, SameDirectory
<1>4. CASE Second \/ IntervalElapses
  <2>1. /\ sameSecond' = FALSE /\ due' \in BOOLEAN
        /\ UNCHANGED <<keep, files, pc, at, made, faults>>
    BY <1>1, <1>4 DEF Second, IntervalElapses
  <2> QED
    BY <1>1, <2>1, SameDirectory
<1> QED
  BY <1>2, <1>3, <1>4, CreateDirKeeps, BackupToDirKeeps, VacuumKeeps,
     NoPruningKeeps, ReadDirKeeps, RemoveFileKeeps, CrashKeeps
  DEF Next, Work, prune_old_backups

-----------------------------------------------------------------------------
(* The theorem.                                                            *)

\* However many snapshots fail, are cut off or cannot be removed, the
\* directory holds at most keep files, the one being made and one for each
\* failure, unless keep = 0 disables the pruning; and for every keep, with a
\* clock that does not step back, the snapshot completed last is there,
\* although partial files count like good ones (backup.rs, run_backup_loop and
\* prune_old_backups).
THEOREM LatestIsKept == Spec => []BackupInv
BY InitInv, StepInv, PTL DEF Spec

=============================================================================
