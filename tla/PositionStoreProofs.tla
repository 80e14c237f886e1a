------------------------- MODULE PositionStoreProofs ------------------------
(***************************************************************************)
(* Theorems about PositionStore.                                           *)
(*                                                                         *)
(* One process saves: the store implements Ledger.  Either nobody else     *)
(* runs, and damage to the file, failing reads and writes and crashes may  *)
(* happen, but backups get written and recoveries finish; or any number of *)
(* readers run beside it and the file can always be read.                  *)
(***************************************************************************)
EXTENDS PositionStore, TLAPS

Kept == (Maps \ {Empty}) \cup {Torn}

(***************************************************************************)
(* Backups                                                                 *)
(***************************************************************************)

\* The newest usable backup is unique.
LEMMA LatestIs ==
  ASSUME NEW q \in Seq(Kept), NEW i \in 1..Len(q), IsLatest(q, i)
  PROVE  LatestIn(q) = q[i]
<1> DEFINE c == CHOOSE k \in 1..Len(q) : IsLatest(q, k)
<1>1. c \in 1..Len(q) /\ IsLatest(q, c)
  OBVIOUS
<1>2. c = i
  <2>1. ~(c < i)
    BY <1>1 DEF IsLatest
  <2>2. ~(i < c)
    BY <1>1 DEF IsLatest
  <2> QED
    BY <1>1, <2>1, <2>2
<1> QED
  BY <1>1, <1>2 DEF LatestIn

\* What a restore finds is a map.
LEMMA LatestIsMap ==
  ASSUME NEW q \in Seq(Kept)
  PROVE  LatestIn(q) \in Maps
<1>1. Empty \in Maps
  BY DEF Empty, Maps
<1>2. CASE \E i \in 1..Len(q) : IsLatest(q, i)
  <2>1. PICK i \in 1..Len(q) : IsLatest(q, i)
    BY <1>2
  <2>2. q[i] \in Kept /\ q[i] # Torn
    BY <2>1 DEF IsLatest
  <2> QED
    BY <2>1, <2>2, LatestIs DEF Kept
<1>3. CASE ~ \E i \in 1..Len(q) : IsLatest(q, i)
  BY <1>1, <1>3 DEF LatestIn
<1> QED
  BY <1>2, <1>3

\* A torn backup hides nothing.
LEMMA LatestBeforeTorn ==
  ASSUME NEW q \in Seq(Kept)
  PROVE  /\ Append(q, Torn) \in Seq(Kept)
         /\ LatestIn(Append(q, Torn)) = LatestIn(q)
<1> DEFINE r == Append(q, Torn)
<1>1. /\ r \in Seq(Kept) /\ Len(r) = Len(q) + 1 /\ r[Len(q) + 1] = Torn
      /\ \A i \in 1..Len(q) : r[i] = q[i]
  BY DEF Kept
<1>2. \A i \in 1..Len(q) : IsLatest(q, i) => IsLatest(r, i)
  BY <1>1 DEF IsLatest
<1>3. \A i \in 1..Len(r) : IsLatest(r, i) => i \in 1..Len(q) /\ IsLatest(q, i)
  BY <1>1 DEF IsLatest
<1>4. CASE \E i \in 1..Len(q) : IsLatest(q, i)
  <2>1. PICK i \in 1..Len(q) : IsLatest(q, i)
    BY <1>4
  <2>2. i \in 1..Len(r) /\ IsLatest(r, i) /\ r[i] = q[i]
    BY <2>1, <1>1, <1>2
  <2> QED
    BY <1>1, <2>1, <2>2, LatestIs
<1>5. CASE ~ \E i \in 1..Len(q) : IsLatest(q, i)
  <2>1. ~ \E i \in 1..Len(r) : IsLatest(r, i)
    BY <1>3, <1>5
  <2> QED
    BY <1>1, <1>5, <2>1 DEF LatestIn
<1> QED
  BY <1>4, <1>5

\* Pruning never drops the backup just written.
LEMMA LatestAfterBackup ==
  ASSUME NEW q \in Seq(Kept), NEW map \in Maps \ {Empty},
         NEW r \in Pruned(Append(q, map))
  PROVE  /\ r \in Seq(Kept)
         /\ LatestIn(r) = map
<1> DEFINE a == Append(q, map)
<1>1. /\ a \in Seq(Kept) /\ Len(a) = Len(q) + 1 /\ Len(a) \in Nat
      /\ a[Len(a)] = map
  BY DEF Kept
<1>2. PICK k \in 0..Len(a) : /\ k = Len(a) \/ k >= KeepMin
                             /\ r = SubSeq(a, Len(a) - k + 1, Len(a))
  BY DEF Pruned
<1>3. k \in 1..Len(a)
  BY <1>1, <1>2, KeepAssumption
<1>4. /\ r \in Seq(Kept) /\ Len(r) = k /\ r[k] = map
  BY <1>1, <1>2, <1>3
<1>5. IsLatest(r, k)
  BY <1>3, <1>4, FileAssumption DEF IsLatest
<1> QED
  BY <1>3, <1>4, <1>5, LatestIs

\* A read of the latest backup is a map, whatever the file holds.
LEMMA VisibleIsMap ==
  ASSUME TypeOK
  PROVE  LatestBackup \in Maps /\ Visible \in Maps
BY LatestIsMap DEF TypeOK, Visible, LatestBackup, Kept

(***************************************************************************)
(* Types                                                                   *)
(***************************************************************************)

\* An operation changes one entry of a map and yields a map.
LEMMA UpdatedIsMap ==
  ASSUME TypeOK, NEW p \in Procs
  PROVE  Updated(p) \in Maps
BY DEF TypeOK, Updated, Change, Maps

\* Every disk access of every process, and every damage, keeps the types.
LEMMA TypeStep ==
  ASSUME TypeOK, [Next]_vars
  PROVE  TypeOK'
<1> USE DEF TypeOK, Goto, PcValues, history
<1>1. Empty \in Maps
  BY DEF Empty, Maps
<1>2. ASSUME NEW p \in Procs, Begin(p)
      PROVE  TypeOK'
  BY <1>2 DEF Begin
<1>3. ASSUME NEW p \in Procs, Exists(p)
      PROVE  TypeOK'
  BY <1>1, <1>3 DEF Exists, Loaded
<1>4. ASSUME NEW p \in Procs, Read(p)
      PROVE  TypeOK'
  <2>1. mem' \in [Procs -> Maps] /\ pc' \in [Procs -> PcValues]
    BY <1>4 DEF Read, Loaded
  <2>2. faults' \in 0..MaxFaults[up]
    BY <1>4, FaultAssumption DEF Read, Fail
  <2> QED
    BY <1>4, <2>1, <2>2 DEF Read
<1>5. ASSUME NEW p \in Procs, Quarantine(p)
      PROVE  TypeOK'
  BY <1>5, FaultAssumption DEF Quarantine, Fail
<1>6. ASSUME NEW p \in Procs, PickBackup(p)
      PROVE  TypeOK'
  BY <1>1, <1>6, VisibleIsMap DEF PickBackup, Loaded
<1>7. ASSUME NEW p \in Procs, Rewrite(p)
      PROVE  TypeOK'
  BY <1>7, FaultAssumption DEF Rewrite, Loaded, Fail
<1>8. ASSUME NEW p \in Procs, Backup(p)
      PROVE  TypeOK'
  <2>1. backups' \in Seq(Kept)
    <3>1. CASE file \in Maps \ {Empty} /\ backups' \in Pruned(Append(backups, file))
      BY <3>1, LatestAfterBackup DEF Kept
    <3>2. CASE backups' = Append(backups, Torn)
      BY <3>2 DEF Kept
    <3> QED
      BY <1>8, <3>1, <3>2 DEF Backup, Kept
  <2>2. faults' \in 0..MaxFaults[up]
    BY <1>8, FaultAssumption DEF Backup, Fail
  <2> QED
    BY <1>8, <2>1, <2>2 DEF Backup, Kept
<1>9. ASSUME NEW p \in Procs, Write(p)
      PROVE  TypeOK'
  <2>1. file' \in Maps \cup {Absent, Torn} /\ previous' \in Maps
    BY <1>9, UpdatedIsMap, VisibleIsMap DEF Write, Overtakes
  <2>2. overtaken' \in [Procs -> SUBSET Symbols]
    <3>1. change[p].sym \in Symbols
      BY DEF Change
    <3> QED
      BY <1>9, <3>1 DEF Write, Overtakes
  <2>3. faults' \in 0..MaxFaults[up]
    BY <1>9, FaultAssumption DEF Write, Fail
  <2> QED
    BY <1>9, <2>1, <2>2, <2>3 DEF Write
<1>10. ASSUME NEW p \in Procs, Crash(p)
       PROVE  TypeOK'
  <2>1. backups' \in Seq((Maps \ {Empty}) \cup {Torn})
    BY <1>10 DEF Crash
  <2> QED
    BY <1>10, <2>1, FaultAssumption DEF Crash, Fail
<1>11. CASE Damage
  BY <1>11, FaultAssumption DEF Damage, Fail
<1>12. CASE UNCHANGED vars
  BY <1>12 DEF vars
<1> QED
  BY <1>2, <1>3, <1>4, <1>5, <1>6, <1>7, <1>8, <1>9, <1>10, <1>11, <1>12
     DEF Next, Step

\* The initial state has the types.
LEMMA InitialTypes ==
  ASSUME Init
  PROVE  TypeOK
<1>1. (CHOOSE c \in Change : TRUE) \in Change
  <2>1. PICK s \in Symbols : TRUE
    BY NamesAssumption
  <2>2. [sym |-> s, entry |-> NoEntry] \in Change
    BY <2>1 DEF Change
  <2> QED
    BY <2>2
<1>2. Empty \in Maps
  BY DEF Empty, Maps
<1>3. 0 \in 0..MaxFaults[up]
  BY FaultAssumption DEF Init
<1> QED
  BY <1>1, <1>2, <1>3 DEF Init, TypeOK, PcValues

\* The variables keep their types for any processes and any failures:
\* whatever a load or a recovery returns is a map, and the kept backups are
\* maps with entries or torn files.
THEOREM TypeCorrect == Spec => []TypeOK
<1>1. Init => TypeOK
  BY InitialTypes
<1> QED
  BY <1>1, TypeStep, PTL DEF Spec

(***************************************************************************)
(* A lone writer implements Ledger                                         *)
(***************************************************************************)

\* One process, whose backups get written and whose recoveries finish.
Lone(w) == w \in Writers /\ Faults[{w}] \cap {"backup", "recovery"} = {}

\* Nobody else runs.
OthersIdle(w) == up = {w} /\ \A p \in Procs \ {w} : pc[p] = "idle"

\* The file is missing only when there is nothing to restore, or while w is
\* restoring it.
MissingIsEmpty(w) ==
  /\ file = Absent /\ pc[w] \notin {"pick", "rewrite"} => LatestBackup = Empty
  /\ pc[w] \in {"pick", "rewrite"} => file = Absent

\* What w has loaded is what a reader sees.
LoadedIsVisible(w) ==
  /\ pc[w] \in {"backup", "write"} => mem[w] = Visible
  /\ pc[w] = "rewrite" => mem[w] = LatestBackup

\* What w is about to replace has been backed up.
BackedUp(w) ==
  /\ pc[w] = "write" /\ Visible # Empty => LatestBackup = Visible
  /\ LatestBackup = Empty => previous = Empty

IInv(w) ==
  /\ TypeOK
  /\ MissingIsEmpty(w)
  /\ LoadedIsVisible(w)
  /\ BackedUp(w)
  /\ LatestBackup \in {Visible, previous}

\* A step of the promise, seen through the file: a save, a set-back or none.
Saves(s, entry) ==
  /\ Visible' = [Visible EXCEPT ![s] = entry]
  /\ previous' = IF Visible = Empty THEN previous ELSE Visible

SetsBack == Visible' = previous /\ previous' = previous

Promised ==
  \/ \E s \in Symbols, entry \in Entries \cup {NoEntry} : Saves(s, entry)
  \/ SetsBack
  \/ Visible' = Visible /\ previous' = previous

\* The state of Ledger as the refinement maps it.
Seen == <<IF Alone THEN Visible ELSE Empty, IF Alone THEN previous ELSE Empty>>

\* Under a lone writer a promised step is a step of Ledger.
LEMMA PromisedIsNext ==
  ASSUME Alone, Alone', Promised
  PROVE  [Promise!Next]_Seen
<1>1. CASE Visible' = Visible /\ previous' = previous
  BY <1>1 DEF Seen, Empty
<1>2. CASE SetsBack
  BY <1>2 DEF SetsBack, Promise!Next, Promise!SetBack
<1>3. ASSUME NEW s \in Symbols, NEW entry \in Entries \cup {NoEntry}, Saves(s, entry)
      PROVE  Promise!Next
  <2>1. Promise!Save(s, entry)
    BY <1>3 DEF Saves, Promise!Save, Promise!Empty, Empty
  <2> QED
    BY <2>1 DEF Promise!Next
<1> QED
  BY <1>1, <1>2, <1>3 DEF Promised

\* The others stay idle.
LEMMA OthersStayIdle ==
  ASSUME NEW w, Lone(w), TypeOK, OthersIdle(w), [Next]_vars
  PROVE  OthersIdle(w)' /\ Alone'
<1>1. up' = up
  BY DEF Next, Step, vars, Begin, Exists, Read, Quarantine, PickBackup, Rewrite,
         Backup, Write, Crash, Damage
<1>2. ASSUME NEW p \in Procs \ {w}, Step(p)
      PROVE  FALSE
  BY <1>2 DEF OthersIdle, Step, Begin, Exists, Read, Quarantine, PickBackup, Rewrite,
              Backup, Write, Crash
<1>3. ASSUME Step(w)
      PROVE  \A p \in Procs \ {w} : pc'[p] = pc[p]
  BY <1>3 DEF TypeOK, Step, Begin, Exists, Read, Quarantine, PickBackup, Rewrite,
              Backup, Write, Crash, Loaded, Goto
<1>4. \A p \in Procs \ {w} : pc'[p] = pc[p]
  <2>1. CASE UNCHANGED vars
    BY <2>1 DEF vars
  <2>2. CASE Damage
    BY <2>2 DEF Damage
  <2> QED
    BY <1>2, <1>3, <2>1, <2>2 DEF Next
<1> QED
  BY <1>1, <1>4 DEF OthersIdle, Alone

\* Before the first save the file shows the empty map of Ledger.
LEMMA Initially ==
  ASSUME NEW w, Lone(w), Init, up = {w}
  PROVE  IInv(w) /\ OthersIdle(w) /\ Promise!Init
<1>1. LatestBackup = Empty /\ Visible = Empty
  <2>1. LatestIn(<<>>) = Empty
    BY DEF LatestIn
  <2> QED
    BY <2>1, FileAssumption DEF Init, Visible, LatestBackup
<1>2. TypeOK
  BY InitialTypes
<1>3. pc[w] = "idle" /\ OthersIdle(w) /\ Alone
  BY DEF Init, Lone, Procs, OthersIdle, Alone
<1> QED
  BY <1>1, <1>2, <1>3
     DEF Init, IInv, MissingIsEmpty, LoadedIsVisible, BackedUp, history,
         Promise!Init, Promise!Empty, Empty

\* Steps that change neither the file nor the backups.
LEMMA LookingStep ==
  ASSUME NEW w, Lone(w), OthersIdle(w), IInv(w), TypeOK',
         UNCHANGED <<file, backups, previous>>,
         \/ Begin(w) \/ Exists(w) \/ PickBackup(w)
         \/ (Crash(w) /\ UNCHANGED backups)
  PROVE  IInv(w)' /\ Promised
<1>1. LatestBackup' = LatestBackup /\ Visible' = Visible
  BY DEF Visible, LatestBackup
<1>2. w \in Procs /\ pc \in [Procs -> PcValues] /\ mem \in [Procs -> Maps]
  BY DEF IInv, TypeOK, Lone, Procs
<1>3. CASE Begin(w)
  BY <1>1, <1>2, <1>3
     DEF IInv, Begin, Goto, MissingIsEmpty, LoadedIsVisible, BackedUp,
         history, Promised
<1>4. CASE Exists(w)
  <2>1. CASE file = Absent
    BY <1>1, <1>2, <1>4, <2>1, FileAssumption
       DEF IInv, Exists, Loaded, Goto, Lone, MissingIsEmpty, LoadedIsVisible,
           BackedUp, history, Promised, Visible
  <2>2. CASE file # Absent
    BY <1>1, <1>2, <1>4, <2>2
       DEF IInv, Exists, Goto, MissingIsEmpty, LoadedIsVisible, BackedUp,
           history, Promised
  <2> QED
    BY <2>1, <2>2
<1>5. CASE PickBackup(w)
  <2>1. file = Absent /\ Visible = LatestBackup
    BY <1>5, FileAssumption DEF IInv, MissingIsEmpty, PickBackup, Visible
  <2> QED
    BY <1>1, <1>2, <1>5, <2>1
       DEF IInv, PickBackup, Loaded, Goto, Lone, MissingIsEmpty,
           LoadedIsVisible, BackedUp, history, Promised
<1>6. CASE Crash(w) /\ UNCHANGED backups
  <2>1. pc[w] \notin {"pick", "rewrite"}
    BY <1>6 DEF Crash, Fail, Lone, OthersIdle, history
  <2> QED
    BY <1>1, <1>2, <1>6, <2>1
       DEF IInv, Crash, Goto, MissingIsEmpty, LoadedIsVisible, BackedUp,
           history, Promised
<1> QED
  BY <1>3, <1>4, <1>5, <1>6

\* The file is damaged, or what is left of it is moved aside: a reader is set
\* back to the latest backup.
LEMMA DamageStep ==
  ASSUME NEW w, Lone(w), OthersIdle(w), IInv(w), TypeOK', Damage \/ Quarantine(w)
  PROVE  IInv(w)' /\ Promised
<1>1. LatestBackup' = LatestBackup /\ Visible' = LatestBackup'
  BY FileAssumption DEF Damage, Quarantine, Fail, Lone, OthersIdle, history, Visible, LatestBackup
<1>2. w \in Procs /\ pc \in [Procs -> PcValues]
  BY DEF IInv, TypeOK, Lone, Procs
<1>3. /\ previous' = previous
      /\ pc'[w] \in {"idle", "pick"}
      /\ pc'[w] = "pick" => file' = Absent
      /\ pc'[w] = "idle" => file' # Absent
  BY <1>2, NamesAssumption DEF Damage, Quarantine, Fail, Lone, OthersIdle, history, Goto
<1>4. IInv(w)'
  BY <1>1, <1>3
     DEF IInv, MissingIsEmpty, LoadedIsVisible, BackedUp, history
<1>5. Promised
  BY <1>1, <1>3
     DEF Promised, IInv, SetsBack
<1> QED
  BY <1>4, <1>5

\* The file is read.
LEMMA ReadStep ==
  ASSUME NEW w, Lone(w), OthersIdle(w), IInv(w), TypeOK', Read(w)
  PROVE  IInv(w)' /\ Promised
<1>1. LatestBackup' = LatestBackup /\ Visible' = Visible
  BY DEF Read, Visible, LatestBackup
<1>2. w \in Procs /\ pc \in [Procs -> PcValues] /\ mem \in [Procs -> Maps]
  BY DEF IInv, TypeOK, Lone, Procs
<1>3. CASE pc' = [pc EXCEPT ![w] = "quarantine"]
  BY <1>1, <1>2, <1>3
     DEF IInv, Read, MissingIsEmpty, LoadedIsVisible, BackedUp,
         history, Promised
<1>4. CASE file \in Maps /\ Loaded(w, file)
  BY <1>1, <1>2, <1>4, FileAssumption
     DEF IInv, Read, Loaded, Goto, Lone, MissingIsEmpty, LoadedIsVisible,
         BackedUp, history, Promised, Visible
<1> QED
  BY <1>3, <1>4 DEF Read, Goto

\* The restored map is written back: a reader sees no change.
LEMMA RewriteStep ==
  ASSUME NEW w, Lone(w), OthersIdle(w), IInv(w), TypeOK', Rewrite(w)
  PROVE  IInv(w)' /\ Promised
<1>1. w \in Procs /\ pc \in [Procs -> PcValues] /\ mem \in [Procs -> Maps]
  BY DEF IInv, TypeOK, Lone, Procs
<1>2. /\ file = Absent /\ mem[w] = LatestBackup
      /\ file' = mem[w] /\ file' \in Maps
  BY <1>1 DEF Rewrite, Fail, Lone, OthersIdle, history, IInv, MissingIsEmpty, LoadedIsVisible
<1>3. LatestBackup' = LatestBackup /\ Visible' = Visible /\ Visible = mem[w]
  BY <1>2, FileAssumption DEF Rewrite, Visible, LatestBackup
<1>4. mem'[w] = mem[w] /\ pc'[w] = "backup" /\ previous' = previous
  BY <1>1, NamesAssumption DEF Rewrite, Loaded, Goto, Lone, history
<1>5. IInv(w)'
  BY <1>2, <1>3, <1>4, FileAssumption
     DEF IInv, MissingIsEmpty, LoadedIsVisible, BackedUp, history
<1>6. Promised
  BY <1>3, <1>4 DEF Promised
<1> QED
  BY <1>5, <1>6

\* What is on disk is backed up, or a process dies doing so.
LEMMA BackupStep ==
  ASSUME NEW w, Lone(w), OthersIdle(w), IInv(w), TypeOK',
         Backup(w) \/ (Crash(w) /\ backups' = Append(backups, Torn))
  PROVE  IInv(w)' /\ Promised
<1>1. w \in Procs /\ pc \in [Procs -> PcValues] /\ backups \in Seq(Kept)
  BY DEF IInv, TypeOK, Lone, Procs, Kept
<1>2. CASE Backup(w) /\ file \in Maps \ {Empty}
  <2>1. backups' \in Pruned(Append(backups, file))
    BY <1>2 DEF Backup, Fail, Lone, OthersIdle, history
  <2>2. LatestBackup' = file /\ Visible' = file /\ Visible = file
    BY <1>1, <1>2, <2>1, LatestAfterBackup DEF Backup, Visible, LatestBackup
  <2>3. /\ pc[w] = "backup" /\ pc'[w] = "write"
        /\ UNCHANGED <<file, mem, previous>>
    BY <1>1, <1>2 DEF Backup, Goto, history
  <2> QED
    BY <1>2, <2>2, <2>3, FileAssumption
       DEF IInv, MissingIsEmpty, LoadedIsVisible, BackedUp, history,
           Promised
<1>3. CASE Backup(w) /\ file \notin Maps \ {Empty}
  <2>1. LatestBackup' = LatestBackup /\ Visible' = Visible
    BY <1>3 DEF Backup, Visible, LatestBackup
  <2>2. /\ pc[w] = "backup" /\ pc'[w] = "write"
        /\ UNCHANGED <<file, mem, previous>>
    BY <1>1, <1>3 DEF Backup, Goto, history
  <2>3. Visible # Empty => LatestBackup = Visible
    BY <1>3 DEF Visible
  <2> QED
    BY <2>1, <2>2, <2>3
       DEF IInv, MissingIsEmpty, LoadedIsVisible, BackedUp, history,
           Promised
<1>4. CASE Crash(w) /\ backups' = Append(backups, Torn)
  <2>1. LatestBackup' = LatestBackup
    BY <1>1, <1>4, LatestBeforeTorn DEF LatestBackup
  <2>2. /\ pc[w] \notin {"pick", "rewrite"} /\ pc'[w] = "idle"
        /\ UNCHANGED <<file, mem, previous>>
    BY <1>1, <1>4 DEF Crash, Fail, Lone, OthersIdle, history, Goto
  <2>3. Visible' = Visible
    BY <2>1, <2>2 DEF Visible
  <2> QED
    BY <2>1, <2>2, <2>3
       DEF IInv, MissingIsEmpty, LoadedIsVisible, BackedUp, history,
           Promised
<1> QED
  BY <1>2, <1>3, <1>4

\* The new map replaces the file: one entry changes.
LEMMA WriteStep ==
  ASSUME NEW w, Lone(w), OthersIdle(w), IInv(w), TypeOK', Write(w)
  PROVE  IInv(w)' /\ Promised
<1>1. /\ w \in Procs /\ pc \in [Procs -> PcValues] /\ TypeOK
      /\ change[w] \in Change
  BY DEF IInv, TypeOK, Lone, Procs
<1>2. LatestBackup' = LatestBackup /\ pc[w] = "write" /\ pc'[w] = "idle"
  BY <1>1 DEF Write, Goto, LatestBackup
<1>3. CASE UNCHANGED <<file, history>>
  <2>1. Visible' = Visible
    BY <1>2, <1>3 DEF Visible
  <2> QED
    BY <1>2, <1>3, <2>1
       DEF IInv, MissingIsEmpty, LoadedIsVisible, BackedUp, history,
           Promised
<1>4. CASE /\ file' = Updated(w)
           /\ previous' = IF Visible = Empty THEN previous ELSE Visible
  <2>1. mem[w] = Visible
    BY <1>2 DEF IInv, LoadedIsVisible
  <2>2. file' \in Maps /\ Visible' = Updated(w)
    BY <1>1, <1>4, UpdatedIsMap DEF Visible
  <2>3. IInv(w)'
    BY <1>2, <1>4, <2>2, FileAssumption
       DEF IInv, MissingIsEmpty, LoadedIsVisible, BackedUp, history
  <2>4. Saves(change[w].sym, change[w].entry)
    BY <1>4, <2>1, <2>2 DEF Saves, Updated
  <2>5. Promised
    BY <1>1, <2>4 DEF Promised, Change
  <2> QED
    BY <2>3, <2>5
<1> QED
  BY <1>3, <1>4 DEF Write, Overtakes

\* With one writer and no reader, every disk access keeps the inductive
\* invariant and is, seen through the file, a step of Ledger or none.
LEMMA LoneStep ==
  ASSUME NEW w, Lone(w), OthersIdle(w), IInv(w), [Next]_vars
  PROVE  IInv(w)' /\ Promised
<1>1. TypeOK'
  BY TypeStep DEF IInv
<1>2. \A p \in Procs : Step(p) => p = w
  BY DEF OthersIdle, Step, Begin, Exists, Read, Quarantine, PickBackup, Rewrite,
         Backup, Write, Crash
<1>3. CASE Damage
  BY <1>1, <1>3, DamageStep
<1>4. CASE UNCHANGED vars
  <2>1. LatestBackup' = LatestBackup /\ Visible' = Visible
    BY <1>4 DEF vars, Visible, LatestBackup
  <2> QED
    BY <1>1, <1>4, <2>1
       DEF vars, IInv, MissingIsEmpty, LoadedIsVisible, BackedUp,
           history, Promised
<1>5. CASE Step(w)
  <2>1. CASE Begin(w) \/ Exists(w) \/ PickBackup(w)
    <3>1. UNCHANGED <<file, backups, previous>>
      BY <2>1 DEF Begin, Exists, PickBackup, history
    <3> QED
      BY <1>1, <2>1, <3>1, LookingStep
  <2>2. CASE Read(w)
    BY <1>1, <2>2, ReadStep
  <2>3. CASE Quarantine(w)
    BY <1>1, <2>3, DamageStep
  <2>4. CASE Rewrite(w)
    BY <1>1, <2>4, RewriteStep
  <2>5. CASE Backup(w)
    BY <1>1, <2>5, BackupStep
  <2>6. CASE Write(w)
    BY <1>1, <2>6, WriteStep
  <2>7. CASE Crash(w)
    <3>1. CASE UNCHANGED backups
      BY <1>1, <2>7, <3>1, LookingStep DEF Crash, history
    <3>2. CASE backups' = Append(backups, Torn)
      BY <1>1, <2>7, <3>2, BackupStep
    <3> QED
      BY <2>7, <3>1, <3>2 DEF Crash
  <2> QED
    BY <1>5, <2>1, <2>2, <2>3, <2>4, <2>5, <2>6, <2>7 DEF Step
<1> QED
  BY <1>2, <1>3, <1>4, <1>5 DEF Next

(***************************************************************************)
(* Several writers lose only what overlaps                                 *)
(***************************************************************************)

\* Processes none of which ever finds the file damaged or unreadable.
Calm(g) == Faults[g] \cap {"damage", "read"} = {}

\* The file is never recovered; as long as there is none there are no backups.
NeverRecovered ==
  /\ file # Torn
  /\ file = Absent => backups = <<>>
  /\ \A p \in Procs : /\ pc[p] \in {"idle", "exists", "read", "backup", "write"}
                      /\ pc[p] = "read" => file # Absent

\* What p has loaded is out of date only where others saved meanwhile.
StaleOnlyWhereOvertaken ==
  \A p \in Procs : pc[p] \in {"backup", "write"} =>
    \A s \in Symbols \ overtaken[p] : mem[p][s] = Visible[s]

OInv == TypeOK /\ NeverRecovered /\ StaleOnlyWhereOvertaken

\* Without a file and without backups a reader sees the empty map.
LEMMA NothingVisible ==
  ASSUME NeverRecovered, TypeOK, file = Absent
  PROVE  Visible = Empty
<1>1. LatestIn(<<>>) = Empty
  BY DEF LatestIn
<1> QED
  BY <1>1, FileAssumption DEF NeverRecovered, Visible, LatestBackup

\* Steps of p that leave the file alone: nobody else notices.
LEMMA OvertakenQuiet ==
  ASSUME OInv, TypeOK', NEW p \in Procs,
         file' = file,
         Visible' = Visible,
         \A q \in Procs \ {p} : pc'[q] = pc[q] /\ mem'[q] = mem[q] /\ overtaken'[q] = overtaken[q],
         pc'[p] \in {"backup", "write"} =>
           \A s \in Symbols \ overtaken'[p] : mem'[p][s] = Visible[s]
  PROVE  StaleOnlyWhereOvertaken'
BY DEF OInv, StaleOnlyWhereOvertaken

\* A save of p is old only where p was overtaken, and so are the others'
\* copies only where p is about to be told to them.
LEMMA OvertakingWrite ==
  ASSUME OInv, TypeOK', NEW p \in Procs, Write(p)
  PROVE  /\ StaleOnlyWhereOvertaken'
         /\ file' # file => \A s \in Symbols \ (overtaken[p] \cup {change[p].sym}) :
                               file'[s] = Visible[s]
<1>1. pc' = [pc EXCEPT ![p] = "idle"] /\ pc[p] = "write" /\ mem' = mem /\ backups' = backups
  BY DEF Write, Goto
<1>2. CASE UNCHANGED <<file, history>>
  <2>1. Visible' = Visible
    BY <1>1, <1>2 DEF Visible, LatestBackup
  <2> QED
    BY <1>1, <1>2, <2>1 DEF OInv, TypeOK, StaleOnlyWhereOvertaken, history
<1>3. CASE file' = Updated(p) /\ Overtakes(p)
  <2>1. Visible' = Updated(p)
    BY <1>3, UpdatedIsMap DEF OInv, Visible
  <2>2. \A s \in Symbols \ (overtaken[p] \cup {change[p].sym}) : Updated(p)[s] = Visible[s]
    BY <1>1 DEF OInv, StaleOnlyWhereOvertaken, Updated, TypeOK, Maps
  <2>3. ASSUME NEW q \in Procs, pc'[q] \in {"backup", "write"},
               NEW s \in Symbols \ overtaken'[q]
        PROVE  mem'[q][s] = Visible'[s]
    <3>1. q # p /\ pc[q] = pc'[q]
      BY <1>1, <2>3 DEF OInv, TypeOK
    <3>2. overtaken'[q] = overtaken[q] \cup overtaken[p] \cup {change[p].sym}
      BY <1>3, <2>3, <3>1 DEF Overtakes
    <3>3. mem[q][s] = Visible[s]
      BY <2>3, <3>1, <3>2 DEF OInv, StaleOnlyWhereOvertaken
    <3> QED
      BY <1>1, <2>1, <2>2, <2>3, <3>2, <3>3
  <2>4. StaleOnlyWhereOvertaken'
    BY <2>3 DEF StaleOnlyWhereOvertaken
  <2> QED
    BY <1>3, <2>2, <2>4
<1> QED
  BY <1>2, <1>3 DEF Write

\* Without damage nothing is ever recovered.
LEMMA StaysUnrecovered ==
  ASSUME Calm(up), OInv, TypeOK', [Next]_vars
  PROVE  NeverRecovered'
<1> USE DEF OInv, NeverRecovered, Goto
<1>1. up \in Settings /\ pc \in [Procs -> PcValues] /\ file \in Maps \cup {Absent, Torn}
  BY DEF TypeOK
<1>2. CASE UNCHANGED vars
  BY <1>2 DEF vars
<1>3. CASE Damage
  BY <1>1, <1>3 DEF Damage, Fail, Calm
<1>4. ASSUME NEW p \in Procs, Step(p)
      PROVE  NeverRecovered'
  <2>1. CASE Begin(p) \/ Exists(p)
    BY <1>1, <2>1 DEF Begin, Exists, Loaded
  <2>2. CASE Read(p)
    <3>1. file \in Maps
      BY <1>1, <2>2 DEF Read
    <3>2. ~Fail("read")
      BY <1>1 DEF Fail, Calm
    <3> QED
      BY <1>1, <2>2, <3>1, <3>2 DEF Read, Loaded
  <2>3. CASE Quarantine(p) \/ PickBackup(p) \/ Rewrite(p)
    BY <2>3 DEF Quarantine, PickBackup, Rewrite
  <2>4. CASE Backup(p)
    BY <1>1, <2>4, FileAssumption DEF Backup
  <2>5. CASE Write(p)
    <3>1. CASE UNCHANGED <<file, history>>
      BY <1>1, <2>5, <3>1 DEF Write
    <3>2. CASE file' = Updated(p)
      BY <1>1, <2>5, <3>2, UpdatedIsMap, FileAssumption DEF Write
    <3> QED
      BY <2>5, <3>1, <3>2 DEF Write
  <2>6. CASE Crash(p)
    BY <1>1, <2>6, FileAssumption DEF Crash
  <2> QED
    BY <1>4, <2>1, <2>2, <2>3, <2>4, <2>5, <2>6 DEF Step
<1> QED
  BY <1>2, <1>3, <1>4 DEF Next

\* Every disk access of every process keeps the invariant and undoes at most
\* what overlapped.
LEMMA OverlapStep ==
  ASSUME Calm(up), OInv, [Next]_vars
  PROVE  /\ OInv'
         /\ \A p \in Procs : pc[p] = "write" /\ pc'[p] = "idle" /\ file' # file /\ file' \in Maps =>
              \A s \in Symbols \ (overtaken[p] \cup {change[p].sym}) : file'[s] = Visible[s]
<1> DEFINE Local(p) == pc[p] = "write" /\ pc'[p] = "idle" /\ file' # file =>
                         \A s \in Symbols \ (overtaken[p] \cup {change[p].sym}) : file'[s] = Visible[s]
<1>1. TypeOK' /\ NeverRecovered'
  BY TypeStep, StaysUnrecovered DEF OInv
<1>2. SUFFICES StaleOnlyWhereOvertaken' /\ \A p \in Procs : Local(p)
  BY <1>1 DEF OInv
<1>3. pc \in [Procs -> PcValues] /\ mem \in [Procs -> Maps] /\ overtaken \in [Procs -> SUBSET Symbols]
  BY DEF OInv, TypeOK
<1>4. CASE UNCHANGED vars \/ Damage
  <2>1. UNCHANGED vars
    BY <1>4 DEF Damage, Fail, Calm, OInv, TypeOK
  <2>2. Visible' = Visible
    BY <2>1 DEF vars, Visible, LatestBackup
  <2> QED
    BY <2>1, <2>2 DEF vars, history, OInv, StaleOnlyWhereOvertaken
<1>5. ASSUME NEW p \in Procs, Step(p)
      PROVE  StaleOnlyWhereOvertaken' /\ \A q \in Procs : Local(q)
  <2>1. CASE Write(p)
    <3>1. \A q \in Procs \ {p} : pc'[q] = pc[q]
      BY <1>3, <2>1 DEF Write, Goto
    <3> QED
      BY <1>1, <2>1, <3>1, OvertakingWrite
  <2>2. CASE ~Write(p)
    <3>1. pc[p] \in {"idle", "exists", "read", "backup", "write"}
      BY DEF OInv, NeverRecovered
    <3>2. /\ file' = file /\ (backups' = backups \/ file # Absent)
          /\ \A q \in Procs \ {p} : pc'[q] = pc[q] /\ mem'[q] = mem[q] /\ overtaken'[q] = overtaken[q]
      <4>1. CASE Begin(p) \/ Exists(p) \/ Read(p)
        BY <1>3, <4>1 DEF Begin, Exists, Read, Loaded, Goto, history
      <4>2. CASE Backup(p) \/ Crash(p)
        BY <1>3, <4>2, FileAssumption DEF Backup, Crash, Goto, history
      <4>3. CASE Quarantine(p) \/ PickBackup(p) \/ Rewrite(p)
        BY <3>1, <4>3 DEF Quarantine, PickBackup, Rewrite
      <4> QED
        BY <1>5, <2>2, <4>1, <4>2, <4>3 DEF Step
    <3>3. Visible' = Visible
      BY <3>2 DEF OInv, NeverRecovered, TypeOK, Visible, LatestBackup
    <3>4. ASSUME pc'[p] \in {"backup", "write"}, NEW s \in Symbols \ overtaken'[p]
          PROVE  mem'[p][s] = Visible[s]
      <4>1. CASE Exists(p)
        <5>1. file = Absent /\ mem'[p] = Empty
          BY <1>3, <3>4, <4>1 DEF Exists, Loaded, Goto
        <5>2. Visible = Empty
          BY <5>1, NothingVisible DEF OInv
        <5> QED
          BY <5>1, <5>2
      <4>2. CASE Read(p)
        <5>1. file \in Maps /\ mem'[p] = file
          BY <1>3, <3>4, <4>2 DEF Read, Loaded, Goto
        <5> QED
          BY <5>1 DEF Visible
      <4>3. CASE Backup(p)
        BY <1>3, <3>4, <4>3 DEF Backup, Goto, history, OInv, StaleOnlyWhereOvertaken
      <4>4. CASE Begin(p) \/ Crash(p)
        BY <1>3, <3>4, <4>4 DEF Begin, Crash, Goto
      <4>5. CASE Quarantine(p) \/ PickBackup(p) \/ Rewrite(p)
        BY <3>1, <4>5 DEF Quarantine, PickBackup, Rewrite
      <4> QED
        BY <1>5, <2>2, <4>1, <4>2, <4>3, <4>4, <4>5 DEF Step
    <3>5. StaleOnlyWhereOvertaken'
      BY <1>1, <3>2, <3>3, <3>4, OvertakenQuiet
    <3> QED
      BY <3>2, <3>5
  <2> QED
    BY <2>1, <2>2
<1> QED
  BY <1>4, <1>5 DEF Next

\* Who runs stays the same.
LEMMA SameProcesses ==
  ASSUME [Next]_vars
  PROVE  up' = up
BY DEF Next, Step, vars, Begin, Exists, Read, Quarantine, PickBackup, Rewrite, Backup, Write, Crash, Damage

(***************************************************************************)
(* One writer beside readers                                               *)
(***************************************************************************)

\* Only processes that run do anything.
OnlyUp == \A p \in Procs \ up : pc[p] = "idle"

\* A reader never gets as far as saving.
ReadersDone == \A p \in Readers : pc[p] \notin {"backup", "write"}

\* What the only writer has loaded is what everybody sees, and it is backed up
\* before it is replaced, if backups get written.
LoadedInSight ==
  \A p \in Writers :
    /\ pc[p] \in {"backup", "write"} => mem[p] = Visible
    /\ (pc[p] = "write" /\ "backup" \notin Faults[up]) => (Visible = Empty \/ LatestBackup = Visible)

BackupInSight ==
  "backup" \notin Faults[up] =>
    /\ LatestBackup \in {Visible, previous}
    /\ LatestBackup = Empty => previous = Empty

CInv == OInv /\ OnlyUp /\ ReadersDone /\ LoadedInSight /\ BackupInSight

\* Steps that leave the file, its backups and what the writer has loaded.
LEMMA CalmKept ==
  ASSUME CInv, TypeOK', UNCHANGED <<file, backups, previous, up>>,
         \A p \in Writers : pc'[p] \in {"backup", "write"} => mem'[p] = Visible,
         \A p \in Writers : pc'[p] = "write" => pc[p] = "write"
  PROVE  LoadedInSight' /\ BackupInSight' /\ Visible' = Visible
<1>1. LatestBackup' = LatestBackup /\ Visible' = Visible
  BY DEF Visible, LatestBackup
<1> QED
  BY <1>1 DEF CInv, LoadedInSight, BackupInSight

\* What p does while nothing is recovered, and only if it runs.
LEMMA CalmStep ==
  ASSUME Calm(up), Alone, CInv, [Next]_vars
  PROVE  CInv' /\ Promised
<1>1. OInv' /\ TypeOK' /\ up' = up
  BY OverlapStep, TypeStep, SameProcesses DEF CInv, OInv
<1>2. pc \in [Procs -> PcValues] /\ mem \in [Procs -> Maps] /\ backups \in Seq(Kept) /\ TypeOK
      /\ NeverRecovered /\ Writers \subseteq Procs
  BY DEF CInv, OInv, TypeOK, Kept, Procs
<1>3. OnlyUp'
  <2>1. CASE UNCHANGED vars \/ Damage
    BY <2>1 DEF vars, Damage, CInv, OnlyUp
  <2>2. ASSUME NEW p \in Procs, Step(p)
        PROVE  OnlyUp'
    <3>1. p \in up /\ \A q \in Procs \ {p} : pc'[q] = pc[q]
      BY <1>2, <2>2 DEF CInv, OnlyUp, Step, Begin, Exists, Read, Quarantine, PickBackup, Rewrite,
         Backup, Write, Crash, Loaded, Goto
    <3> QED
      BY <1>1, <3>1 DEF CInv, OnlyUp
  <2> QED
    BY <2>1, <2>2 DEF Next
<1>6. ReadersDone'
  <2>1. CASE UNCHANGED vars \/ Damage
    BY <2>1 DEF vars, Damage, CInv, ReadersDone
  <2>2. ASSUME NEW p \in Procs, Step(p)
        PROVE  ReadersDone'
    <3>1. \A q \in Readers : q \in Procs /\ pc[q] \notin {"backup", "write"}
      BY DEF Procs, CInv, ReadersDone
    <3>2. ASSUME pc' = pc \/ \E step : pc' = [pc EXCEPT ![p] = step] /\ (p \in Readers => step \notin {"backup", "write"})
          PROVE  ReadersDone'
      BY <1>2, <3>1, <3>2 DEF ReadersDone
    <3>3. CASE Begin(p) \/ Exists(p)
      BY <3>2, <3>3 DEF Begin, Exists, Loaded, Goto
    <3>4. CASE Read(p)
      BY <3>2, <3>4 DEF Read, Loaded, Goto
    <3>5. CASE Quarantine(p) \/ PickBackup(p) \/ Rewrite(p)
      BY <3>2, <3>5 DEF Quarantine, PickBackup, Rewrite, Loaded, Goto
    <3>6. CASE Backup(p)
      BY <3>1, <3>2, <3>6 DEF Backup, Goto
    <3>7. CASE Write(p) \/ Crash(p)
      BY <3>2, <3>7 DEF Write, Crash, Goto
    <3> QED
      BY <2>2, <3>3, <3>4, <3>5, <3>6, <3>7 DEF Step
  <2> QED
    BY <2>1, <2>2 DEF Next
<1> SUFFICES LoadedInSight' /\ BackupInSight' /\ Promised
  BY <1>1, <1>3, <1>6 DEF CInv
<1>4. CASE UNCHANGED vars \/ Damage
  <2>1. UNCHANGED vars
    BY <1>4 DEF Damage, Fail, Calm
  <2>2. LoadedInSight' /\ BackupInSight' /\ Visible' = Visible
    BY <1>1, <2>1, CalmKept DEF vars, history, CInv, LoadedInSight
  <2> QED
    BY <2>1, <2>2 DEF vars, history, Promised
<1>5. ASSUME NEW p \in Procs, Step(p)
      PROVE  LoadedInSight' /\ BackupInSight' /\ Promised
  <2>1. p \in up /\ (p \in Writers => \A q \in Writers : pc[q] # "idle" => q = p)
    <3>1. p \in up
      BY <1>5 DEF CInv, OnlyUp, Step, Begin, Exists, Read, Quarantine, PickBackup, Rewrite, Backup, Write, Crash
    <3> QED
      BY <1>2, <3>1 DEF CInv, OnlyUp, Alone
  <2>2. CASE Begin(p) \/ Exists(p) \/ Read(p)
    <3>1. UNCHANGED <<file, backups, previous>>
      BY <2>2 DEF Begin, Exists, Read, history
    <3>2. ASSUME NEW q \in Writers
          PROVE  /\ pc'[q] \in {"backup", "write"} => mem'[q] = Visible
                 /\ pc'[q] = "write" => pc[q] = "write"
      <4>1. CASE q # p
        BY <1>2, <2>2, <4>1 DEF Begin, Exists, Read, Loaded, Goto, CInv, LoadedInSight
      <4>2. CASE q = p /\ Begin(p)
        BY <1>2, <4>2 DEF Begin, Goto
      <4>3. CASE q = p /\ Exists(p)
        <5>1. file = Absent => Visible = Empty
          BY <1>2, NothingVisible
        <5> QED
          BY <1>2, <4>3, <5>1, NamesAssumption DEF Exists, Loaded, Goto
      <4>4. CASE q = p /\ Read(p)
        BY <1>2, <4>4, NamesAssumption DEF Read, Loaded, Goto, Visible
      <4> QED
        BY <2>2, <4>1, <4>2, <4>3, <4>4
    <3>3. LoadedInSight' /\ BackupInSight' /\ Visible' = Visible
      BY <1>1, <3>1, <3>2, CalmKept
    <3> QED
      BY <3>1, <3>3 DEF Promised
  <2>3. CASE Quarantine(p) \/ PickBackup(p) \/ Rewrite(p)
    BY <1>2, <2>3 DEF NeverRecovered, Quarantine, PickBackup, Rewrite
  <2>4. CASE Backup(p) /\ file \in Maps \ {Empty}
    <3>1. /\ pc' = [pc EXCEPT ![p] = "write"] /\ pc[p] = "backup" /\ UNCHANGED <<file, mem, history>>
      BY <2>4 DEF Backup, Goto
    <3>2. Visible = file /\ Visible' = file
      BY <2>4, <3>1 DEF Visible
    <3>3. ASSUME "backup" \notin Faults[up]
          PROVE  LatestBackup' = file
      <4>1. backups' \in Pruned(Append(backups, file))
        BY <2>4, <3>3 DEF Backup, Fail
      <4> QED
        BY <1>2, <2>4, <4>1, LatestAfterBackup DEF LatestBackup
    <3>4. LoadedInSight'
      BY <1>1, <1>2, <3>1, <3>2, <3>3 DEF CInv, LoadedInSight
    <3>5. BackupInSight'
      BY <1>1, <2>4, <3>2, <3>3 DEF BackupInSight
    <3> QED
      BY <3>1, <3>2, <3>4, <3>5 DEF Promised, history
  <2>5. CASE Backup(p) /\ file \notin Maps \ {Empty}
    <3>1. /\ pc' = [pc EXCEPT ![p] = "write"] /\ pc[p] = "backup"
          /\ UNCHANGED <<file, mem, backups, history>>
      BY <2>5 DEF Backup, Goto
    <3>2. LatestBackup' = LatestBackup /\ Visible' = Visible
      BY <3>1 DEF Visible, LatestBackup
    <3>3. Visible = Empty
      BY <1>2, <2>5, NothingVisible DEF Visible, TypeOK, NeverRecovered
    <3> QED
      BY <1>1, <1>2, <3>1, <3>2, <3>3 DEF CInv, LoadedInSight, BackupInSight, Promised, history
  <2>6. CASE Write(p) /\ UNCHANGED <<file, history>>
    <3>1. pc' = [pc EXCEPT ![p] = "idle"] /\ UNCHANGED <<mem, backups, previous>>
      BY <2>6 DEF Write, Goto, history
    <3>2. LoadedInSight' /\ BackupInSight' /\ Visible' = Visible
      BY <1>1, <1>2, <2>6, <3>1, CalmKept DEF CInv, LoadedInSight
    <3> QED
      BY <3>1, <3>2 DEF Promised
  <2>7. CASE Write(p) /\ file' = Updated(p) /\ Overtakes(p)
    <3>1. /\ pc' = [pc EXCEPT ![p] = "idle"] /\ pc[p] = "write" /\ UNCHANGED <<mem, backups>>
          /\ previous' = IF Visible = Empty THEN previous ELSE Visible
      BY <2>7 DEF Write, Goto, Overtakes
    <3>2. p \in Writers
      BY <1>2, <3>1 DEF CInv, ReadersDone, Procs
    <3>3. mem[p] = Visible /\ Visible' = Updated(p) /\ change[p] \in Change
      BY <1>2, <2>7, <3>1, <3>2, UpdatedIsMap DEF CInv, LoadedInSight, Visible, TypeOK
    <3>4. LatestBackup' = LatestBackup
      BY <3>1 DEF LatestBackup
    <3>5. \A q \in Writers : pc'[q] = "idle"
      BY <1>2, <2>1, <3>1, <3>2
    <3>6. LoadedInSight'
      BY <3>5 DEF LoadedInSight
    <3>7. BackupInSight'
      BY <1>1, <3>1, <3>2, <3>4 DEF CInv, LoadedInSight, BackupInSight
    <3>8. Saves(change[p].sym, change[p].entry)
      BY <3>1, <3>3 DEF Saves, Updated
    <3> QED
      BY <3>3, <3>6, <3>7, <3>8 DEF Promised, Change
  <2>8. CASE Crash(p)
    <3>1. pc' = [pc EXCEPT ![p] = "idle"] /\ UNCHANGED <<file, mem, previous>>
      BY <2>8 DEF Crash, Goto, history
    <3>2. LatestBackup' = LatestBackup
      BY <1>2, <2>8, LatestBeforeTorn DEF Crash, LatestBackup
    <3>3. Visible' = Visible
      BY <3>1, <3>2 DEF Visible
    <3> QED
      BY <1>1, <1>2, <3>1, <3>2, <3>3 DEF CInv, LoadedInSight, BackupInSight, Promised
  <2> QED
    BY <1>5, <2>2, <2>3, <2>4, <2>5, <2>6, <2>7, <2>8 DEF Step, Write
<1> QED
  BY <1>4, <1>5 DEF Next

(***************************************************************************)
(* The promises, for every set of processes that run together              *)
(***************************************************************************)

\* The processes that run together never find the file damaged or unreadable,
\* or it is a writer on its own, whose backups get written and whose
\* recoveries finish.
Gentle == \A g \in Settings : Calm(g) \/ \E w \in Writers : g = {w} /\ Lone(w)

AloneAndLone == \E w \in Writers : Lone(w) /\ IInv(w) /\ OthersIdle(w)

\* The inductive invariant of both settings.
HInv == AloneAndLone \/ (Calm(up) /\ OInv /\ (Alone => CInv))

\* A process that is about to save undoes only what overlapped.
UndoesOverlaps ==
  \A p \in Procs : pc[p] = "write" /\ pc'[p] = "idle" /\ file' # file /\ file' \in Maps =>
     \A s \in Symbols \ (overtaken[p] \cup {change[p].sym}) : file'[s] = Visible[s]

LEMMA InitialSetting ==
  ASSUME Gentle, Init
  PROVE  HInv /\ Promise!Init
<1>1. up \in Settings /\ TypeOK
  BY InitialTypes DEF Init
<1>2. Visible = Empty /\ LatestBackup = Empty
  <2>1. LatestIn(<<>>) = Empty
    BY DEF LatestIn
  <2> QED
    BY <2>1, FileAssumption DEF Init, Visible, LatestBackup
<1>3. Promise!Init
  BY <1>2 DEF Init, Promise!Init, Promise!Empty, Empty
<1>4. CASE Calm(up)
  <2>1. \A p \in Procs : pc[p] = "idle"
    BY DEF Init
  <2>2. OInv
    BY <1>1, <2>1, NamesAssumption DEF Init, OInv, NeverRecovered, StaleOnlyWhereOvertaken
  <2>3. OnlyUp /\ ReadersDone /\ LoadedInSight
    BY <2>1 DEF OnlyUp, ReadersDone, LoadedInSight, Procs
  <2>4. BackupInSight
    BY <1>2 DEF Init, BackupInSight
  <2> QED
    BY <1>3, <1>4, <2>2, <2>3, <2>4 DEF HInv, CInv
<1>5. ASSUME NEW w \in Writers, up = {w}, Lone(w)
      PROVE  HInv
  BY <1>5, Initially DEF HInv, AloneAndLone
<1> QED
  BY <1>1, <1>3, <1>4, <1>5 DEF Gentle

\* A save of a lone writer replaces exactly what everybody sees.
LEMMA LoneWriterUndoesNothing ==
  ASSUME NEW w \in Writers, IInv(w), OthersIdle(w), [Next]_vars
  PROVE  UndoesOverlaps
<1> SUFFICES ASSUME NEW p \in Procs, pc[p] = "write", pc'[p] = "idle", file' # file,
                    NEW s \in Symbols \ {change[p].sym}
             PROVE  file'[s] = Visible[s]
  BY DEF UndoesOverlaps
<1>1. p = w
  BY DEF OthersIdle
<1>2. PICK q \in Procs : Step(q)
  BY DEF Next, vars, Damage
<1>3. q = w
  BY <1>1, <1>2 DEF OthersIdle, Step, Begin, Exists, Read, Quarantine, PickBackup, Rewrite, Backup, Write, Crash
<1>4. file' = Updated(w)
  BY <1>1, <1>2, <1>3 DEF Step, Begin, Exists, Read, Quarantine, PickBackup, Rewrite, Backup, Write, Crash
<1>5. mem[w] = Visible /\ mem[w] \in Maps
  BY <1>1 DEF IInv, LoadedIsVisible, TypeOK
<1> QED
  BY <1>1, <1>4, <1>5 DEF Updated, Maps

LEMMA SettingStep ==
  ASSUME HInv, [Next]_vars
  PROVE  HInv' /\ UndoesOverlaps /\ [Promise!Next]_Seen
<1>1. CASE AloneAndLone
  <2>1. PICK w \in Writers : Lone(w) /\ IInv(w) /\ OthersIdle(w)
    BY <1>1 DEF AloneAndLone
  <2>2. IInv(w)' /\ Promised
    BY <2>1, LoneStep
  <2>3. OthersIdle(w)' /\ Alone' /\ Alone
    BY <2>1, OthersStayIdle DEF IInv, OthersIdle, Alone
  <2>4. HInv'
    BY <2>1, <2>2, <2>3 DEF HInv, AloneAndLone, Lone
  <2>5. UndoesOverlaps
    BY <2>1, LoneWriterUndoesNothing
  <2> QED
    BY <2>2, <2>3, <2>4, <2>5, PromisedIsNext
<1>2. CASE Calm(up) /\ OInv /\ (Alone => CInv)
  <2>1. OInv' /\ UndoesOverlaps
    BY <1>2, OverlapStep DEF UndoesOverlaps
  <2>2. up' = up /\ Calm(up)' /\ Alone' = Alone
    BY <1>2, SameProcesses DEF Calm, Alone
  <2>3. CASE Alone
    <3>1. CInv' /\ Promised
      BY <1>2, <2>3, CalmStep
    <3> QED
      BY <2>1, <2>2, <2>3, <3>1, PromisedIsNext DEF HInv
  <2>4. CASE ~Alone
    <3>1. Seen' = Seen
      BY <2>2, <2>4 DEF Seen, Empty
    <3> QED
      BY <2>1, <2>2, <2>4, <3>1 DEF HInv
  <2> QED
    BY <2>3, <2>4
<1> QED
  BY <1>1, <1>2 DEF HInv

\* Saved by one process, beside any number of readers, the store keeps its
\* promise: entries change one at a time and are set back by at most one
\* save, through failing writes, torn backups and crashes; and through any
\* number of damaged files and failing reads too, when nobody reads beside the
\* writer.
THEOREM StoreKeepsPromise == Gentle => (Spec => KeepsPromise)
<1> SUFFICES ASSUME Gentle
             PROVE  Spec => KeepsPromise
  OBVIOUS
<1>1. Init => HInv /\ Promise!Init
  BY InitialSetting
<1>2. HInv /\ [Next]_vars => HInv' /\ [Promise!Next]_Seen
  BY SettingStep
<1> QED
  BY <1>1, <1>2, PTL DEF Spec, KeepsPromise, Promise!Spec, Seen

\* In the same settings the latest backup is never older than the map the
\* last save replaced.
THEOREM StoreBackupIsRecent == Gentle => (Spec => []BackupIsRecent)
<1> SUFFICES ASSUME Gentle
             PROVE  Spec => []BackupIsRecent
  OBVIOUS
<1>1. Init => HInv
  BY InitialSetting
<1>2. HInv /\ [Next]_vars => HInv'
  BY SettingStep
<1>3. HInv => BackupIsRecent
  BY DEF HInv, AloneAndLone, IInv, CInv, BackupInSight, BackupIsRecent
<1> QED
  BY <1>1, <1>2, <1>3, PTL DEF Spec

\* However many processes save, each without a lock, a save of theirs undoes
\* only changes that were saved while it was under way.
THEOREM OnlyOverlapsAreLost == Gentle => (Spec => LosesOnlyOverlaps)
<1> SUFFICES ASSUME Gentle
             PROVE  Spec => LosesOnlyOverlaps
  OBVIOUS
<1>1. Init => HInv
  BY InitialSetting
<1>2. HInv /\ [Next]_vars =>
        /\ HInv'
        /\ [\A p \in Procs : pc[p] = "write" /\ pc'[p] = "idle" /\ file' # file /\ file' \in Maps =>
              \A s \in Symbols \ (overtaken[p] \cup {change[p].sym}) : file'[s] = Visible[s]]_vars
  BY SettingStep DEF UndoesOverlaps
<1> QED
  BY <1>1, <1>2, PTL DEF Spec, LosesOnlyOverlaps
=============================================================================
