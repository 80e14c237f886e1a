--------------------------- MODULE PositionStore ----------------------------
(***************************************************************************)
(* backend/core/journal/active_positions.py: ActivePositionStore, the JSON *)
(* file of open positions that the daemon, the Telegram bot and the web    *)
(* API open independently, each through a store object of its own.         *)
(*                                                                         *)
(* An operation loads the whole file, changes one entry and saves the      *)
(* whole file: it backs up what is on disk, then replaces it atomically.   *)
(* A load that cannot read or parse the file moves it aside and restores   *)
(* the latest usable backup.  Every access to the disk is a step, so that  *)
(* processes interleave and may die between any two of them.               *)
(***************************************************************************)
EXTENDS Naturals, Sequences

CONSTANTS
  Writers,       \* processes that save: upsert, remove
  Readers,       \* processes that only load: load_all, get
  Symbols,
  Entries,       \* what an entry may hold
  NoEntry,       \* the symbol has no entry
  Absent,        \* no file
  Torn,          \* a file that does not parse
  KeepMin,       \* _BACKUP_MIN_KEEP
  KeepMax,       \* _BACKUP_MAX_KEEP
  Settings,      \* sets of processes that run together
  Faults,        \* [Settings -> kinds of failures that may happen]
  MaxFaults      \* [Settings -> Nat] bound on their number

FaultKinds == {"damage", "read", "backup", "write", "crash", "recovery"}

ASSUME NamesAssumption ==
  /\ Writers \cap Readers = {}
  /\ Symbols # {} /\ NoEntry \notin Entries
  /\ Absent # Torn
ASSUME KeepAssumption == KeepMin \in Nat \ {0} /\ KeepMax \in Nat /\ KeepMin <= KeepMax

Procs == Writers \cup Readers

ASSUME SettingsAssumption == Settings \subseteq SUBSET Procs
ASSUME FaultAssumption ==
  /\ Faults \in [Settings -> SUBSET FaultKinds]
  /\ MaxFaults \in [Settings -> Nat]

Empty == [s \in Symbols |-> NoEntry]
Maps == [Symbols -> Entries \cup {NoEntry}]

ASSUME FileAssumption == Absent \notin Maps /\ Torn \notin Maps

VARIABLES
  file,      \* active_positions.json
  backups,   \* _active_positions_history, oldest first
  pc,        \* [Procs -> step]
  change,    \* [Procs -> the entry its operation writes]
  mem,       \* [Procs -> the map its operation has loaded]
  faults,    \* failures so far
  up,        \* the processes that run
  \* history
  previous,  \* the latest map with entries that a save replaced
  overtaken  \* [Procs -> symbols that others saved since it began]

history == <<previous, overtaken>>
vars == <<file, backups, pc, change, mem, faults, up, history>>

Change == [sym : Symbols, entry : Entries \cup {NoEntry}]

PcValues == {"idle", "exists", "read", "quarantine", "pick", "rewrite", "backup", "write"}

(***************************************************************************)
(* Helpers                                                                 *)
(***************************************************************************)

Fail(kind) == kind \in Faults[up] /\ faults < MaxFaults[up] /\ faults' = faults + 1

Goto(p, step) == pc' = [pc EXCEPT ![p] = step]

\* _load_latest_backup: the newest backup that is not torn; empty maps are
\* never kept as backups.
IsLatest(q, i) == q[i] # Torn /\ \A j \in i + 1..Len(q) : q[j] = Torn
LatestIn(q) ==
  IF \E i \in 1..Len(q) : IsLatest(q, i)
  THEN q[CHOOSE i \in 1..Len(q) : IsLatest(q, i)]
  ELSE Empty
LatestBackup == LatestIn(backups)

\* Faulty variant: the newest backups are the ones deleted.
PrunedFromTheFront(q) ==
  {SubSeq(q, 1, k) : k \in {n \in 0..Len(q) : n <= KeepMax /\ (n = Len(q) \/ n >= KeepMin)}}

\* _prune_backups: at most KeepMax stay; of those beyond the newest KeepMin,
\* the aged ones go too.
Pruned(q) ==
  {SubSeq(q, Len(q) - k + 1, Len(q)) :
     k \in {n \in 0..Len(q) : n <= KeepMax /\ (n = Len(q) \/ n >= KeepMin)}}

\* load_all returns: a reader is done, a writer goes on to save.
Loaded(p, map) ==
  /\ mem' = [mem EXCEPT ![p] = map]
  /\ Goto(p, IF p \in Readers THEN "idle" ELSE "backup")

(***************************************************************************)
(* Actions                                                                 *)
(***************************************************************************)

\* upsert, remove (a writer), load_all or get (a reader).
Begin(p) ==
  /\ p \in up
  /\ pc[p] = "idle"
  /\ \/ p \in Writers /\ \E c \in Change : change' = [change EXCEPT ![p] = c]
     \/ p \in Readers /\ UNCHANGED change
  /\ overtaken' = [overtaken EXCEPT ![p] = {}]
  /\ Goto(p, "exists")
  /\ UNCHANGED <<file, backups, mem, faults, up, previous>>

\* load_all: without a file the map is empty.
Exists(p) ==
  /\ pc[p] = "exists"
  /\ \/ file = Absent /\ Loaded(p, Empty)
     \/ file # Absent /\ Goto(p, "read") /\ UNCHANGED mem
  /\ UNCHANGED <<file, backups, change, faults, up, history>>

\* Faulty variant: what the process has loaded before is good enough.
ReadOnce(p) ==
  /\ pc[p] = "read"
  /\ \/ file \in Maps /\ Loaded(p, IF mem[p] = Empty THEN file ELSE mem[p])
     \/ file \notin Maps /\ Goto(p, "quarantine") /\ UNCHANGED mem
  /\ UNCHANGED <<file, backups, change, faults, up, history>>

\* The file is read and parsed; it may have been moved aside meanwhile.
Read(p) ==
  /\ pc[p] = "read"
  /\ \/ file \in Maps /\ Loaded(p, file) /\ UNCHANGED faults
     \/ file \notin Maps /\ Goto(p, "quarantine") /\ UNCHANGED <<mem, faults>>
     \/ file \in Maps /\ Fail("read") /\ Goto(p, "quarantine") /\ UNCHANGED mem
  /\ UNCHANGED <<file, backups, change, up, history>>

\* _recover_corrupt moves whatever is there now aside; failing to is ignored.
Quarantine(p) ==
  /\ pc[p] = "quarantine"
  /\ \/ file' = Absent /\ UNCHANGED faults
     \/ file # Absent /\ Fail("recovery") /\ UNCHANGED file
  /\ Goto(p, "pick")
  /\ UNCHANGED <<backups, change, mem, up, history>>

\* Faulty variant: a damaged file is taken for an empty one.
PickNothing(p) ==
  /\ pc[p] = "pick"
  /\ Loaded(p, Empty)
  /\ UNCHANGED <<file, backups, change, faults, up, history>>

\* Without a usable backup the load returns an empty map.
PickBackup(p) ==
  /\ pc[p] = "pick"
  /\ IF LatestBackup = Empty
     THEN Loaded(p, Empty)
     ELSE mem' = [mem EXCEPT ![p] = LatestBackup] /\ Goto(p, "rewrite")
  /\ UNCHANGED <<file, backups, change, faults, up, history>>

\* The restored map is written back; failing to is ignored.
Rewrite(p) ==
  /\ pc[p] = "rewrite"
  /\ \/ file' = mem[p] /\ UNCHANGED faults
     \/ Fail("recovery") /\ UNCHANGED file
  /\ Loaded(p, mem[p])
  /\ UNCHANGED <<backups, change, up, history>>

\* Faulty variant: an empty map is backed up too.
BackupAnything(p) ==
  /\ pc[p] = "backup"
  /\ \/ file \in Maps /\ backups' \in Pruned(Append(backups, file))
     \/ file \notin Maps /\ UNCHANGED backups
  /\ Goto(p, "write")
  /\ UNCHANGED <<file, change, mem, faults, up, history>>

\* save_all, _backup_current: only a map with entries is worth keeping.  A
\* backup that cannot be written is left torn and stops nothing.
Backup(p) ==
  /\ pc[p] = "backup"
  /\ \/ /\ file \in Maps \ {Empty}
        /\ backups' \in Pruned(Append(backups, file))
        /\ UNCHANGED faults
     \/ /\ file \notin Maps \ {Empty}
        /\ UNCHANGED <<backups, faults>>
     \/ /\ file \in Maps \ {Empty}
        /\ Fail("backup")
        /\ backups' = Append(backups, Torn)
  /\ Goto(p, "write")
  /\ UNCHANGED <<file, change, mem, up, history>>

Updated(p) == [mem[p] EXCEPT ![change[p].sym] = change[p].entry]

\* What a load would find once a damaged file is repaired.
Visible == IF file \in Maps THEN file ELSE LatestBackup

\* What p saves may undo what others saved since it began.
Overtakes(p) ==
  /\ previous' = IF Visible = Empty THEN previous ELSE Visible
  /\ overtaken' = [q \in Procs |->
       IF pc[q] = "idle" THEN {}
       ELSE overtaken[q] \cup overtaken[p] \cup {change[p].sym}]

\* save_all, _atomic_write: the new map replaces the file, or nothing happens.
Write(p) ==
  /\ pc[p] = "write"
  /\ \/ file' = Updated(p) /\ Overtakes(p) /\ UNCHANGED faults
     \/ Fail("write") /\ UNCHANGED <<file, history>>
  /\ Goto(p, "idle")
  /\ UNCHANGED <<backups, change, mem, up>>

\* The process dies.  A backup being written stays torn; a recovery is left
\* half done only under "recovery".
Crash(p) ==
  /\ pc[p] # "idle"
  /\ IF pc[p] \in {"pick", "rewrite"} THEN Fail("recovery") ELSE Fail("crash")
  /\ \/ UNCHANGED backups
     \/ /\ pc[p] = "backup" /\ file \in Maps \ {Empty}
        /\ backups' = Append(backups, Torn)
  /\ Goto(p, "idle")
  /\ UNCHANGED <<file, change, mem, up, history>>

\* The file is damaged from outside, between operations.
Damage ==
  /\ \A p \in Procs : pc[p] = "idle"
  /\ file \in Maps
  /\ Fail("damage")
  /\ file' = Torn
  /\ UNCHANGED <<backups, pc, change, mem, up, history>>

(***************************************************************************)
(* The specification                                                       *)
(***************************************************************************)

Init ==
  /\ file = Absent
  /\ backups = <<>>
  /\ pc = [p \in Procs |-> "idle"]
  /\ change = [p \in Procs |-> CHOOSE c \in Change : TRUE]
  /\ mem = [p \in Procs |-> Empty]
  /\ faults = 0
  /\ up \in Settings
  /\ previous = Empty
  /\ overtaken = [p \in Procs |-> {}]

Step(p) ==
  \/ Begin(p) \/ Exists(p) \/ Read(p)
  \/ Quarantine(p) \/ PickBackup(p) \/ Rewrite(p)
  \/ Backup(p) \/ Write(p) \/ Crash(p)

Next == (\E p \in Procs : Step(p)) \/ Damage

Spec == Init /\ [][Next]_vars

(***************************************************************************)
(* Properties                                                              *)
(***************************************************************************)

\* The variables have their types.
TypeOK ==
  /\ file \in Maps \cup {Absent, Torn}
  /\ backups \in Seq((Maps \ {Empty}) \cup {Torn})
  /\ pc \in [Procs -> PcValues]
  /\ change \in [Procs -> Change]
  /\ mem \in [Procs -> Maps]
  /\ up \in Settings
  /\ faults \in 0..MaxFaults[up]
  /\ previous \in Maps
  /\ overtaken \in [Procs -> SUBSET Symbols]

\* One process saves.
Alone == \A p, q \in up \cap Writers : p = q

\* Saved by one process, the store behaves as a map that changes one entry at
\* a time and that damage, torn backups, failing reads and writes and crashes
\* set back by at most one save: no load that comes back empty or old is ever
\* saved over entries that are still wanted (active_positions.py l.37-39, l.176-177).
Promise == INSTANCE Ledger WITH ledger <- IF Alone THEN Visible ELSE Empty,
                                previous <- IF Alone THEN previous ELSE Empty
KeepsPromise == Promise!Spec

\* Saved by several processes, which lock nothing (l.363-373), the store may
\* lose a change, but only one that another process saved while this
\* one was under way: a save changes no other entry, and nothing of
\* an earlier operation of the process comes back.
LosesOnlyOverlaps ==
  [][\A p \in Procs : pc[p] = "write" /\ pc'[p] = "idle" /\ file' # file /\ file' \in Maps =>
        \A s \in Symbols \ (overtaken[p] \cup {change[p].sym}) : file'[s] = Visible[s]]_vars

\* A load finds no file only when there is nothing to restore: an empty map
\* returned for lost entries is saved over all of them by the next operation
\* (active_positions.py l.176-177).
NoSilentEmpty ==
  \A p \in Procs : pc[p] = "exists" /\ file = Absent => LatestBackup = Empty

\* The newest usable backup is never older than the map the last save
\* replaced, whatever the pruning dropped and however many backups are torn,
\* as long as one process saves and its backups get written.
BackupIsRecent ==
  Alone /\ "backup" \notin Faults[up] => LatestBackup \in {Visible, previous}

=============================================================================
