------------------------------ MODULE StateFile ------------------------------
(***************************************************************************)
(* The state file (src/src/state.rs) under writers, readers, crashes and   *)
(* power failures: the lock that admits one writer, loading, and the steps *)
(* of an atomic save.                                                      *)
(*                                                                         *)
(* A directory gives the file at each name.  `dir' is what processes see;  *)
(* `possible' is the set of directories a power failure may leave: every   *)
(* one there has been since the directory was last synced.  The content of *)
(* a file that was not synced does not survive a power failure.            *)
(***************************************************************************)
EXTENDS Naturals, FiniteSets

CONSTANTS
    Writers,   \* processes that save: byssusd and byssus reconcile
    Readers,   \* processes that only read: byssus status, check, dry runs
    Values,    \* states: sets of records
    Empty,     \* the state with no records
    Files,     \* inodes
    None,      \* no file at a name, no holder of the lock
    Malformed, \* content that does not decode
    Newer      \* a document of a version this build does not support

ASSUME StateFileAssumption ==
    /\ Empty \in Values
    /\ None \notin Files \cup Writers \cup Values
    /\ Malformed \notin Values /\ Newer \notin Values /\ Malformed # Newer
    /\ Writers \cap Readers = {}

VARIABLES
    dir,       \* the directory: files at "state" and "tmp", and those set aside
    possible,  \* the directories a power failure may leave
    content,   \* what each file holds
    synced,    \* the files whose content would survive a power failure
    lock,      \* the writer that holds the lock
    pc,        \* where each process is
    fd,        \* the file each process has open
    mem,       \* each process's state in memory: a writer's own, a reader's find
    settled,   \* history: the last save to reach the file was acknowledged
    known,     \* history: what each writer last read from the file or put there
    damaged    \* history: files others damaged that no power failure took away

files == <<dir, possible, content, synced>>
process == <<lock, pc, fd, mem>>
history == <<settled, known, damaged>>
vars == <<files, process, history>>

Procs == Writers \cup Readers
Contents == Values \cup {Malformed, Newer}
Directory == [state : Files \cup {None}, tmp : Files \cup {None}, aside : SUBSET Files]

\* What loading a directory's state file would give.
LoadOf(d) == IF d.state = None THEN Empty ELSE content[d.state]

\* A file no directory and no process refers to.
Unused(f) ==
    /\ \A d \in possible : f \notin {d.state, d.tmp} \cup d.aside
    /\ \A p \in Procs : fd[p] # f

SetDir(d) ==
    /\ dir' = d
    /\ possible' = possible \cup {d}

(***************************************************************************)
(* Starting: open_state_for_write.                                         *)
(***************************************************************************)

\* Mutant of TakeLock: nobody looks whether the lock is held.
TakeLockHeld(p) ==
    /\ pc[p] = "out"
    /\ lock' = p
    /\ pc' = [pc EXCEPT ![p] = "load"]
    /\ UNCHANGED <<files, fd, mem, history>>

\* A writer that finds the lock held exits.
TakeLock(p) ==
    /\ pc[p] = "out"
    /\ lock = None
    /\ lock' = p
    /\ pc' = [pc EXCEPT ![p] = "load"]
    /\ UNCHANGED <<files, fd, mem, history>>

\* The process is gone, and with it its lock and its descriptors.
Gone(p) ==
    /\ pc' = [pc EXCEPT ![p] = "out"]
    /\ lock' = IF lock = p THEN None ELSE lock
    /\ fd' = [fd EXCEPT ![p] = None]
    /\ mem' = [mem EXCEPT ![p] = Empty]

Loaded(p, v) ==
    /\ mem' = [mem EXCEPT ![p] = v]
    /\ pc' = [pc EXCEPT ![p] = "ready"]
    /\ UNCHANGED <<lock, fd>>

\* The file decodes, or there is none.
Load(p) ==
    /\ pc[p] = "load"
    /\ LoadOf(dir) \in Values
    /\ Loaded(p, LoadOf(dir))
    /\ known' = [known EXCEPT ![p] = LoadOf(dir)]
    /\ UNCHANGED <<files, settled, damaged>>

\* Mutant of LoadCorrupt: what does not decode counts as missing.
LoadCorruptInPlace(p) ==
    /\ pc[p] = "load"
    /\ LoadOf(dir) = Malformed
    /\ Loaded(p, Empty)
    /\ known' = [known EXCEPT ![p] = Malformed]
    /\ UNCHANGED <<files, settled, damaged>>

\* A malformed file is renamed aside, and the state is empty.
LoadCorrupt(p) ==
    /\ pc[p] = "load"
    /\ LoadOf(dir) = Malformed
    /\ SetDir([dir EXCEPT !.state = None, !.aside = @ \cup {dir.state}])
    /\ Loaded(p, Empty)
    /\ known' = [known EXCEPT ![p] = Empty]
    /\ settled' = FALSE
    /\ UNCHANGED <<content, synced, damaged>>

\* Mutant of LoadFails: a file that cannot be read counts as missing.
LoadFailsEmpty(p) ==
    /\ pc[p] = "load"
    /\ Loaded(p, Empty)
    /\ UNCHANGED <<files, history>>

\* An unsupported version, or an error of any system call: the writer exits.
LoadFails(p) ==
    /\ pc[p] = "load"
    /\ Gone(p)
    /\ UNCHANGED <<files, history>>

(***************************************************************************)
(* Saving: write_atomically, one system call after the other.              *)
(***************************************************************************)

\* Mutant of OpenTmp: the state file itself is opened and truncated.
OpenTmpInPlace(p, v) ==
    /\ pc[p] = "ready"
    /\ \E f \in Files :
         /\ IF dir.state = None THEN Unused(f) ELSE f = dir.state
         /\ fd' = [fd EXCEPT ![p] = f]
         /\ content' = [content EXCEPT ![f] = Malformed]
         /\ synced' = synced \ {f}
         /\ SetDir([dir EXCEPT !.tmp = f])
    /\ mem' = [mem EXCEPT ![p] = v]
    /\ pc' = [pc EXCEPT ![p] = "write"]
    /\ UNCHANGED <<lock, history>>

\* The state changes to v and is saved: O_CREAT and O_TRUNC, so a file that an
\* earlier crash left at the temporary name is used again.
OpenTmp(p, v) ==
    /\ pc[p] = "ready"
    /\ \E f \in Files :
         /\ IF dir.tmp = None THEN Unused(f) ELSE f = dir.tmp
         /\ fd' = [fd EXCEPT ![p] = f]
         /\ content' = [content EXCEPT ![f] = Malformed]
         /\ synced' = synced \ {f}
         /\ SetDir([dir EXCEPT !.tmp = f])
    /\ mem' = [mem EXCEPT ![p] = v]
    /\ pc' = [pc EXCEPT ![p] = "write"]
    /\ UNCHANGED <<lock, history>>

WriteAll(p) ==
    /\ pc[p] = "write"
    /\ content' = [content EXCEPT ![fd[p]] = mem[p]]
    /\ pc' = [pc EXCEPT ![p] = "sync"]
    /\ UNCHANGED <<dir, possible, synced, lock, fd, mem, history>>

\* Mutant of SyncFile: the file is renamed without having been synced.
SyncFileNot(p) ==
    /\ pc[p] = "sync"
    /\ fd' = [fd EXCEPT ![p] = None]
    /\ pc' = [pc EXCEPT ![p] = "rename"]
    /\ UNCHANGED <<files, lock, mem, history>>

SyncFile(p) ==
    /\ pc[p] = "sync"
    /\ synced' = synced \cup {fd[p]}
    /\ fd' = [fd EXCEPT ![p] = None]
    /\ pc' = [pc EXCEPT ![p] = "rename"]
    /\ UNCHANGED <<dir, possible, content, lock, mem, history>>

\* The temporary file takes the state file's name.
Rename(p) ==
    /\ pc[p] = "rename"
    /\ dir.tmp # None
    /\ SetDir([dir EXCEPT !.state = dir.tmp, !.tmp = None])
    /\ pc' = [pc EXCEPT ![p] = "syncdir"]
    /\ known' = [known EXCEPT ![p] = mem[p]]
    /\ settled' = FALSE
    /\ UNCHANGED <<content, synced, lock, fd, mem, damaged>>

\* Mutant of SyncDir: save returns without syncing the directory.
SyncDirNot(p) ==
    /\ pc[p] = "syncdir"
    /\ pc' = [pc EXCEPT ![p] = "ready"]
    /\ settled' = TRUE
    /\ UNCHANGED <<files, lock, fd, mem, known, damaged>>

\* save returns: the state is on disk.
SyncDir(p) ==
    /\ pc[p] = "syncdir"
    /\ possible' = {dir}
    /\ pc' = [pc EXCEPT ![p] = "ready"]
    /\ settled' = TRUE
    /\ UNCHANGED <<dir, content, synced, lock, fd, mem, known, damaged>>

\* Any call fails, the one that opens the file included: what is at the
\* temporary name is unlinked, if that succeeds, and save reports the failure.
SaveFails(p) ==
    /\ pc[p] \in {"ready", "write", "sync", "rename", "syncdir"}
    /\ \E d \in {dir, [dir EXCEPT !.tmp = None]} : SetDir(d)
    /\ fd' = [fd EXCEPT ![p] = None]
    /\ pc' = [pc EXCEPT ![p] = "ready"]
    /\ UNCHANGED <<content, synced, lock, mem, history>>

(***************************************************************************)
(* Reading: load_state_read_only takes no lock.                            *)
(***************************************************************************)

ReadOpen(r) ==
    /\ pc[r] = "out"
    /\ fd' = [fd EXCEPT ![r] = dir.state]
    /\ pc' = [pc EXCEPT ![r] = "read"]
    /\ UNCHANGED <<files, lock, mem, history>>

\* What the reader is told: a state, or that there is none to be had.
ReadAll(r) ==
    /\ pc[r] = "read"
    /\ mem' = [mem EXCEPT ![r] = IF fd[r] = None THEN Empty ELSE content[fd[r]]]
    /\ fd' = [fd EXCEPT ![r] = None]
    /\ pc' = [pc EXCEPT ![r] = "done"]
    /\ UNCHANGED <<files, lock, history>>

(***************************************************************************)
(* Crashes and others.                                                     *)
(***************************************************************************)

\* A process ends, by itself or not; the lock goes with it.
Exit(p) ==
    /\ pc[p] # "out"
    /\ Gone(p)
    /\ UNCHANGED <<files, history>>

\* The host loses power: the directory is one of the possible ones, and what was
\* not synced is not there.
PowerFailure ==
    /\ \E d \in possible : dir' = d /\ possible' = {d}
    /\ content' = [f \in Files |-> IF f \in synced THEN content[f] ELSE Malformed]
    /\ synced' = Files
    /\ lock' = None
    /\ pc' = [p \in Procs |-> "out"]
    /\ fd' = [p \in Procs |-> None]
    /\ mem' = [p \in Procs |-> Empty]
    /\ damaged' = damaged \cap ({dir'.state} \cup dir'.aside)
    /\ UNCHANGED <<settled, known>>

\* Between writers, somebody damages the state file, or a newer byssus writes it.
Spoil(c) ==
    /\ lock = None
    /\ dir.state # None
    /\ content[dir.state] \in Values
    /\ content' = [content EXCEPT ![dir.state] = c]
    /\ damaged' = IF c = Malformed THEN damaged \cup {dir.state} ELSE damaged
    /\ settled' = FALSE
    /\ UNCHANGED <<dir, possible, synced, process, known>>

(***************************************************************************)
(* The system.                                                             *)
(***************************************************************************)

Init ==
    /\ dir = [state |-> None, tmp |-> None, aside |-> {}]
    /\ possible = {dir}
    /\ content = [f \in Files |-> Malformed]
    /\ synced = Files
    /\ lock = None
    /\ pc = [p \in Procs |-> "out"]
    /\ fd = [p \in Procs |-> None]
    /\ mem = [p \in Procs |-> Empty]
    /\ settled = TRUE
    /\ known = [p \in Procs |-> Empty]
    /\ damaged = {}

Next ==
    \/ \E p \in Writers : \/ TakeLock(p) \/ Load(p) \/ LoadCorrupt(p) \/ LoadFails(p)
                          \/ \E v \in Values : OpenTmp(p, v)
                          \/ WriteAll(p) \/ SyncFile(p) \/ Rename(p) \/ SyncDir(p)
                          \/ SaveFails(p)
    \/ \E r \in Readers : ReadOpen(r) \/ ReadAll(r)
    \/ \E p \in Procs : Exit(p)
    \/ PowerFailure
    \/ \E c \in {Malformed, Newer} : Spoil(c)

Spec == Init /\ [][Next]_vars

(***************************************************************************)
(* What it promises.                                                       *)
(***************************************************************************)

\* The variables range over what they should.
TypeOK ==
    /\ dir \in Directory /\ possible \subseteq Directory
    /\ content \in [Files -> Contents] /\ synced \subseteq Files
    /\ lock \in Writers \cup {None}
    /\ pc \in [Procs -> {"out", "load", "ready", "write", "sync", "rename",
                          "syncdir", "read", "done"}]
    /\ fd \in [Procs -> Files \cup {None}]
    /\ mem \in [Procs -> Contents] /\ known \in [Procs -> Contents]
    /\ settled \in BOOLEAN /\ damaged \subseteq Files

\* The state file is a register whose replacements are atomic and survive power
\* failures once save has returned: no crash, failing call or power failure ever
\* leaves a torn file under its name (state.rs, "Atomically replaces").
Register == INSTANCE ClaimRegister WITH
    Initial <- Empty,
    Spoilt <- {Malformed, Newer},
    value <- LoadOf(dir),
    atRisk <- {LoadOf(d) : d \in possible}

RegisterSpec == Register!Spec

\* What save returned Ok for survives a power failure, until something replaces it.
AcknowledgedSurvives == Register!AcknowledgedSurvives

\* A writer never replaces what it has not read or written itself: not the save of
\* a second writer, and not a document it could not read or does not understand
\* (state.rs: "it is never overwritten"; lock.rs keeps the second writer out).
NoBlindReplace ==
    \A p \in Writers : pc[p] \notin {"out", "load"} => known[p] = LoadOf(dir)

\* A damaged file is kept for the operator: it stays where it is or is moved
\* aside, whatever is saved later (state.rs, load_for_write).
CorruptKept == damaged \subseteq {dir.state} \cup dir.aside

\* A reader that takes no lock never gets half a state from a writer at work.
ReadersWhole ==
    \A r \in Readers : pc[r] = "done" /\ mem[r] = Malformed => damaged # {}

=============================================================================
