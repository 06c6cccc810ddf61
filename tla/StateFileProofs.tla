--------------------------- MODULE StateFileProofs ---------------------------
(***************************************************************************)
(* What StateFile promises, proved for every set of processes, files and   *)
(* values.                                                                 *)
(***************************************************************************)
EXTENDS StateFile, TLAPS

Working == {"ready", "write", "sync", "rename", "syncdir"}

\* Who is not out holds the lock, and each process is where its kind can be.
OneWriter ==
    /\ \A p \in Writers : pc[p] # "out" => pc[p] \in {"load"} \cup Working /\ lock = p
    /\ \A r \in Readers : pc[r] \in {"out", "read", "done"}

\* The files at the temporary name are not those a power failure may bring back.
TmpApart ==
    /\ dir \in possible
    /\ \A d \in possible :
         /\ d.state # None => d.state \in synced /\ d.state # d.tmp /\ d.state # dir.tmp
         /\ d.tmp # None => d.tmp \notin d.aside
         /\ dir.tmp # None => dir.tmp \notin d.aside

\* What the temporary file holds while a save is under way.
Pipeline ==
    \A p \in Writers :
        /\ pc[p] \in {"write", "sync"} => fd[p] # None /\ fd[p] = dir.tmp
        /\ pc[p] \in {"sync", "rename"} => dir.tmp # None /\ content[dir.tmp] = mem[p]
        /\ pc[p] = "rename" => dir.tmp \in synced
        /\ pc[p] \in Working => mem[p] \in Values /\ known[p] \in Values

\* A state file that does not decode was damaged, and is kept.
Damage ==
    /\ \A f \in damaged : content[f] = Malformed
    /\ \A d \in possible :
         d.state # None /\ content[d.state] = Malformed => d.state \in damaged

\* A reader has open what was the state file.
Reading ==
    \A r \in Readers :
        fd[r] # None =>
            /\ fd[r] # dir.tmp
            /\ content[fd[r]] = Malformed => damaged # {}

Settled == settled => \A d \in possible : LoadOf(d) = LoadOf(dir)

IInv ==
    /\ TypeOK /\ OneWriter /\ TmpApart /\ Pipeline /\ Damage /\ Reading /\ Settled
    /\ NoBlindReplace /\ CorruptKept /\ ReadersWhole

\* The claim starts empty, and so does everything else.
LEMMA InitIInv == Init => IInv
<1> SUFFICES ASSUME Init PROVE IInv
  OBVIOUS
<1> USE StateFileAssumption DEF Init
<1>1. TypeOK
  BY DEF TypeOK, Directory, Procs, Contents
<1>2. OneWriter
  BY DEF OneWriter, TypeOK, Procs, Working, LoadOf, Working, Contents
<1>3. TmpApart /\ Damage /\ CorruptKept
  BY DEF TmpApart, Damage, CorruptKept, TypeOK, Directory, Procs, LoadOf, Working,
         Contents
<1>4. Settled
  BY DEF Settled, TmpApart, TypeOK, Directory, LoadOf, Working, Contents
<1>5. Pipeline /\ NoBlindReplace
  BY DEF Pipeline, NoBlindReplace, OneWriter, TypeOK, Procs, Working, LoadOf, Working,
         Contents
<1>6. Reading /\ ReadersWhole
  BY DEF Reading, ReadersWhole, OneWriter, TypeOK, Procs, LoadOf, Working, Contents
<1> QED
  BY <1>1, <1>2, <1>3, <1>4, <1>5, <1>6 DEF IInv

\* The lock is free, so nobody else is at work.
LEMMA TakeLockKeeps ==
    ASSUME IInv, NEW p \in Writers, TakeLock(p)
    PROVE  IInv'
<1> USE StateFileAssumption DEF IInv, TakeLock, files, history
<1>1. TypeOK'
  BY DEF TypeOK, Directory, Procs, Contents
<1>2. OneWriter'
  BY DEF OneWriter, TypeOK, Procs, Working
<1>3. TmpApart' /\ Damage' /\ CorruptKept'
  BY DEF TmpApart, Damage, CorruptKept, TypeOK, Directory, Procs
<1>4. Settled'
  BY DEF Settled, TmpApart, TypeOK, Directory, LoadOf
<1>5. Pipeline' /\ NoBlindReplace'
  BY DEF Pipeline, NoBlindReplace, OneWriter, TypeOK, Procs, Working, LoadOf
<1>6. Reading' /\ ReadersWhole'
  BY DEF Reading, ReadersWhole, OneWriter, TypeOK, Procs
<1> QED
  BY <1>1, <1>2, <1>3, <1>4, <1>5, <1>6

\* A writer knows what it has read.
LEMMA LoadKeeps ==
    ASSUME IInv, NEW p \in Writers, Load(p)
    PROVE  IInv'
<1> USE StateFileAssumption DEF IInv, Load, Loaded, LoadOf, files
<1>1. TypeOK'
  BY DEF TypeOK, Directory, Procs, Contents
<1>2. OneWriter'
  BY DEF OneWriter, TypeOK, Procs, Working
<1>3. TmpApart' /\ Damage' /\ CorruptKept'
  BY DEF TmpApart, Damage, CorruptKept, TypeOK, Directory, Procs
<1>4. Settled'
  BY DEF Settled, TmpApart, TypeOK, Directory
<1>5. Pipeline' /\ NoBlindReplace'
  BY DEF Pipeline, NoBlindReplace, OneWriter, TypeOK, Procs, Working
<1>6. Reading' /\ ReadersWhole'
  BY DEF Reading, ReadersWhole, OneWriter, TypeOK, Procs
<1> QED
  BY <1>1, <1>2, <1>3, <1>4, <1>5, <1>6

\* What is moved aside is what was damaged.
LEMMA LoadCorruptKeeps ==
    ASSUME IInv, NEW p \in Writers, LoadCorrupt(p)
    PROVE  IInv'
<1> USE StateFileAssumption DEF IInv, LoadCorrupt, SetDir, Loaded, LoadOf
<1>1. dir.state # None /\ content[dir.state] = Malformed /\ dir.state \in Files
  BY DEF TypeOK, Directory
<1>2. /\ dir' = [state |-> None, tmp |-> dir.tmp, aside |-> dir.aside \cup {dir.state}]
      /\ dir.aside \cup {dir.state} \in SUBSET Files
  BY <1>1 DEF TypeOK, Directory
<1>3. TypeOK'
  <2>1. dir' \in Directory
    BY <1>2 DEF TypeOK, Directory
  <2>2. possible' \subseteq Directory
    BY <2>1 DEF TypeOK
  <2> QED
    BY <2>1, <2>2 DEF TypeOK, Procs, Contents
<1>4. OneWriter'
  BY <1>1 DEF OneWriter, TypeOK, Procs, Working
<1>5. TmpApart' /\ Damage' /\ CorruptKept'
  <2>1. TmpApart'
    <3>1. dir'.tmp = dir.tmp /\ dir'.state = None
      BY <1>2
    <3>2. dir.tmp # None => dir.tmp \notin dir'.aside
      BY <1>1, <1>2 DEF TmpApart
    <3>3. \A d \in possible : d.state # None => d.state # dir'.tmp
      BY <3>1 DEF TmpApart
    <3> QED
      BY <3>1, <3>2, <3>3 DEF TmpApart
  <2>2. Damage' /\ CorruptKept'
    BY <1>1 DEF TmpApart, Damage, CorruptKept, TypeOK, Directory
  <2> QED
    BY <2>1, <2>2
<1>6. Settled'
  BY <1>1 DEF Settled, TmpApart, TypeOK, Directory
<1>7. Pipeline' /\ NoBlindReplace'
  BY <1>1 DEF Pipeline, NoBlindReplace, OneWriter, TypeOK, Procs, Working
<1>8. Reading' /\ ReadersWhole'
  BY <1>1 DEF Reading, ReadersWhole, OneWriter, TypeOK, Procs
<1> QED
  BY <1>1, <1>2, <1>3, <1>4, <1>5, <1>6, <1>7, <1>8

\* A writer that cannot load leaves everything as it was.
LEMMA LoadFailsKeeps ==
    ASSUME IInv, NEW p \in Writers, LoadFails(p)
    PROVE  IInv'
<1> USE StateFileAssumption DEF IInv, LoadFails, Gone, files, history
<1>1. TypeOK'
  BY DEF TypeOK, Directory, Procs, Contents
<1>2. OneWriter'
  BY DEF OneWriter, TypeOK, Procs, Working
<1>3. TmpApart' /\ Damage' /\ CorruptKept'
  BY DEF TmpApart, Damage, CorruptKept, TypeOK, Directory, Procs
<1>4. Settled'
  BY DEF Settled, TmpApart, TypeOK, Directory, LoadOf
<1>5. Pipeline' /\ NoBlindReplace'
  BY DEF Pipeline, NoBlindReplace, OneWriter, TypeOK, Procs, Working, LoadOf
<1>6. Reading' /\ ReadersWhole'
  BY DEF Reading, ReadersWhole, OneWriter, TypeOK, Procs
<1> QED
  BY <1>1, <1>2, <1>3, <1>4, <1>5, <1>6

\* The file truncated is one that no power failure brings back.
LEMMA OpenTmpKeeps ==
    ASSUME IInv, NEW p \in Writers, NEW v \in Values, OpenTmp(p, v)
    PROVE  IInv'
<1> USE StateFileAssumption DEF IInv, OpenTmp, SetDir, Unused, history
<1>1. TypeOK'
  BY DEF TypeOK, Directory, Procs, Contents
<1>2. OneWriter'
  BY DEF OneWriter, TypeOK, Procs, Working
<1>3. TmpApart' /\ Damage' /\ CorruptKept'
  BY DEF TmpApart, Damage, CorruptKept, TypeOK, Directory, Procs
<1>4. Settled'
  BY DEF Settled, TmpApart, TypeOK, Directory, LoadOf
<1>5. Pipeline' /\ NoBlindReplace'
  BY DEF Pipeline, NoBlindReplace, OneWriter, TypeOK, Procs, Working, TmpApart,
         Directory, LoadOf
<1>6. Reading' /\ ReadersWhole'
  BY DEF Reading, ReadersWhole, OneWriter, TypeOK, Procs
<1> QED
  BY <1>1, <1>2, <1>3, <1>4, <1>5, <1>6

\* Only the temporary file changes.
LEMMA WriteAllKeeps ==
    ASSUME IInv, NEW p \in Writers, WriteAll(p)
    PROVE  IInv'
<1> USE StateFileAssumption DEF IInv, WriteAll, history
<1>1. lock = p /\ dir.tmp # None /\ fd[p] = dir.tmp /\ mem[p] \in Values
  BY DEF OneWriter, Pipeline, Working
<1>2. TypeOK'
  BY <1>1 DEF TypeOK, Directory, Procs, Contents
<1>3. OneWriter'
  BY <1>1 DEF OneWriter, TypeOK, Procs, Working
<1>4. TmpApart' /\ Damage' /\ CorruptKept'
  BY <1>1 DEF TmpApart, Damage, CorruptKept, TypeOK, Directory, Procs, Contents
<1>5. Settled'
  BY <1>1 DEF Settled, TmpApart, TypeOK, Directory, Procs, LoadOf
<1>6. Pipeline' /\ NoBlindReplace'
  BY <1>1 DEF Pipeline, NoBlindReplace, OneWriter, TypeOK, Procs, Working, TmpApart,
         LoadOf
<1>7. Reading' /\ ReadersWhole'
  BY <1>1 DEF Reading, ReadersWhole, OneWriter, TypeOK, Procs, Contents
<1> QED
  BY <1>1, <1>2, <1>3, <1>4, <1>5, <1>6, <1>7

\* From here on the temporary file survives a power failure.
LEMMA SyncFileKeeps ==
    ASSUME IInv, NEW p \in Writers, SyncFile(p)
    PROVE  IInv'
<1> USE StateFileAssumption DEF IInv, SyncFile, history
<1>1. TypeOK'
  BY DEF TypeOK, Directory, Procs, Contents, Pipeline
<1>2. OneWriter'
  BY DEF OneWriter, TypeOK, Procs, Working
<1>3. TmpApart' /\ Damage' /\ CorruptKept'
  BY DEF TmpApart, Damage, CorruptKept, TypeOK, Directory, Procs
<1>4. Settled'
  BY DEF Settled, TmpApart, TypeOK, Directory, LoadOf
<1>5. Pipeline' /\ NoBlindReplace'
  BY DEF Pipeline, NoBlindReplace, OneWriter, TypeOK, Procs, Working, LoadOf
<1>6. Reading' /\ ReadersWhole'
  BY DEF Reading, ReadersWhole, OneWriter, TypeOK, Procs
<1> QED
  BY <1>1, <1>2, <1>3, <1>4, <1>5, <1>6

\* The file that takes the name is whole and synced.
LEMMA RenameKeeps ==
    ASSUME IInv, NEW p \in Writers, Rename(p)
    PROVE  IInv'
<1> USE StateFileAssumption DEF IInv, Rename, SetDir
<1>1. /\ lock = p /\ content[dir.tmp] = mem[p]
     /\ dir.tmp \in synced /\ mem[p] \in Values
  BY DEF OneWriter, Pipeline, Working
<1>2. TypeOK'
  <2>1. dir' \in Directory /\ possible' \in SUBSET Directory
    <3>1. dir \in Directory /\ possible \subseteq Directory
      BY DEF TypeOK
    <3>2. [dir EXCEPT !.state = dir.tmp, !.tmp = None] \in Directory
      BY <3>1 DEF Directory
    <3> QED
      BY <3>1, <3>2
  <2>2. known' \in [Procs -> Contents]
    BY DEF TypeOK, Procs
  <2> QED
    BY <2>1, <2>2 DEF TypeOK, Procs
<1>3. OneWriter'
  BY <1>1 DEF OneWriter, TypeOK, Procs, Working
<1>4. TmpApart' /\ Damage' /\ CorruptKept'
  <2>1. TmpApart'
    BY <1>1 DEF TmpApart, TypeOK, Directory
  <2>2. Damage'
    BY <1>1 DEF TmpApart, Damage, TypeOK, Directory
  <2>3. dir.state \notin damaged
    BY <1>1 DEF Damage, NoBlindReplace, LoadOf, Pipeline, Working, TypeOK
  <2>4. CorruptKept'
    BY <2>3 DEF CorruptKept, TypeOK, Directory
  <2> QED
    BY <2>1, <2>2, <2>4
<1>5. Settled'
  BY <1>1 DEF Settled, TmpApart, TypeOK, Directory, LoadOf
<1>6. Pipeline' /\ NoBlindReplace'
  BY <1>1 DEF Pipeline, NoBlindReplace, OneWriter, TypeOK, Procs, Working, LoadOf
<1>7. Reading' /\ ReadersWhole'
  BY <1>1 DEF Reading, ReadersWhole, OneWriter, TypeOK, Procs
<1> QED
  BY <1>1, <1>2, <1>3, <1>4, <1>5, <1>6, <1>7

\* Every directory a power failure may leave is the one there now.
LEMMA SyncDirKeeps ==
    ASSUME IInv, NEW p \in Writers, SyncDir(p)
    PROVE  IInv'
<1> USE StateFileAssumption DEF IInv, SyncDir
<1>1. TypeOK'
  BY DEF TypeOK, Directory, Procs, Contents
<1>2. OneWriter'
  BY DEF OneWriter, TypeOK, Procs, Working
<1>3. TmpApart' /\ Damage' /\ CorruptKept'
  BY DEF TmpApart, Damage, CorruptKept, TypeOK, Directory, Procs
<1>4. Settled'
  BY DEF Settled, TmpApart, TypeOK, Directory, LoadOf
<1>5. Pipeline' /\ NoBlindReplace'
  BY DEF Pipeline, NoBlindReplace, OneWriter, TypeOK, Procs, Working, LoadOf
<1>6. Reading' /\ ReadersWhole'
  BY DEF Reading, ReadersWhole, OneWriter, TypeOK, Procs
<1> QED
  BY <1>1, <1>2, <1>3, <1>4, <1>5, <1>6

\* A save that fails leaves the state file, whichever it is by then.
LEMMA SaveFailsKeeps ==
    ASSUME IInv, NEW p \in Writers, SaveFails(p)
    PROVE  IInv'
<1> USE StateFileAssumption DEF IInv, SaveFails, SetDir, history
<1>1. TypeOK'
  BY DEF TypeOK, Directory, Procs, Contents
<1>2. OneWriter'
  BY DEF OneWriter, TypeOK, Procs, Working
<1>3. TmpApart' /\ Damage' /\ CorruptKept'
  BY DEF TmpApart, Damage, CorruptKept, TypeOK, Directory, Procs
<1>4. Settled'
  BY DEF Settled, TmpApart, TypeOK, Directory, LoadOf
<1>5. Pipeline' /\ NoBlindReplace'
  BY DEF Pipeline, NoBlindReplace, OneWriter, TypeOK, Procs, Working, Directory, LoadOf,
         LoadOf
<1>6. Reading' /\ ReadersWhole'
  BY DEF Reading, ReadersWhole, OneWriter, TypeOK, Procs, Directory
<1> QED
  BY <1>1, <1>2, <1>3, <1>4, <1>5, <1>6

\* A reader opens the state file, not the temporary one.
LEMMA ReadOpenKeeps ==
    ASSUME IInv, NEW r \in Readers, ReadOpen(r)
    PROVE  IInv'
<1> USE StateFileAssumption DEF IInv, ReadOpen, files, history
<1>1. TypeOK'
  BY DEF TypeOK, Directory, Procs, Contents
<1>2. OneWriter'
  BY DEF OneWriter, TypeOK, Procs, Working
<1>3. TmpApart' /\ Damage' /\ CorruptKept'
  BY DEF TmpApart, Damage, CorruptKept, TypeOK, Directory, Procs
<1>4. Settled'
  BY DEF Settled, TmpApart, TypeOK, Directory, LoadOf
<1>5. Pipeline' /\ NoBlindReplace'
  BY DEF Pipeline, NoBlindReplace, OneWriter, TypeOK, Procs, Working, LoadOf
<1>6. Reading' /\ ReadersWhole'
  BY DEF Reading, ReadersWhole, OneWriter, TypeOK, Procs, TmpApart, Damage, Directory
<1> QED
  BY <1>1, <1>2, <1>3, <1>4, <1>5, <1>6

\* A reader gets what the file holds.
LEMMA ReadAllKeeps ==
    ASSUME IInv, NEW r \in Readers, ReadAll(r)
    PROVE  IInv'
<1> USE StateFileAssumption DEF IInv, ReadAll, files, history
<1>1. TypeOK'
  BY DEF TypeOK, Directory, Procs, Contents
<1>2. OneWriter'
  BY DEF OneWriter, TypeOK, Procs, Working
<1>3. TmpApart' /\ Damage' /\ CorruptKept'
  BY DEF TmpApart, Damage, CorruptKept, TypeOK, Directory, Procs
<1>4. Settled'
  BY DEF Settled, TmpApart, TypeOK, Directory, LoadOf
<1>5. Pipeline' /\ NoBlindReplace'
  BY DEF Pipeline, NoBlindReplace, OneWriter, TypeOK, Procs, Working, LoadOf
<1>6. Reading' /\ ReadersWhole'
  BY DEF Reading, ReadersWhole, OneWriter, TypeOK, Procs
<1> QED
  BY <1>1, <1>2, <1>3, <1>4, <1>5, <1>6

\* A process that ends takes nothing from the files.
LEMMA ExitKeeps ==
    ASSUME IInv, NEW p \in Procs, Exit(p)
    PROVE  IInv'
<1> USE StateFileAssumption DEF IInv, Exit, Gone, files, history
<1>1. TypeOK'
  BY DEF TypeOK, Directory, Procs, Contents
<1>2. OneWriter'
  BY DEF OneWriter, TypeOK, Procs, Working
<1>3. TmpApart' /\ Damage' /\ CorruptKept'
  BY DEF TmpApart, Damage, CorruptKept, TypeOK, Directory, Procs
<1>4. Settled'
  BY DEF Settled, TmpApart, TypeOK, Directory, LoadOf
<1>5. Pipeline' /\ NoBlindReplace'
  BY DEF Pipeline, NoBlindReplace, OneWriter, TypeOK, Procs, Working, LoadOf
<1>6. Reading' /\ ReadersWhole'
  BY DEF Reading, ReadersWhole, OneWriter, TypeOK, Procs
<1> QED
  BY <1>1, <1>2, <1>3, <1>4, <1>5, <1>6

\* A power failure leaves a directory whose state file was synced.
LEMMA PowerFailureKeeps ==
    ASSUME IInv, PowerFailure
    PROVE  IInv'
<1> USE StateFileAssumption DEF IInv, PowerFailure
<1>1. TypeOK'
  BY DEF TypeOK, Directory, Procs, Contents
<1>2. OneWriter'
  BY DEF OneWriter, TypeOK, Procs, Working
<1>3. TmpApart' /\ Damage' /\ CorruptKept'
  BY DEF TmpApart, Damage, CorruptKept, TypeOK, Directory, Procs
<1>4. Settled'
  BY DEF Settled, TmpApart, TypeOK, Directory, LoadOf
<1>5. Pipeline' /\ NoBlindReplace'
  BY DEF Pipeline, NoBlindReplace, OneWriter, TypeOK, Procs, Working, LoadOf
<1>6. Reading' /\ ReadersWhole'
  BY DEF Reading, ReadersWhole, OneWriter, TypeOK, Procs
<1> QED
  BY <1>1, <1>2, <1>3, <1>4, <1>5, <1>6

\* Damage comes to the state file only while no writer is at work.
LEMMA SpoilKeeps ==
    ASSUME IInv, NEW c \in {Malformed, Newer}, Spoil(c)
    PROVE  IInv'
<1> USE StateFileAssumption DEF IInv, Spoil, process
<1>1. TypeOK'
  BY DEF TypeOK, Directory, Procs, Contents
<1>2. OneWriter'
  BY DEF OneWriter, TypeOK, Procs, Working
<1>3. TmpApart' /\ Damage' /\ CorruptKept'
  BY DEF TmpApart, Damage, CorruptKept, TypeOK, Directory, Procs
<1>4. Settled'
  BY DEF Settled, TmpApart, TypeOK, Directory, LoadOf
<1>5. Pipeline' /\ NoBlindReplace'
  BY DEF Pipeline, NoBlindReplace, OneWriter, TypeOK, Procs, Working, LoadOf
<1>6. Reading' /\ ReadersWhole'
  BY DEF Reading, ReadersWhole, OneWriter, TypeOK, Procs
<1> QED
  BY <1>1, <1>2, <1>3, <1>4, <1>5, <1>6

\* No step of the code, no crash and no damage takes the invariant away.
LEMMA StepKeepsIInv == IInv /\ [Next]_vars => IInv'
<1> SUFFICES ASSUME IInv, [Next]_vars PROVE IInv'
  OBVIOUS
<1>1. ASSUME NEW p \in Writers,
             \/ TakeLock(p) \/ Load(p) \/ LoadCorrupt(p) \/ LoadFails(p)
             \/ \E v \in Values : OpenTmp(p, v)
             \/ WriteAll(p) \/ SyncFile(p) \/ Rename(p) \/ SyncDir(p) \/ SaveFails(p)
      PROVE  IInv'
  BY <1>1, Zenon, TakeLockKeeps, LoadKeeps, LoadCorruptKeeps, LoadFailsKeeps, OpenTmpKeeps,
     WriteAllKeeps, SyncFileKeeps, RenameKeeps, SyncDirKeeps, SaveFailsKeeps
<1>2. ASSUME NEW r \in Readers, ReadOpen(r) \/ ReadAll(r) PROVE IInv'
  BY <1>2, Zenon, ReadOpenKeeps, ReadAllKeeps
<1>3. ASSUME NEW p \in Procs, Exit(p) PROVE IInv'
  BY <1>3, Zenon, ExitKeeps
<1>4. ASSUME PowerFailure PROVE IInv'
  BY <1>4, Zenon, PowerFailureKeeps
<1>5. ASSUME NEW c \in {Malformed, Newer}, Spoil(c) PROVE IInv'
  BY <1>5, Zenon, SpoilKeeps
<1>6. CASE UNCHANGED vars
  BY <1>6 DEF vars, files, process, history, IInv, TypeOK, OneWriter, TmpApart, Pipeline,
     Damage, Reading, Settled, NoBlindReplace, CorruptKept, ReadersWhole, LoadOf
<1> QED
  BY <1>1, <1>2, <1>3, <1>4, <1>5, <1>6, Zenon DEF Next

LEMMA IInvHolds == Spec => []IInv
  BY InitIInv, StepKeepsIInv, PTL DEF Spec

\* The variables of StateFile keep their types.
THEOREM StateTypeCorrect == Spec => []TypeOK
<1>1. IInv => TypeOK
  BY DEF IInv
<1> QED
  BY <1>1, IInvHolds, PTL

\* No writer replaces a state file whose content it does not know, with any number
\* of writers, crashes and failing calls: the lock and the order of load and save
\* suffice.
THEOREM WritersKnowTheFile == Spec => []NoBlindReplace
<1>1. IInv => NoBlindReplace
  BY DEF IInv
<1> QED
  BY <1>1, IInvHolds, PTL

\* What was damaged stays for the operator to look at.
THEOREM DamageIsKept == Spec => []CorruptKept
<1>1. IInv => CorruptKept
  BY DEF IInv
<1> QED
  BY <1>1, IInvHolds, PTL

\* A reader without the lock never sees a save half done.
THEOREM ReadersGetWholeStates == Spec => []ReadersWhole
<1>1. IInv => ReadersWhole
  BY DEF IInv
<1> QED
  BY <1>1, IInvHolds, PTL

\* What save acknowledged is what a power failure leaves.
THEOREM AcknowledgedIsSafe == Spec => []AcknowledgedSurvives
<1>1. IInv => AcknowledgedSurvives
  BY DEF IInv, AcknowledgedSurvives, Register!AcknowledgedSurvives, Settled, TmpApart
<1> QED
  BY <1>1, IInvHolds, PTL

-----------------------------------------------------------------------------
\* What a power failure may bring back, as the register sees it.
AtRisk == {LoadOf(d) : d \in possible}

\* A new directory adds what loading it gives.
LEMMA NewDirectory ==
    ASSUME possible' = possible \cup {dir'}, \A d \in possible : LoadOf(d)' = LoadOf(d)
    PROVE  AtRisk' = AtRisk \cup {LoadOf(dir)'}
  BY DEF AtRisk

\* A step that leaves what each state file holds leaves the register.
LEMMA SameRegister ==
    ASSUME IInv, LoadOf(dir)' = LoadOf(dir), settled' = settled,
           possible' = possible \cup {dir'}, \A d \in possible : LoadOf(d)' = LoadOf(d)
    PROVE  UNCHANGED Register!vars
<1>1. LoadOf(dir) \in AtRisk
  BY DEF AtRisk, IInv, TmpApart
<1>2. AtRisk' = AtRisk
  BY <1>1, NewDirectory
<1> QED
  BY <1>2 DEF AtRisk, Register!vars

LEMMA SameFiles == ASSUME UNCHANGED <<files, settled>> PROVE UNCHANGED Register!vars
  BY DEF files, Register!vars, LoadOf

LEMMA WriterStep ==
    ASSUME IInv, NEW p \in Writers,
           \/ TakeLock(p) \/ Load(p) \/ LoadCorrupt(p) \/ LoadFails(p)
           \/ \E v \in Values : OpenTmp(p, v)
           \/ WriteAll(p) \/ SyncFile(p) \/ Rename(p) \/ SyncDir(p) \/ SaveFails(p)
    PROVE  [Register!Next]_(Register!vars)
<1> USE StateFileAssumption DEF IInv
<1>1. CASE TakeLock(p) \/ Load(p) \/ LoadFails(p)
  <2>1. UNCHANGED <<files, settled>>
    BY <1>1 DEF TakeLock, Load, LoadFails, Loaded, Gone, history
  <2> QED
    BY <2>1, SameFiles
<1>2. CASE LoadCorrupt(p)
  <2>1. LoadOf(dir) = Malformed /\ LoadOf(dir)' = Empty /\ settled' = FALSE
    BY <1>2 DEF LoadCorrupt, SetDir, LoadOf, TypeOK, Directory
  <2>2. AtRisk' = AtRisk \cup {LoadOf(dir)'}
    BY <1>2, NewDirectory DEF LoadCorrupt, SetDir, LoadOf
  <2>3. Register!SetAside
    BY <2>1, <2>2 DEF AtRisk, Register!SetAside, Register!Replace
  <2> QED
    BY <2>3 DEF Register!Next
<1>3. CASE \E v \in Values : OpenTmp(p, v)
  <2>1. PICK f \in Files :
          /\ IF dir.tmp = None THEN Unused(f) ELSE f = dir.tmp
          /\ content' = [content EXCEPT ![f] = Malformed]
          /\ SetDir([dir EXCEPT !.tmp = f])
    BY <1>3 DEF OpenTmp
  <2>2. \A d \in possible : d.state # f
    BY <2>1 DEF Unused, TmpApart
  <2>3. \A d \in possible : LoadOf(d)' = LoadOf(d)
    BY <2>1, <2>2 DEF LoadOf, TypeOK, Directory
  <2>4. LoadOf(dir)' = LoadOf(dir)
    BY <2>1, <2>2 DEF LoadOf, TypeOK, Directory, SetDir, TmpApart
  <2> QED
    BY <1>3, <2>1, <2>3, <2>4, SameRegister DEF OpenTmp, SetDir, history
<1>4. CASE WriteAll(p)
  <2>1. \A d \in possible : d.state # fd[p]
    BY <1>4 DEF WriteAll, Pipeline, TmpApart
  <2>2. \A d \in possible : LoadOf(d)' = LoadOf(d)
    BY <1>4, <2>1 DEF WriteAll, LoadOf, TypeOK
  <2>3. LoadOf(dir)' = LoadOf(dir)
    BY <1>4, <2>1 DEF WriteAll, LoadOf, TypeOK, TmpApart
  <2> QED
    BY <1>4, <2>2, <2>3, SameRegister DEF WriteAll, history, TmpApart
<1>5. CASE SyncFile(p)
  BY <1>5, SameRegister DEF SyncFile, LoadOf, history, TmpApart
<1>6. CASE Rename(p)
  <2>1. /\ mem[p] \in Values /\ content[dir.tmp] = mem[p] /\ dir.tmp # None
    BY <1>6 DEF Rename, Pipeline, Working
  <2>2. LoadOf(dir)' = mem[p] /\ settled' = FALSE
    BY <1>6, <2>1 DEF Rename, SetDir, LoadOf, TypeOK, Directory
  <2>3. AtRisk' = AtRisk \cup {LoadOf(dir)'}
    BY <1>6, NewDirectory DEF Rename, SetDir, LoadOf
  <2>4. Register!Replace(mem[p])
    BY <2>2, <2>3 DEF AtRisk, Register!Replace
  <2> QED
    BY <2>1, <2>4 DEF Register!Next
<1>7. CASE SyncDir(p)
  <2>1. Register!Acknowledge
    BY <1>7 DEF SyncDir, Register!Acknowledge, LoadOf
  <2> QED
    BY <2>1 DEF Register!Next
<1>8. CASE SaveFails(p)
  <2>1. dir'.state = dir.state
    BY <1>8 DEF SaveFails, SetDir, TypeOK, Directory
  <2> QED
    BY <1>8, <2>1, SameRegister DEF SaveFails, SetDir, LoadOf, history
<1> QED
  BY <1>1, <1>2, <1>3, <1>4, <1>5, <1>6, <1>7, <1>8

LEMMA PowerFailureStep == ASSUME IInv, PowerFailure PROVE Register!Next
<1> USE DEF IInv
<1>1. PICK d \in possible : dir' = d /\ possible' = {d}
  BY DEF PowerFailure
<1>2. LoadOf(dir)' = LoadOf(d)
  BY <1>1 DEF PowerFailure, LoadOf, TypeOK, Directory, TmpApart
<1>3. AtRisk' = {LoadOf(dir)'}
  BY <1>1 DEF AtRisk, LoadOf
<1>4. Register!PowerFailure
  BY <1>1, <1>2, <1>3 DEF AtRisk, Register!PowerFailure, PowerFailure
<1> QED
  BY <1>4 DEF Register!Next

LEMMA SpoilStep ==
    ASSUME IInv, NEW c \in {Malformed, Newer}, Spoil(c)
    PROVE  Register!Next
<1> USE DEF IInv
<1>1. LoadOf(dir)' = c /\ settled' = FALSE
  BY DEF Spoil, LoadOf, TypeOK, Directory
<1>2. \A d \in possible : LoadOf(d)' \in {LoadOf(d), c}
  BY DEF Spoil, LoadOf, TypeOK
<1>3. AtRisk' \subseteq AtRisk \cup {c}
  BY <1>2 DEF AtRisk, Spoil
<1>4. c \in AtRisk'
  BY <1>1 DEF AtRisk, TmpApart, Spoil
<1>5. Register!Spoil(c)
  BY <1>1, <1>3, <1>4 DEF AtRisk, Register!Spoil
<1> QED
  BY <1>5 DEF Register!Next

\* Whatever processes, crashes and others do, the state file is the register that
\* ClaimRegister describes: the system calls of a save, each of which may be the
\* last, amount to one atomic replacement.
THEOREM RegisterImplemented == Spec => RegisterSpec
<1>1. Init => Register!Init
  BY DEF Init, Register!Init, LoadOf
<1>2. IInv /\ [Next]_vars => [Register!Next]_(Register!vars)
  <2> SUFFICES ASSUME IInv, [Next]_vars PROVE [Register!Next]_(Register!vars)
    OBVIOUS
  <2>1. ASSUME NEW r \in Readers, ReadOpen(r) \/ ReadAll(r) PROVE UNCHANGED Register!vars
    BY <2>1, SameFiles DEF ReadOpen, ReadAll, history
  <2>2. ASSUME NEW p \in Procs, Exit(p) PROVE UNCHANGED Register!vars
    BY <2>2, SameFiles DEF Exit, history
  <2>3. CASE UNCHANGED vars
    BY <2>3, SameFiles DEF vars, history
  <2> QED
    BY <2>1, <2>2, <2>3, WriterStep, PowerFailureStep, SpoilStep, Zenon DEF Next
<1> QED
  BY <1>1, <1>2, IInvHolds, PTL DEF Spec, RegisterSpec, Register!Spec

=============================================================================
