--------------------------- MODULE GroupSetsProofs ---------------------------
(***************************************************************************)
(* Proofs about GroupSets and Commands, for every tree of sets, directories*)
(* and groups and every environment:                                       *)
(*                                                                         *)
(*   GroupSetsTypes             every variable keeps its type              *)
(*   LoggedOnceHolds            the log is neither repeated nor            *)
(*   LogAgreesHolds             out of date                                *)
(*   UnmountedOnlyIfGoneHolds   what cannot be read is left alone, and     *)
(*   CalmPassExactHolds         what can be is mounted exactly             *)
(*   StatusTellsHolds, DryRunTellsHolds   the exit status tells whether a  *)
(*                              group cannot be looked into                *)
(*   CheckPredictsReloadHolds   check and the reload after it agree        *)
(***************************************************************************)
EXTENDS Commands, SequenceTheorems, TLAPS

(***************************************************************************)
(* Where a directory that is not configured lies: beneath the root of its  *)
(* set, or beneath a first-level directory of it.                          *)
(***************************************************************************)

LEMMA DirsApart ==
    /\ \A s \in Sets : s \notin Inner /\ s \notin Groups /\ s \in Configured /\ Above[s] = {}
    /\ \A i \in Inner : i \notin Groups /\ i \notin Configured
    /\ Self \notin Dirs /\ Self \notin Members /\ \A m \in Members : m \notin Dirs
  BY GroupSetsAssumption DEF Configured, Dirs

Shallow(p, s) == s \in Sets /\ Above[p] = {s}
Deep(p, i, s) == s \in Sets /\ i \in Inner /\ Above[i] = {s} /\ Above[p] = {i, s}

LEMMA Beneath ==
    \A p \in Dirs \ Configured :
        \/ \E s \in Sets : Shallow(p, s)
        \/ p \in Groups /\ \E i \in Inner, s \in Sets : Deep(p, i, s)
<1> SUFFICES ASSUME NEW p \in Dirs \ Configured
             PROVE  \/ \E s \in Sets : Shallow(p, s)
                    \/ p \in Groups /\ \E i \in Inner, s \in Sets : Deep(p, i, s)
  OBVIOUS
<1>1. Above[p] # {} /\ p \notin Sets
  BY DirsApart DEF Configured
<1>2. CASE p \in Inner
  BY <1>2, GroupSetsAssumption DEF Shallow
<1>3. CASE p \in Groups
  <2>1. PICK q \in Sets \cup Inner : Above[p] = Above[q] \cup {q}
    BY <1>1, <1>3, GroupSetsAssumption
  <2>2. CASE q \in Sets
    BY <2>1, <2>2, DirsApart DEF Shallow
  <2>3. CASE q \in Inner
    <3>1. PICK s \in Sets : Above[q] = {s}
      BY <2>3, GroupSetsAssumption
    <3>2. Deep(p, q, s)
      BY <2>1, <2>3, <3>1 DEF Deep
    <3> QED
      BY <1>3, <2>3, <3>2
  <2> QED
    BY <2>2, <2>3
<1> QED
  BY <1>1, <1>2, <1>3 DEF Dirs

LEMMA ShallowPath ==
    ASSUME NEW p \in Dirs, NEW s \in Sets, Shallow(p, s)
    PROVE  /\ p \notin Configured /\ Path(p) = {s, p} /\ SetOf(p) = {s}
           /\ Path(p) \ Configured = {p} /\ Parents(p) = {s}
<1>1. p \notin Configured /\ p # s /\ p \notin Sets
  BY DirsApart DEF Shallow, Configured
<1>2. Path(p) = {s, p}
  BY DEF Shallow, Path
<1>3. Path(s) = {s}
  BY DirsApart DEF Path
<1>4. s \in Configured
  BY DirsApart
<1> QED
  BY <1>1, <1>2, <1>3, <1>4 DEF Shallow, SetOf, Parents

LEMMA DeepPath ==
    ASSUME NEW p \in Dirs, NEW i \in Inner, NEW s \in Sets, Deep(p, i, s)
    PROVE  /\ p \notin Configured /\ Path(p) = {i, s, p} /\ SetOf(p) = {s}
           /\ Path(p) \ Configured = {i, p} /\ Parents(p) = {i} /\ Parents(i) = {s}
           /\ i \in Dirs /\ Shallow(i, s) /\ p \in Groups
<1>1. i \in Dirs /\ Shallow(i, s)
  BY DEF Deep, Dirs, Shallow
<1>2. p \notin Configured /\ p \notin Sets /\ p \notin Inner
  <2>1. p \notin Sets
    BY DirsApart DEF Deep
  <2>2. p \notin Inner
    <3> SUFFICES ASSUME p \in Inner PROVE FALSE
      OBVIOUS
    <3>1. PICK t \in Sets : Above[p] = {t}
      BY GroupSetsAssumption
    <3>2. i = t
      BY <3>1 DEF Deep
    <3> QED
      BY <3>2, DirsApart
  <2> QED
    BY <2>1, <2>2 DEF Deep, Configured
<1>3. Path(p) = {i, s, p} /\ Path(i) = {i, s} /\ Path(s) = {s} /\ i # s
  BY DirsApart DEF Deep, Path
<1>4. s \in Configured /\ i \notin Configured /\ i \notin Sets
  BY DirsApart
<1>5. p \in Groups
  BY <1>2 DEF Dirs
<1>6. Parents(p) = {i}
  BY <1>3 DEF Deep, Parents
<1>7. Parents(i) = {s}
  BY <1>1, ShallowPath
<1> QED
  BY <1>1, <1>2, <1>3, <1>4, <1>5, <1>6, <1>7 DEF SetOf

LEMMA EnteredShallow ==
    ASSUME NEW p \in Dirs, NEW s \in Sets, Shallow(p, s), NEW seen
    PROVE  Entered(p, seen) <=> s \notin degraded /\ dir[s] = "ok"
  BY ShallowPath DEF Entered

LEMMA EnteredDeep ==
    ASSUME NEW p \in Dirs, NEW i \in Inner, NEW s \in Sets, Deep(p, i, s), NEW seen
    PROVE  Entered(p, seen) <=>
             /\ s \notin degraded /\ dir[s] = "ok"
             /\ dir[i] = "ok" \/ (dir[i] = "broken" /\ p \in seen)
<1>1. /\ SetOf(p) = {s} /\ Path(p) \ Configured = {i, p}
      /\ Parents(p) = {i} /\ Parents(i) = {s}
  BY DeepPath
<1>2. i \notin Sets
  BY DirsApart
<1> QED
  BY <1>1, <1>2 DEF Entered

(***************************************************************************)
(* Types.                                                                  *)
(***************************************************************************)

LEMMA NoteTypes ==
    ASSUME NEW p \in Dirs, NEW m \in Members \cup Dirs \cup {Self},
           NEW w \in States \cup FileStates \cup {"deleted"}
    PROVE  Note(p, m, w) \in Notes
  BY DEF Note, Notes

LEMMA StrayNotesTyped ==
    ASSUME TypeOK, NEW ps \in SUBSET (Dirs \ Configured)
    PROVE  StraysAmong(ps) \subseteq Notes
<1> SUFFICES ASSUME NEW n \in StraysAmong(ps) PROVE n \in Notes
  OBVIOUS
<1>1. PICK p \in ps : dir[p] \in NotAGroup /\ \E s \in SetOf(p) : n = Note(s, p, dir[p])
  BY DEF StraysAmong
<1>2. PICK s \in SetOf(p) : n = Note(s, p, dir[p])
  BY <1>1
<1>3. s \in Dirs /\ p \in Dirs /\ dir[p] \in States
  BY DEF SetOf, Dirs, TypeOK
<1> QED
  BY <1>2, <1>3, NoteTypes

LEMMA DiscoveryNotesTyped ==
    ASSUME TypeOK, NEW seen PROVE DiscoveryNotes(seen) \subseteq Notes
<1> SUFFICES ASSUME NEW n \in DiscoveryNotes(seen) PROVE n \in Notes
  OBVIOUS
<1>1. CASE \E p \in Unavailable(seen) : n = Note(p, Self, dir[p])
  BY <1>1, NoteTypes DEF Unavailable, Entries, TypeOK
<1>2. CASE n \in StraysAmong(Entries(seen))
  BY <1>2, StrayNotesTyped DEF Entries
<1>3. CASE \E s \in UnavailableSets : n = Note(s, Self, Why(s))
  <2>1. PICK s \in UnavailableSets : n = Note(s, Self, Why(s))
    BY <1>3
  <2>2. s \in Dirs /\ Why(s) \in States \cup {"deleted"}
    BY DEF UnavailableSets, Dirs, Why, TypeOK
  <2> QED
    BY <2>1, <2>2, NoteTypes
<1> QED
  BY <1>1, <1>2, <1>3 DEF DiscoveryNotes

LEMMA MembershipNotesTyped ==
    ASSUME TypeOK, NEW away PROVE MembershipNotes(away) \subseteq Notes
<1> SUFFICES ASSUME NEW n \in MembershipNotes(away) PROVE n \in Notes
  OBVIOUS
<1>0. Scannable \subseteq Groups /\ Groups \subseteq Dirs
  BY DEF Scannable, TypeOK, Dirs
<1>1. CASE \E g \in Deleted(away) : n = Note(g, Self, "deleted")
  BY <1>0, <1>1, NoteTypes DEF Deleted, Vanished
<1>2. CASE \E g \in Failing : n = Note(g, Self, dir[g])
  <2>1. PICK g \in Failing : n = Note(g, Self, dir[g])
    BY <1>2
  <2>2. g \in Dirs /\ dir[g] \in States
    BY <1>0 DEF Failing, TypeOK
  <2> QED
    BY <2>1, <2>2, NoteTypes
<1>3. CASE \E k \in Keys : n = Note(k[1], k[2], file[k[1]][k[2]])
  <2>1. PICK k \in Keys : n = Note(k[1], k[2], file[k[1]][k[2]])
    BY <1>3
  <2>2. k[1] \in Groups /\ k[2] \in Members
    BY DEF Keys
  <2>3. file[k[1]][k[2]] \in FileStates
    BY <2>2 DEF TypeOK
  <2> QED
    BY <1>0, <2>1, <2>2, <2>3, NoteTypes
<1> QED
  BY <1>1, <1>2, <1>3 DEF MembershipNotes

LEMMA OthersTyped ==
    ASSUME TypeOK, left > 0, Others, dir' \in [Dirs -> States],
           file' \in [Groups -> [Members -> FileStates]]
    PROVE  TypeOK'
<1>1. Missing' \subseteq Keys /\ missing' \subseteq Keys
  BY DEF Others, Witnessed, Missing, TypeOK
<1>2. shut' \subseteq Dirs /\ standing' \subseteq Notes /\ calm' \in BOOLEAN
  BY DEF Others, Witnessed, TypeOK
<1>3. left' \in 0 .. Budget
  BY GroupSetsAssumption DEF Others, TypeOK
<1>4. UNCHANGED <<records, degraded, active, pc, found, scanned, notes, frozen>>
  BY DEF Others, daemon, pass
<1> QED
  BY <1>1, <1>2, <1>3, <1>4 DEF TypeOK

LEMMA ChangeDirTyped ==
    ASSUME TypeOK, NEW p \in Dirs, NEW state \in States, ChangeDir(p, state)
    PROVE  TypeOK'
<1>1. dir' \in [Dirs -> States]
  BY DEF ChangeDir, TypeOK, States
<1>2. file' \in [Groups -> [Members -> FileStates]]
  BY DEF ChangeDir, TypeOK, FileStates
<1> QED
  BY <1>1, <1>2, OthersTyped DEF ChangeDir

LEMMA ChangeFileTyped ==
    ASSUME TypeOK, NEW g \in Groups, NEW m \in Members, NEW state \in FileStates,
           ChangeFile(g, m, state)
    PROVE  TypeOK'
<1>1. dir' \in [Dirs -> States]
  BY DEF ChangeFile, TypeOK
<1>2. file' \in [Groups -> [Members -> FileStates]]
  BY DEF ChangeFile, TypeOK
<1> QED
  BY <1>1, <1>2, OthersTyped DEF ChangeFile

LEMMA ReloadTyped == ASSUME TypeOK, Reload PROVE TypeOK'
<1>1. dir' \in [Dirs -> States]
  BY DEF Reload, TypeOK, States
<1>2. missing' \subseteq Keys /\ shut' \subseteq Dirs /\ standing' \subseteq Notes
      /\ calm' \in BOOLEAN
  BY DEF Reload, Witnessed, Missing, TypeOK
<1>3. left' \in 0 .. Budget
  BY GroupSetsAssumption DEF Reload, TypeOK
<1> QED
  BY <1>1, <1>2, <1>3 DEF Reload, TypeOK, pass

LEMMA DiscoverTyped == ASSUME TypeOK, Discover PROVE TypeOK'
<1>1. PICK seen \in Readings :
        /\ found' = Found(seen)
        /\ notes' = DiscoveryNotes(seen)
        /\ frozen' = FrozenBy(HiddenBy(seen))
  BY DEF Discover
<1>2. found' \subseteq Groups /\ scanned' \subseteq Sets
  BY <1>1 DEF Discover, Found
<1>3. notes' \subseteq Notes
  BY <1>1, DiscoveryNotesTyped
<1>4. frozen' \subseteq Groups
  BY <1>1 DEF FrozenBy, TypeOK, Keys
<1>5. missing' \subseteq Keys /\ shut' \subseteq Dirs /\ calm' \in BOOLEAN
      /\ pc' \in {"idle", "observe"}
  BY DEF Discover, Missing, Shut
<1>6. UNCHANGED <<dir, file, records, degraded, active, standing, left>>
  BY DEF Discover, tree, daemon
<1> QED
  BY <1>2, <1>3, <1>4, <1>5, <1>6 DEF TypeOK

LEMMA ReconcileTyped == ASSUME TypeOK, Reconcile PROVE TypeOK'
<1>1. PICK away \in SUBSET (Vanished \ Configured) :
        LET current == notes \cup MembershipNotes(away)
            examined == Scanned(away) \cup scanned \cup {n.on : n \in current}
            untouched == frozen \cup Deleted(away) \cup Failing
        IN  /\ active' = current \cup Kept(current, examined)
            /\ records' = {k \in records : k[1] \in untouched} \cup Desired(away)
            /\ degraded' = degraded \cup {n.on : n \in {o \in current : o.why = "deleted"}}
            /\ standing' = (standing \cup (current \ active)) \cap Lasting
  BY DEF Reconcile
<1> DEFINE current == notes \cup MembershipNotes(away)
<1>2. current \subseteq Notes
  BY MembershipNotesTyped DEF TypeOK
<1>3. active' \subseteq Notes
  BY <1>1, <1>2 DEF Kept, TypeOK
<1>4. records' \subseteq Keys
  BY <1>1 DEF Desired, TypeOK
<1>5. degraded' \subseteq Dirs
  BY <1>1, <1>2 DEF TypeOK, Notes
<1>6. standing' \subseteq Notes
  BY <1>1, <1>2 DEF TypeOK
<1>7. UNCHANGED <<dir, file, calm, left>>
  BY DEF Reconcile, tree
<1>8. /\ pc' \in {"idle", "observe"} /\ found' = {} /\ scanned' = {} /\ notes' = {}
      /\ frozen' = {} /\ missing' = {} /\ shut' = {}
  BY DEF Reconcile
<1> QED
  BY <1>3, <1>4, <1>5, <1>6, <1>7, <1>8 DEF TypeOK

\* The variables have their types: in particular a note is on a directory, and only groups
\* are frozen (Note of observe.rs, discover_and_observe).
THEOREM GroupSetsTypes == Spec => []TypeOK
<1>1. Init => TypeOK
  <2> SUFFICES ASSUME Init PROVE TypeOK
    OBVIOUS
  <2>1. dir \in [Dirs -> States] /\ file \in [Groups -> [Members -> FileStates]]
    BY DEF Init, States, FileStates
  <2>2. left \in 0 .. Budget
    BY GroupSetsAssumption DEF Init
  <2> QED
    BY <2>1, <2>2 DEF Init, TypeOK
<1>2. TypeOK /\ [Next]_vars => TypeOK'
  <2> SUFFICES ASSUME TypeOK, Next \/ UNCHANGED vars PROVE TypeOK'
    OBVIOUS
  <2>1. CASE Environment
    BY <2>1, ChangeDirTyped, ChangeFileTyped DEF Environment
  <2>2. CASE Discover
    BY <2>2, DiscoverTyped
  <2>3. CASE Reconcile
    BY <2>3, ReconcileTyped
  <2>4. CASE Reload
    BY <2>4, ReloadTyped
  <2>5. ASSUME NEW p \in Dirs, Degrade(p) PROVE TypeOK'
    BY <2>5 DEF Degrade, TypeOK, tree, pass, history, Configured
  <2>6. CASE UNCHANGED vars
    BY <2>6 DEF vars, tree, daemon, pass, history, TypeOK
  <2> QED
    BY <2>1, <2>2, <2>3, <2>4, <2>5, <2>6 DEF Next, Daemon
<1> QED
  BY <1>1, <1>2, PTL DEF Spec

(***************************************************************************)
(* A problem is logged once.  A note that has been logged and whose        *)
(* problem has been there ever since is among the notes of every pass that *)
(* examines what it is on; what discovery examines is settled by the time  *)
(* of observation.                                                         *)
(***************************************************************************)

WrongFile(n, k) ==
    k \in Keys /\ dir[k[1]] = "ok" /\ file[k[1]][k[2]] \in Rejected
      /\ n = Note(k[1], k[2], file[k[1]][k[2]])
NotReadable(n, p) == p \in Dirs /\ dir[p] \in Unreadable /\ n = Note(p, Self, dir[p])
Stray(n, p, s) ==
    p \in Dirs \ Configured /\ s \in SetOf(p) /\ Visible(p) /\ dir[p] \in NotAGroup
      /\ n = Note(s, p, dir[p])

LEMMA StrayKinds ==
    ASSUME NEW ps, NEW n \in StraysAmong(ps)
    PROVE  \E p \in ps : \E s \in SetOf(p) : dir[p] \in NotAGroup /\ n = Note(s, p, dir[p])
  BY DEF StraysAmong

LEMMA LastingKinds ==
    ASSUME NEW n \in Lasting
    PROVE  \/ \E k \in Keys : WrongFile(n, k)
           \/ \E p \in Dirs : NotReadable(n, p)
           \/ \E p \in Dirs : \E s \in SetOf(p) : Stray(n, p, s)
<1>1. CASE \E k \in Keys : dir[k[1]] = "ok" /\ file[k[1]][k[2]] \in Rejected
                          /\ n = Note(k[1], k[2], file[k[1]][k[2]])
  BY <1>1 DEF WrongFile
<1>2. CASE \E p \in Dirs : dir[p] \in Unreadable /\ n = Note(p, Self, dir[p])
  BY <1>2 DEF NotReadable
<1>3. CASE n \in Problems /\ n.about \in Dirs
  <2>1. n \in StraysAmong({p \in Dirs \ Configured : Visible(p)})
    <3>1. ASSUME NEW k \in Keys, n = Note(k[1], k[2], file[k[1]][k[2]]) PROVE FALSE
      BY <1>3, <3>1, DirsApart DEF Note, Keys
    <3>2. ASSUME NEW p \in Dirs, n = Note(p, Self, dir[p]) PROVE FALSE
      BY <1>3, <3>2, DirsApart DEF Note
    <3> QED
      BY <1>3, <3>1, <3>2 DEF Problems
  <2> QED
    BY <2>1, StrayKinds DEF Stray
<1> QED
  BY <1>1, <1>2, <1>3 DEF Lasting

LEMMA DiscoveryKinds ==
    ASSUME NEW seen, NEW o \in DiscoveryNotes(seen)
    PROVE  \/ \E p \in Unavailable(seen) : o = Note(p, Self, dir[p])
           \/ \E p \in Entries(seen) : \E s \in SetOf(p) :
                 dir[p] \in NotAGroup /\ o = Note(s, p, dir[p])
           \/ \E s \in UnavailableSets : o = Note(s, Self, Why(s))
  BY StrayKinds DEF DiscoveryNotes

\* What is found in a set lies beneath a root that was read; and what can be seen in a
\* set that is not degraded is found.
LEMMA EnteredRoot ==
    ASSUME NEW p \in Dirs \ Configured, NEW s \in SetOf(p), NEW seen
    PROVE  /\ s \in Sets /\ s \in Above[p]
           /\ Entered(p, seen) => s \notin degraded /\ dir[s] = "ok"
           /\ Visible(p) /\ s \notin degraded => Entered(p, seen)
<1>1. CASE \E t \in Sets : Shallow(p, t)
  <2>1. PICK t \in Sets : Shallow(p, t)
    BY <1>1
  <2>2. s = t /\ Above[p] = {t}
    BY <2>1, ShallowPath DEF Shallow
  <2> QED
    BY <2>1, <2>2, EnteredShallow DEF Visible
<1>2. CASE \E i \in Inner, t \in Sets : Deep(p, i, t)
  <2>1. PICK i \in Inner, t \in Sets : Deep(p, i, t)
    BY <1>2
  <2>2. s = t /\ Above[p] = {i, t}
    BY <2>1, DeepPath DEF Deep
  <2> QED
    BY <2>1, <2>2, EnteredDeep DEF Visible
<1> QED
  BY <1>1, <1>2, Beneath

LEMMA DiscoveryComplete ==
    ASSUME NEW seen, NEW n \in Lasting,
           n.on \in (Sets \ (degraded \cup UnavailableSets)) \cup {o.on : o \in DiscoveryNotes(seen)}
    PROVE  n \in DiscoveryNotes(seen)
<1>1. ASSUME NEW k \in Keys, WrongFile(n, k) PROVE FALSE
  <2>1. n.on \in Groups /\ n.on \notin Sets /\ dir[n.on] = "ok"
    BY <1>1, DirsApart DEF WrongFile, Keys, Note
  <2>2. PICK o \in DiscoveryNotes(seen) : o.on = n.on
    BY <2>1
  <2>3. CASE \E p \in Unavailable(seen) : o = Note(p, Self, dir[p])
    BY <2>1, <2>2, <2>3 DEF Unavailable, Note
  <2>4. CASE \E p \in Entries(seen) : \E s \in SetOf(p) : o = Note(s, p, dir[p])
    BY <2>1, <2>2, <2>4 DEF SetOf, Note
  <2>5. CASE \E s \in UnavailableSets : o = Note(s, Self, Why(s))
    BY <2>1, <2>2, <2>5 DEF UnavailableSets, Note
  <2> QED
    BY <2>3, <2>4, <2>5, DiscoveryKinds
<1>2. ASSUME NEW p \in Dirs, NotReadable(n, p) PROVE n \in DiscoveryNotes(seen)
  <2>1. n.on = p /\ dir[p] \in Unreadable /\ n = Note(p, Self, dir[p])
    BY <1>2 DEF NotReadable, Note
  <2>2. PICK o \in DiscoveryNotes(seen) : o.on = p
    BY <2>1 DEF UnavailableSets, Unreadable
  <2>3. CASE \E q \in Unavailable(seen) : o = Note(q, Self, dir[q])
    BY <2>1, <2>2, <2>3 DEF Note
  <2>4. ASSUME NEW q \in Entries(seen), NEW s \in SetOf(q), o = Note(s, q, dir[q])
        PROVE  FALSE
    <3>1. s = p
      BY <2>2, <2>4 DEF Note
    <3>2. dir[s] = "ok"
      BY EnteredRoot DEF Entries
    <3> QED
      BY <2>1, <3>1, <3>2 DEF Unreadable
  <2>5. CASE \E s \in UnavailableSets : o = Note(s, Self, Why(s))
    BY <2>1, <2>2, <2>5 DEF Note, Why, Gone, Unreadable
  <2> QED
    BY <2>3, <2>4, <2>5, DiscoveryKinds
<1>3. ASSUME NEW p \in Dirs, NEW s \in SetOf(p), Stray(n, p, s)
      PROVE  n \in DiscoveryNotes(seen)
  <2>1. /\ p \in Dirs \ Configured /\ Visible(p) /\ dir[p] \in NotAGroup
        /\ n = Note(s, p, dir[p]) /\ n.on = s
    BY <1>3 DEF Stray, Note
  <2>2. s \in Sets /\ dir[s] = "ok"
    BY <2>1, EnteredRoot DEF Visible
  <2>3. s \notin degraded
    <3> SUFFICES ASSUME s \in degraded PROVE FALSE
      OBVIOUS
    <3>1. PICK o \in DiscoveryNotes(seen) : o.on = s
      BY <2>1
    <3>2. CASE \E q \in Unavailable(seen) : o = Note(q, Self, dir[q])
      BY <2>2, <3>1, <3>2, DirsApart DEF Unavailable, Entries, Note
    <3>3. ASSUME NEW q \in Entries(seen), NEW r \in SetOf(q), o = Note(r, q, dir[q])
          PROVE  FALSE
      <4>1. r = s
        BY <3>1, <3>3 DEF Note
      <4>2. r \notin degraded
        BY EnteredRoot DEF Entries
      <4> QED
        BY <4>1, <4>2
    <3>4. CASE \E r \in UnavailableSets : o = Note(r, Self, Why(r))
      BY <2>2, <3>1, <3>4 DEF UnavailableSets, Note
    <3> QED
      BY <3>2, <3>3, <3>4, DiscoveryKinds
  <2>4. p \in Entries(seen)
    BY <2>1, <2>3, EnteredRoot DEF Entries
  <2> QED
    BY <2>1, <2>4 DEF DiscoveryNotes, StraysAmong
<1> QED
  BY <1>1, <1>2, <1>3, LastingKinds

\* What a pass that reads a group, or fails to, reports of it.
LEMMA ObservationComplete ==
    ASSUME TypeOK, NEW away, NEW n \in Lasting,
           n.on \in Scanned(away) \cup {o.on : o \in MembershipNotes(away)}
    PROVE  n \in MembershipNotes(away)
<1>0. Scannable \subseteq Groups
  BY DEF Scannable, TypeOK
<1>1. n.on \in Scannable /\ n.on \notin Deleted(away)
  <2>1. CASE n.on \in Scanned(away)
    BY <2>1 DEF Scanned
  <2>2. ASSUME NEW o \in MembershipNotes(away), o.on = n.on
        PROVE  n.on \in Scannable /\ n.on \notin Deleted(away)
    <3>1. n.on \in Scannable
      BY <2>2 DEF MembershipNotes, Deleted, Vanished, Failing, Scanned, Note
    <3>2. ASSUME n.on \in Deleted(away) PROVE FALSE
      <4>1. n.on \in Groups /\ dir[n.on] \in {"gone", "other", "new"}
        BY <1>0, <3>2 DEF Deleted, Vanished, Exists
      <4>2. ASSUME NEW k \in Keys, WrongFile(n, k) PROVE FALSE
        BY <4>1, <4>2 DEF WrongFile, Note
      <4>3. ASSUME NEW p \in Dirs, NotReadable(n, p) PROVE FALSE
        BY <4>1, <4>3 DEF NotReadable, Note, Unreadable
      <4>4. ASSUME NEW p \in Dirs, NEW s \in SetOf(p), Stray(n, p, s) PROVE FALSE
        BY <4>1, <4>4, DirsApart DEF Stray, Note, SetOf
      <4> QED
        BY <4>2, <4>3, <4>4, LastingKinds
    <3> QED
      BY <3>1, <3>2
  <2> QED
    BY <2>1, <2>2
<1>2. ASSUME NEW k \in Keys, WrongFile(n, k) PROVE n \in MembershipNotes(away)
  <2>1. k[1] = n.on /\ dir[k[1]] = "ok"
    BY <1>2 DEF WrongFile, Note
  <2>2. k[1] \in Scanned(away)
    BY <1>1, <2>1 DEF Scanned, Failing, Unreadable
  <2> QED
    BY <1>2, <2>2 DEF WrongFile, MembershipNotes
<1>3. ASSUME NEW p \in Dirs, NotReadable(n, p) PROVE n \in MembershipNotes(away)
  <2>1. p = n.on
    BY <1>3 DEF NotReadable, Note
  <2>2. p \in Failing
    BY <1>1, <1>3, <2>1 DEF NotReadable, Failing
  <2> QED
    BY <1>3, <2>2 DEF NotReadable, MembershipNotes
<1>4. ASSUME NEW p \in Dirs, NEW s \in SetOf(p), Stray(n, p, s) PROVE FALSE
  BY <1>0, <1>1, <1>4, DirsApart DEF Stray, Note, SetOf
<1> QED
  BY <1>2, <1>3, <1>4, LastingKinds

LogInv ==
    /\ standing \subseteq active /\ standing \subseteq Lasting
    /\ pc = "observe" =>
         \A n \in standing : n.on \in scanned \cup {o.on : o \in notes} => n \in notes

LEMMA LastingOfTree == ASSUME UNCHANGED <<dir, file>> PROVE Lasting' = Lasting
<1>1. Problems' = Problems
  BY DEF Problems, StraysAmong, Readable, Visible
<1> QED
  BY <1>1 DEF Lasting

LEMMA LogInvReconcile == ASSUME TypeOK, LogInv, Reconcile PROVE LogInv'
<1>1. PICK away \in SUBSET (Vanished \ Configured) :
        LET current == notes \cup MembershipNotes(away)
            examined == Scanned(away) \cup scanned \cup {n.on : n \in current}
        IN  /\ active' = current \cup Kept(current, examined)
            /\ standing' = (standing \cup (current \ active)) \cap Lasting
  BY DEF Reconcile
<1> DEFINE current == notes \cup MembershipNotes(away)
           examined == Scanned(away) \cup scanned \cup {n.on : n \in current}
<1>2. UNCHANGED <<dir, file>> /\ pc = "observe" /\ pc' = "idle"
  BY DEF Reconcile, tree
<1>3. standing' \subseteq Lasting'
  BY <1>1, <1>2, LastingOfTree
<1>4. ASSUME NEW n \in standing PROVE n \in current \cup Kept(current, examined)
  <2>1. n \in active /\ n \in Lasting
    BY DEF LogInv
  <2>2. ASSUME n.on \in examined PROVE n \in current
    <3>1. CASE n.on \in scanned \cup {o.on : o \in notes}
      BY <1>2, <3>1 DEF LogInv
    <3>2. CASE n.on \in Scanned(away) \cup {o.on : o \in MembershipNotes(away)}
      BY <2>1, <3>2, ObservationComplete
    <3> QED
      BY <2>2, <3>1, <3>2
  <2>3. ASSUME NEW o \in current, SameKey(n, o) PROVE n.on \in examined
    BY <2>3 DEF SameKey
  <2> QED
    BY <2>1, <2>2, <2>3 DEF Kept
<1>5. standing' \subseteq active'
  BY <1>1, <1>4
<1> QED
  BY <1>2, <1>3, <1>5 DEF LogInv

\* While a problem lasts it stays open, so that no pass logs it as fixed or again,
\* whatever comes and goes meanwhile (NoteLog::update, run_pass).
THEOREM LoggedOnceHolds == Spec => []LoggedOnce
<1>1. Init => LogInv
  BY DEF Init, LogInv
<1>2. TypeOK /\ LogInv /\ [Next]_vars => LogInv'
  <2> SUFFICES ASSUME TypeOK, LogInv, Next \/ UNCHANGED vars PROVE LogInv'
    OBVIOUS
  <2>1. CASE Environment
    <3>1. UNCHANGED <<active, pc, scanned, notes>> /\ standing' = standing \cap Lasting'
      BY <2>1 DEF Environment, ChangeDir, ChangeFile, Others, Witnessed, daemon, pass
    <3> QED
      BY <3>1 DEF LogInv
  <2>2. CASE Discover
    <3>1. PICK seen \in Readings : notes' = DiscoveryNotes(seen)
      BY <2>2 DEF Discover
    <3>2. /\ UNCHANGED <<dir, file, active, standing>>
          /\ scanned' = Sets \ (degraded \cup UnavailableSets)
      BY <2>2 DEF Discover, tree, daemon
    <3>3. standing' \subseteq active' /\ standing' \subseteq Lasting'
      BY <3>2, LastingOfTree DEF LogInv
    <3>4. ASSUME NEW n \in standing', n.on \in scanned' \cup {o.on : o \in notes'}
          PROVE  n \in notes'
      BY <3>1, <3>2, <3>4, DiscoveryComplete DEF LogInv
    <3> QED
      BY <3>3, <3>4 DEF LogInv
  <2>3. CASE Reconcile
    BY <2>3, LogInvReconcile
  <2>4. CASE Reload
    <3>1. UNCHANGED <<active, pc, scanned, notes>> /\ standing' = standing \cap Lasting'
      BY <2>4 DEF Reload, Witnessed, pass
    <3> QED
      BY <3>1 DEF LogInv
  <2>5. ASSUME NEW p \in Dirs, Degrade(p) PROVE LogInv'
    BY <2>5, LastingOfTree DEF Degrade, LogInv, tree, pass, history
  <2>6. CASE UNCHANGED vars
    BY <2>6, LastingOfTree DEF LogInv, vars, tree, daemon, pass, history
  <2> QED
    BY <2>1, <2>2, <2>3, <2>4, <2>5, <2>6 DEF Next, Daemon, Configured
<1>3. LogInv => LoggedOnce
  BY DEF LogInv, LoggedOnce
<1> QED
  BY <1>1, <1>2, <1>3, GroupSetsTypes, PTL DEF Spec

(***************************************************************************)
(* Why a mount is removed.  From discovery on, a recorded member's group   *)
(* is frozen, or to be read, or was not there; and what may not be read    *)
(* is not above a group that is not frozen.                                *)
(***************************************************************************)

TreeInv ==
    \A p \in Dirs :
        /\ p \notin Configured => dir[p] # "new"
        /\ \A q \in Above[p] : dir[q] \in {"gone", "other"} => dir[p] = "gone"

ExcuseInv ==
    pc = "observe" =>
        /\ Missing \subseteq missing /\ shut \subseteq Shut
        /\ \A k \in records :
              \/ k[1] \in frozen
              \/ /\ Above[k[1]] \cap shut = {}
                 /\ \/ k[1] \in (Configured \cap Groups) \cup found
                    \/ k \in missing /\ k[1] \notin shut

LEMMA AboveTransitive ==
    \A p \in Dirs : \A q \in Above[p] :
        q \in Dirs /\ p \notin Configured /\ p # q /\ Above[q] \subseteq Above[p]
<1> SUFFICES ASSUME NEW p \in Dirs, NEW q \in Above[p]
             PROVE  q \in Dirs /\ p \notin Configured /\ p # q /\ Above[q] \subseteq Above[p]
  OBVIOUS
<1>1. p \notin Configured
  BY DEF Configured
<1>2. CASE \E s \in Sets : Shallow(p, s)
  BY <1>1, <1>2, DirsApart DEF Shallow, Dirs
<1>3. CASE \E i \in Inner, s \in Sets : Deep(p, i, s)
  <2>1. PICK i \in Inner, s \in Sets : Deep(p, i, s)
    BY <1>3
  <2>2. p \in Groups /\ Above[p] = {i, s} /\ Above[i] = {s} /\ Above[s] = {}
    BY <2>1, DeepPath, DirsApart DEF Deep
  <2>3. i \notin Groups /\ s \notin Groups
    BY DirsApart
  <2> QED
    BY <1>1, <2>2, <2>3 DEF Dirs
<1> QED
  BY <1>1, <1>2, <1>3, Beneath

LEMMA TreeInvChangeDir ==
    ASSUME TypeOK, TreeInv, NEW p \in Dirs, NEW state \in States, ChangeDir(p, state)
    PROVE  TreeInv'
<1>1. dir' = [q \in Dirs |-> IF q = p THEN state
                             ELSE IF p \in Above[q] /\ state \in {"gone", "other"} THEN "gone"
                             ELSE dir[q]]
  BY DEF ChangeDir
<1>2. p \notin Configured => state # "new" /\ \A q \in Above[p] : Exists(q)
  BY DEF ChangeDir
<1> SUFFICES ASSUME NEW r \in Dirs
             PROVE  /\ r \notin Configured => dir'[r] # "new"
                    /\ \A q \in Above[r] : dir'[q] \in {"gone", "other"} => dir'[r] = "gone"
  BY DEF TreeInv
<1>3. r \notin Configured => dir'[r] # "new"
  BY <1>1, <1>2 DEF TreeInv
<1>4. ASSUME NEW q \in Above[r], dir'[q] \in {"gone", "other"} PROVE dir'[r] = "gone"
  <2>1. q \in Dirs /\ r # q /\ r \notin Configured /\ Above[q] \subseteq Above[r]
    BY AboveTransitive
  <2>2. CASE q = p
    BY <1>1, <1>4, <2>1, <2>2
  <2>3. CASE q # p /\ p \in Above[q] /\ state \in {"gone", "other"}
    <3>1. p \in Above[r] /\ p # r
      BY <2>1, <2>3, AboveTransitive
    <3> QED
      BY <1>1, <2>3, <3>1
  <2>4. CASE dir'[q] = dir[q] /\ q # p
    <3>1. dir[q] \in {"gone", "other"} /\ dir[r] = "gone"
      BY <1>4, <2>4 DEF TreeInv
    <3>2. r # p
      BY <1>2, <2>1, <3>1 DEF Exists
    <3> QED
      BY <1>1, <3>1, <3>2
  <2> QED
    BY <1>1, <2>1, <2>2, <2>3, <2>4
<1> QED
  BY <1>3, <1>4

LEMMA TreeInvNext == ASSUME TypeOK, TreeInv, Next \/ UNCHANGED vars PROVE TreeInv'
<1>1. ASSUME NEW p \in Dirs, NEW state \in States, ChangeDir(p, state) PROVE TreeInv'
  BY <1>1, TreeInvChangeDir
<1>2. CASE UNCHANGED dir
  BY <1>2 DEF TreeInv
<1>3. CASE Reload
  <2>1. dir' = [p \in Dirs |-> IF dir[p] = "new" THEN "ok" ELSE dir[p]]
    BY <1>3 DEF Reload
  <2>2. ASSUME NEW p \in Dirs, NEW q \in Above[p], dir'[q] \in {"gone", "other"}
        PROVE  dir'[p] = "gone"
    <3>1. dir[q] \in {"gone", "other"}
      BY <2>1, <2>2, AboveTransitive
    <3> QED
      BY <2>1, <3>1 DEF TreeInv
  <2> QED
    BY <2>1, <2>2 DEF TreeInv
<1> QED
  BY <1>1, <1>2, <1>3
  DEF Next, Environment, Daemon, ChangeFile, Discover, Reconcile, Degrade, tree, vars

\* A pass that does not freeze a group has seen its directory, or that it is not there.
LEMMA NotFrozen ==
    ASSUME TypeOK, TreeInv, NEW seen, NEW k \in records,
           k[1] \notin FrozenBy(HiddenBy(seen))
    PROVE  /\ Above[k[1]] \cap Shut = {}
           /\ \/ k[1] \in (Configured \cap Groups) \cup Found(seen)
              \/ k \in Missing /\ k[1] \notin Shut
<1> DEFINE g == k[1]
<1>1. g \in Groups /\ g \in Dirs /\ k \in Keys
  BY DEF TypeOK, Keys, Dirs
<1>2. Path(g) \cap HiddenBy(seen) = {}
  BY DEF FrozenBy
<1>3. CASE g \in Configured
  BY <1>1, <1>3 DEF Configured
<1>4. ASSUME Entered(g, seen), g \notin Configured
      PROVE  \/ g \in Found(seen)
             \/ k \in Missing /\ g \notin Shut
  <2>1. g \in Entries(seen) /\ g \notin Unavailable(seen)
    BY <1>1, <1>2, <1>4 DEF Entries, HiddenBy, Path
  <2>2. dir[g] # "closed"
    BY <2>1 DEF Unavailable
  <2>3. CASE dir[g] \in {"ok", "broken"}
    BY <1>1, <2>1, <2>3 DEF Found
  <2>4. CASE dir[g] \notin {"ok", "broken"}
    <3>1. g \notin Shut
      BY <2>2, <2>4 DEF Shut, Unreadable
    <3>2. k \in Missing
      BY <1>1, <2>4 DEF Missing, Wanted, Readable
    <3> QED
      BY <3>1, <3>2
  <2> QED
    BY <2>3, <2>4
<1>5. ASSUME NEW s \in Sets, s \in Path(g) PROVE s \notin degraded /\ dir[s] = "ok" /\ s \notin Shut
  BY <1>2, <1>5 DEF HiddenBy, UnavailableSets, Shut, Unreadable
<1>6. ASSUME NEW s \in Sets, Shallow(g, s) PROVE
        /\ Above[g] \cap Shut = {}
        /\ g \in Found(seen) \/ (k \in Missing /\ g \notin Shut)
  <2>1. Path(g) = {s, g} /\ g \notin Configured /\ Above[g] = {s}
    BY <1>1, <1>6, ShallowPath DEF Shallow
  <2>2. Entered(g, seen)
    BY <1>1, <1>5, <1>6, <2>1, EnteredShallow
  <2> QED
    BY <1>4, <1>5, <2>1, <2>2
<1>7. ASSUME NEW i \in Inner, NEW s \in Sets, Deep(g, i, s) PROVE
        /\ Above[g] \cap Shut = {}
        /\ g \in Found(seen) \/ (k \in Missing /\ g \notin Shut)
  <2>1. /\ Path(g) = {i, s, g} /\ g \notin Configured /\ Above[g] = {i, s}
        /\ i \in Dirs /\ Shallow(i, s)
    BY <1>1, <1>7, DeepPath DEF Deep
  <2>2. s \notin degraded /\ dir[s] = "ok" /\ s \notin Shut
    BY <1>5, <2>1
  <2>3. i \notin Configured /\ Entered(i, seen)
    BY <2>1, <2>2, EnteredShallow, DirsApart
  <2>4. i \notin Unavailable(seen) /\ i \in Entries(seen)
    BY <1>2, <2>1, <2>3 DEF HiddenBy, Entries
  <2>5. dir[i] \notin Unreadable /\ i \notin Shut
    BY <2>4 DEF Unavailable, Unreadable, Shut
  <2>6. CASE dir[i] = "ok"
    <3>1. Entered(g, seen)
      BY <1>1, <1>7, <2>2, <2>6, EnteredDeep
    <3> QED
      BY <1>4, <2>1, <2>2, <2>5, <3>1
  <2>7. CASE dir[i] # "ok"
    <3>1. k \in Missing
      BY <1>1, <2>1, <2>7 DEF Missing, Wanted, Readable, Visible
    <3>2. g \notin Shut
      <4>1. CASE dir[i] = "stuck"
        BY <2>1, <4>1 DEF Shut
      <4>2. CASE dir[i] \in {"gone", "other"}
        BY <1>1, <2>1, <4>2 DEF TreeInv, Shut, Unreadable
      <4> QED
        BY <2>1, <2>3, <2>5, <2>7, <4>1, <4>2 DEF TypeOK, States, Unreadable, TreeInv
    <3> QED
      BY <2>1, <2>2, <2>5, <3>1, <3>2
  <2> QED
    BY <2>6, <2>7
<1> QED
  BY <1>1, <1>3, <1>6, <1>7, Beneath

LEMMA ExcuseInvNext ==
    ASSUME TypeOK, TreeInv, ExcuseInv, Next \/ UNCHANGED vars PROVE ExcuseInv'
<1>1. CASE Environment
  <2>1. /\ UNCHANGED <<records, pc, found, frozen>> /\ shut' = shut \cap Shut'
        /\ pc # "idle" => missing' = missing \cup Missing'
    BY <1>1 DEF Environment, ChangeDir, ChangeFile, Others, Witnessed, daemon, pass
  <2> QED
    BY <2>1 DEF ExcuseInv
<1>2. CASE Discover
  <2>1. PICK seen \in Readings : found' = Found(seen) /\ frozen' = FrozenBy(HiddenBy(seen))
    BY <1>2 DEF Discover
  <2>2. missing' = Missing /\ shut' = Shut /\ UNCHANGED <<dir, file, records>>
    BY <1>2 DEF Discover, tree, daemon
  <2>3. Missing' = Missing /\ Shut' = Shut
    BY <2>2 DEF Missing, Wanted, Readable, Visible, Shut
  <2> QED
    BY <2>1, <2>2, <2>3, NotFrozen DEF ExcuseInv
<1>3. CASE Reconcile \/ Reload \/ \E p \in Dirs : Degrade(p)
  <2>1. pc' = "idle"
    BY <1>3 DEF Reconcile, Reload, Degrade, pass
  <2> QED
    BY <2>1 DEF ExcuseInv
<1>4. CASE UNCHANGED vars
  <2>1. UNCHANGED <<dir, file, records, pc, found, frozen, missing, shut>>
    BY <1>4 DEF vars, tree, daemon, pass, history
  <2>2. Missing' = Missing /\ Shut' = Shut
    BY <2>1 DEF Missing, Wanted, Readable, Visible, Shut
  <2> QED
    BY <2>1, <2>2 DEF ExcuseInv
<1> QED
  BY <1>1, <1>2, <1>3, <1>4 DEF Next, Daemon

LEMMA RemovedOnlyIfGone ==
    ASSUME TypeOK, ExcuseInv, Reconcile, NEW k \in records \ records'
    PROVE  k \in missing /\ Path(k[1]) \cap shut = {}
<1>1. PICK away \in SUBSET (Vanished \ Configured) :
        records' = {j \in records : j[1] \in frozen \cup Deleted(away) \cup Failing}
                     \cup Desired(away)
  BY DEF Reconcile
<1> DEFINE g == k[1]
<1>2. g \in Groups /\ g \in Dirs /\ k \in Keys
  BY DEF TypeOK, Keys, Dirs
<1>3. g \notin frozen /\ g \notin Deleted(away) /\ g \notin Failing /\ k \notin Desired(away)
  BY <1>1
<1>4. Missing \subseteq missing /\ shut \subseteq Shut /\ Above[g] \cap shut = {}
  BY <1>3 DEF Reconcile, ExcuseInv
<1>5. CASE g \in (Configured \cap Groups) \cup found
  <2>1. g \in Scannable
    BY <1>3, <1>5 DEF Scannable
  <2>2. g \notin shut
    BY <1>3, <1>4, <2>1 DEF Failing, Shut
  <2>3. g \in Scanned(away)
    BY <1>3, <2>1 DEF Scanned
  <2>4. ~Wanted(k)
    BY <1>2, <1>3, <2>3 DEF Wanted, Desired
  <2> QED
    BY <1>2, <1>4, <2>2, <2>4 DEF Missing, Path
<1>6. CASE k \in missing /\ g \notin shut
  BY <1>4, <1>6 DEF Path
<1> QED
  BY <1>3, <1>5, <1>6 DEF Reconcile, ExcuseInv

\* A mount is removed only if its member was not there at some time of the pass, and no
\* directory that could not be read is to blame (discover_and_observe, observe).
THEOREM UnmountedOnlyIfGoneHolds == Spec => UnmountedOnlyIfGone
<1>1. Init => TreeInv /\ ExcuseInv
  <2> SUFFICES ASSUME Init PROVE TreeInv /\ ExcuseInv
    OBVIOUS
  <2>1. TreeInv
    BY DEF Init, TreeInv, Visible
  <2> QED
    BY <2>1 DEF Init, ExcuseInv
<1>2. TypeOK /\ TreeInv /\ ExcuseInv /\ [Next]_vars => (TreeInv /\ ExcuseInv)'
  BY TreeInvNext, ExcuseInvNext
<1>3. TypeOK /\ TreeInv /\ ExcuseInv /\ [Next]_vars =>
        [\A k \in records \ records' : k \in missing /\ Path(k[1]) \cap shut = {}]_vars
  <2> SUFFICES ASSUME TypeOK, ExcuseInv, Next, NEW k \in records \ records'
               PROVE  k \in missing /\ Path(k[1]) \cap shut = {}
    OBVIOUS
  <2>1. Reconcile
    BY DEF Next, Environment, Daemon, ChangeDir, ChangeFile, Others, Discover, Reload, Degrade,
           daemon
  <2> QED
    BY <2>1, RemovedOnlyIfGone
<1> QED
  BY <1>1, <1>2, <1>3, GroupSetsTypes, PTL DEF Spec, UnmountedOnlyIfGone

(***************************************************************************)
(* What a pass leaves that nobody interferes with.                         *)
(***************************************************************************)

\* What discovery has kept for the rest of the pass is still so, if others have left the
\* tree alone.
CalmInv ==
    /\ calm /\ pc = "observe" =>
         \E seen \in Readings :
            /\ found = Found(seen)
            /\ scanned = Sets \ (degraded \cup UnavailableSets)
            /\ notes = DiscoveryNotes(seen)
            /\ frozen = FrozenBy(HiddenBy(seen))
    /\ CalmPassExact
    /\ LogAgrees

\* Where no directory on the way to a group is hidden, the group is found exactly if it
\* can be read, and it is not frozen.
LEMMA FoundIfReadable ==
    ASSUME TypeOK, NEW seen, NEW g \in Groups, \A p \in Path(g) : ~Hidden(p)
    PROVE  /\ g \notin FrozenBy(HiddenBy(seen))
           /\ g \in (Configured \cap Groups) \cup Found(seen) <=> Readable(g)
<1>1. g \in Dirs /\ g \in Path(g)
  BY DEF Dirs, Path
<1>2. Path(g) \cap HiddenBy(seen) = {}
  <2>1. \A p \in UnavailableSets : p \in Configured /\ dir[p] # "ok"
    BY DirsApart DEF UnavailableSets
  <2>2. \A p \in Unavailable(seen) : dir[p] \in Unreadable
    BY DEF Unavailable, Unreadable
  <2> QED
    BY <2>1, <2>2 DEF HiddenBy, Hidden
<1>3. g \notin FrozenBy(HiddenBy(seen))
  <2>1. \A k \in records : k[1] = g => Path(k[1]) \cap HiddenBy(seen) = {}
    BY <1>2
  <2> QED
    BY <1>1, <1>2, <2>1 DEF FrozenBy
<1>4. CASE g \in Configured
  <2>1. Above[g] = {} /\ dir[g] = "ok"
    BY <1>1, <1>4 DEF Configured, Hidden
  <2> QED
    BY <1>3, <1>4, <2>1 DEF Readable, Visible
<1>5. CASE g \notin Configured
  <2>1. dir[g] \notin Unreadable
    BY <1>1 DEF Hidden
  <2>2. ASSUME g \in Found(seen) PROVE Readable(g)
    <3>1. Entered(g, seen) /\ dir[g] = "ok"
      BY <2>1, <2>2 DEF Found, Entries, Unreadable
    <3>2. ASSUME NEW s \in Sets, Shallow(g, s) PROVE Visible(g)
      BY <1>1, <3>1, <3>2, EnteredShallow DEF Shallow, Visible
    <3>3. ASSUME NEW i \in Inner, NEW s \in Sets, Deep(g, i, s) PROVE Visible(g)
      <4>1. dir[s] = "ok" /\ dir[i] \in {"ok", "broken"}
        BY <1>1, <3>1, <3>3, EnteredDeep
      <4>2. dir[i] \notin Unreadable
        BY <3>3 DEF Deep, Path, Hidden
      <4> QED
        BY <3>3, <4>1, <4>2 DEF Deep, Visible, Unreadable
    <3> QED
      BY <1>1, <1>5, <3>1, <3>2, <3>3, Beneath DEF Readable
  <2>3. ASSUME Readable(g) PROVE g \in Found(seen)
    <3>1. PICK s \in Sets : s \in SetOf(g)
      <4>1. CASE \E s \in Sets : Shallow(g, s)
        BY <1>1, <4>1, ShallowPath
      <4>2. CASE \E i \in Inner, s \in Sets : Deep(g, i, s)
        BY <1>1, <4>2, DeepPath
      <4> QED
        BY <1>1, <1>5, <4>1, <4>2, Beneath
    <3>2. s \notin degraded
      BY <3>1 DEF SetOf, Hidden
    <3>3. Entered(g, seen)
      BY <1>1, <1>5, <2>3, <3>1, <3>2, EnteredRoot DEF Readable
    <3> QED
      BY <1>1, <1>5, <2>3, <3>3 DEF Found, Entries, Readable
  <2> QED
    BY <1>3, <1>5, <2>2, <2>3
<1> QED
  BY <1>4, <1>5

\* A problem lasts as long as it shows.
LEMMA ProblemsLast == Problems \subseteq Lasting
<1> SUFFICES ASSUME NEW n \in Problems PROVE n \in Lasting
  OBVIOUS
<1>1. CASE \E k \in Keys : /\ Readable(k[1]) /\ file[k[1]][k[2]] \in Rejected
                           /\ n = Note(k[1], k[2], file[k[1]][k[2]])
  BY <1>1 DEF Lasting, Readable
<1>2. CASE \E p \in Dirs : dir[p] \in Unreadable /\ n = Note(p, Self, dir[p])
  BY <1>2 DEF Lasting
<1>3. CASE n \in StraysAmong({p \in Dirs \ Configured : Visible(p)})
  <2>1. n.about \in Dirs
    BY <1>3, StrayKinds DEF Note
  <2> QED
    BY <2>1 DEF Lasting
<1> QED
  BY <1>1, <1>2, <1>3 DEF Problems

LEMMA PathHidden ==
    ASSUME NEW p \in Dirs, Readable(p), Path(p) \cap degraded = {}
    PROVE  \A q \in Path(p) : ~Hidden(q)
  BY DEF Readable, Visible, Path, Hidden, Unreadable

\* What discovery makes of a tree that has not changed.
LEMMA DiscoveryOfTree ==
    ASSUME UNCHANGED <<dir, records, degraded>>
    PROVE  /\ UnavailableSets' = UnavailableSets /\ Readings' = Readings
           /\ \A seen : /\ Found(seen)' = Found(seen)
                        /\ DiscoveryNotes(seen)' = DiscoveryNotes(seen)
                        /\ FrozenBy(HiddenBy(seen))' = FrozenBy(HiddenBy(seen))
<1>1. UnavailableSets' = UnavailableSets /\ Readings' = Readings
  BY DEF UnavailableSets, Readings
<1>2. \A seen : Entries(seen)' = Entries(seen)
  BY DEF Entries, Entered
<1>3. \A seen : Unavailable(seen)' = Unavailable(seen) /\ Found(seen)' = Found(seen)
  BY <1>2 DEF Unavailable, Found
<1>4. \A seen : DiscoveryNotes(seen)' = DiscoveryNotes(seen)
  BY <1>1, <1>2, <1>3 DEF DiscoveryNotes, StraysAmong, Why
<1>5. \A seen : FrozenBy(HiddenBy(seen))' = FrozenBy(HiddenBy(seen))
  BY <1>1, <1>3 DEF FrozenBy, HiddenBy
<1> QED
  BY <1>1, <1>3, <1>4, <1>5

LEMMA CalmDiscover == ASSUME TypeOK, CalmInv, Discover PROVE CalmInv'
<1>1. PICK seen \in Readings :
        /\ found' = Found(seen)
        /\ scanned' = Sets \ (degraded \cup UnavailableSets)
        /\ notes' = DiscoveryNotes(seen)
        /\ frozen' = FrozenBy(HiddenBy(seen))
  BY DEF Discover
<1>2. UNCHANGED <<dir, file, records, degraded, active>> /\ pc' = "observe"
  BY DEF Discover, tree, daemon
<1>3. /\ UnavailableSets' = UnavailableSets /\ Readings' = Readings
      /\ Found(seen)' = Found(seen) /\ DiscoveryNotes(seen)' = DiscoveryNotes(seen)
      /\ FrozenBy(HiddenBy(seen))' = FrozenBy(HiddenBy(seen))
  BY <1>2, DiscoveryOfTree
<1> QED
  BY <1>1, <1>2, <1>3 DEF CalmInv, CalmPassExact, LogAgrees

\* A group that is found and can be read is read.
LEMMA ScannedIfReadable ==
    ASSUME TypeOK, NEW seen, found = Found(seen), frozen = FrozenBy(HiddenBy(seen)),
           NEW g \in Groups, \A p \in Path(g) : ~Hidden(p), NEW away
    PROVE  /\ g \notin frozen \cup Deleted(away) \cup Failing
           /\ g \in Scanned(away) <=> Readable(g)
<1>1. g \notin frozen /\ (g \in Scannable <=> Readable(g))
  BY FoundIfReadable DEF Scannable
<1>2. g \in Scannable => dir[g] = "ok"
  BY <1>1 DEF Readable
<1>3. g \notin Deleted(away) /\ g \notin Failing
  BY <1>2 DEF Deleted, Vanished, Exists, Failing, Unreadable
<1> QED
  BY <1>1, <1>3 DEF Scanned

\* What a calm pass reports of a group or a set that can be read.
LEMMA CalmNotes ==
    ASSUME TypeOK, NEW seen, NEW p \in Groups \cup Sets, Readable(p), NEW away, NEW n,
           n.on = p, n \in DiscoveryNotes(seen) \cup MembershipNotes(away),
           n.about \in Dirs => Visible(n.about),
           p \in Scannable => p \notin Deleted(away) \cup Failing
    PROVE  n \in Problems
<1>1. dir[p] = "ok"
  BY DEF Readable
<1>2. ASSUME n \in DiscoveryNotes(seen) PROVE n \in Problems
  <2>1. ASSUME NEW q \in Unavailable(seen), n = Note(q, Self, dir[q]) PROVE FALSE
    BY <1>1, <2>1 DEF Unavailable, Note
  <2>2. ASSUME NEW s \in UnavailableSets, n = Note(s, Self, Why(s)) PROVE FALSE
    BY <1>1, <2>2 DEF UnavailableSets, Note
  <2>3. ASSUME NEW q \in Entries(seen), NEW s \in SetOf(q), dir[q] \in NotAGroup,
               n = Note(s, q, dir[q])
        PROVE  n \in Problems
    <3>1. q \in Dirs \ Configured /\ n.about = q
      BY <2>3 DEF Entries, Note
    <3>2. n \in StraysAmong({r \in Dirs \ Configured : Visible(r)})
      BY <2>3, <3>1 DEF StraysAmong
    <3> QED
      BY <3>2 DEF Problems
  <2> QED
    BY <1>2, <2>1, <2>2, <2>3, DiscoveryKinds
<1>3. ASSUME n \in MembershipNotes(away) PROVE n \in Problems
  <2>1. ASSUME NEW g \in Deleted(away), n = Note(g, Self, "deleted") PROVE FALSE
    BY <2>1 DEF Note, Deleted, Vanished
  <2>2. ASSUME NEW g \in Failing, n = Note(g, Self, dir[g]) PROVE FALSE
    BY <2>2 DEF Note, Failing
  <2>3. ASSUME NEW k \in Keys, file[k[1]][k[2]] \in Rejected,
               n = Note(k[1], k[2], file[k[1]][k[2]])
        PROVE  n \in Problems
    <3>1. k[1] = p
      BY <2>3 DEF Note
    <3> QED
      BY <2>3, <3>1 DEF Problems
  <2> QED
    BY <1>3, <2>1, <2>2, <2>3 DEF MembershipNotes
<1> QED
  BY <1>2, <1>3

LEMMA CalmReconcile == ASSUME TypeOK, CalmInv, calm, Reconcile PROVE CalmInv'
<1>1. PICK away \in SUBSET (Vanished \ Configured) :
        LET current == notes \cup MembershipNotes(away)
            examined == Scanned(away) \cup scanned \cup {n.on : n \in current}
            untouched == frozen \cup Deleted(away) \cup Failing
        IN  /\ active' = current \cup Kept(current, examined)
            /\ records' = {k \in records : k[1] \in untouched} \cup Desired(away)
            /\ degraded' = degraded \cup {n.on : n \in {o \in current : o.why = "deleted"}}
  BY DEF Reconcile
<1> DEFINE current == notes \cup MembershipNotes(away)
           examined == Scanned(away) \cup scanned \cup {n.on : n \in current}
<1>2. UNCHANGED <<dir, file>> /\ pc = "observe" /\ pc' = "idle"
  BY DEF Reconcile, tree
<1>3. PICK seen \in Readings :
        /\ found = Found(seen)
        /\ scanned = Sets \ (degraded \cup UnavailableSets)
        /\ notes = DiscoveryNotes(seen)
        /\ frozen = FrozenBy(HiddenBy(seen))
  BY <1>2 DEF CalmInv
<1>4. degraded \subseteq degraded'
  BY <1>1
<1>5. \A p : ~Hidden(p)' => ~Hidden(p)
  BY <1>2, <1>4 DEF Hidden
<1>6. CalmPassExact'
  <2> SUFFICES ASSUME NEW k \in Keys, \A p \in Path(k[1]) : ~Hidden(p)'
               PROVE  k \in records' <=> Wanted(k)'
    BY DEF CalmPassExact
  <2>1. k[1] \in Groups /\ \A p \in Path(k[1]) : ~Hidden(p)
    BY <1>5 DEF Keys
  <2>2. /\ k[1] \notin frozen \cup Deleted(away) \cup Failing
        /\ k[1] \in Scanned(away) <=> Readable(k[1])
    BY <1>3, <2>1, ScannedIfReadable
  <2>3. k \in records' <=> k \in Desired(away)
    BY <1>1, <2>2
  <2>4. Wanted(k)' <=> Wanted(k)
    BY <1>2 DEF Wanted, Readable, Visible
  <2> QED
    BY <2>2, <2>3, <2>4 DEF Desired, Wanted
<1>7. LogAgrees'
  <2> SUFFICES ASSUME NEW p \in Groups \cup Sets, Readable(p)', Path(p) \cap degraded' = {}
               PROVE  {n \in active' : n.on = p /\ (n.about \in Dirs => Visible(n.about)')}
                        = {n \in Problems' : n.on = p}
    BY DEF LogAgrees
  <2>1. /\ Problems' = Problems /\ (Readable(p)' <=> Readable(p))
        /\ \A q : Visible(q)' <=> Visible(q)
    BY <1>2 DEF Problems, StraysAmong, Readable, Visible
  <2>2. p \in Dirs /\ p \in Path(p) /\ \A q \in Path(p) : ~Hidden(q)
    BY <1>4, <2>1, PathHidden DEF Dirs, Path
  <2>3. p \in Sets => p \in scanned /\ p \notin Groups
    BY <1>3, <2>1, <2>2, DirsApart DEF Readable, UnavailableSets, Hidden
  <2>4. p \in Groups => p \in Scanned(away) /\ p \notin Deleted(away) \cup Failing
    BY <1>3, <2>1, <2>2, ScannedIfReadable
  <2>5. ASSUME NEW n \in active', n.on = p, n.about \in Dirs => Visible(n.about)
        PROVE  n \in Problems
    <3>1. p \in examined
      BY <2>3, <2>4
    <3>2. n \in current
      BY <1>1, <2>5, <3>1 DEF Kept
    <3>3. p \in Scannable => p \notin Deleted(away) \cup Failing
      BY <2>3, <2>4 DEF Scannable, TypeOK
    <3> QED
      BY <1>3, <2>1, <2>5, <3>2, <3>3, CalmNotes
  <2>6. ASSUME NEW n \in Problems, n.on = p
        PROVE  n \in active' /\ (n.about \in Dirs => Visible(n.about))
    <3>1. n \in Lasting
      BY ProblemsLast
    <3>2. p \in Sets => n \in notes
      BY <1>3, <2>3, <2>6, <3>1, DiscoveryComplete
    <3>3. p \in Groups => n \in MembershipNotes(away)
      BY <2>4, <2>6, <3>1, ObservationComplete
    <3>4. n.about \in Dirs => Visible(n.about)
      <4>1. ASSUME NEW k \in Keys, n = Note(k[1], k[2], file[k[1]][k[2]]) PROVE n.about \notin Dirs
        BY <4>1, DirsApart DEF Note, Keys
      <4>2. ASSUME NEW q \in Dirs, n = Note(q, Self, dir[q]) PROVE n.about \notin Dirs
        BY <4>2, DirsApart DEF Note
      <4>3. ASSUME n \in StraysAmong({q \in Dirs \ Configured : Visible(q)})
            PROVE  Visible(n.about)
        BY <4>3, StrayKinds DEF Note
      <4> QED
        BY <4>1, <4>2, <4>3 DEF Problems
    <3> QED
      BY <1>1, <3>2, <3>3, <3>4
  <2> QED
    BY <2>1, <2>5, <2>6
<1> QED
  BY <1>2, <1>6, <1>7 DEF CalmInv

\* What is degraded between two passes was hidden before, and nothing beneath it could
\* be read.
LEMMA CalmDegrade == ASSUME TypeOK, CalmInv, NEW p \in Dirs, Degrade(p) PROVE CalmInv'
<1>1. /\ UNCHANGED <<dir, file, records, active, pc, calm>> /\ pc = "idle"
      /\ p \in Configured /\ dir[p] \in Gone /\ degraded' = degraded \cup {p}
  BY DEF Degrade, tree, pass, history
<1>2. \A q : Hidden(q)' <=> Hidden(q)
  BY <1>1 DEF Hidden, Gone
<1>3. \A k : Wanted(k)' <=> Wanted(k)
  BY <1>1 DEF Wanted, Readable, Visible
<1>4. CalmPassExact'
  BY <1>1, <1>2, <1>3 DEF CalmInv, CalmPassExact
<1>5. /\ Problems' = Problems /\ \A q : Readable(q)' <=> Readable(q)
      /\ \A q : Visible(q)' <=> Visible(q)
  BY <1>1 DEF Problems, StraysAmong, Readable, Visible
<1>6. \A q : Path(q) \cap degraded' = {} => Path(q) \cap degraded = {}
  BY <1>1
<1>7. LogAgrees'
  BY <1>1, <1>5, <1>6 DEF CalmInv, LogAgrees
<1> QED
  BY <1>1, <1>4, <1>7 DEF CalmInv

LEMMA CalmInvariant == Spec => []CalmInv
<1>1. Init => CalmInv
  BY DEF Init, CalmInv, CalmPassExact, LogAgrees
<1>2. TypeOK /\ CalmInv /\ [Next]_vars => CalmInv'
  <2> SUFFICES ASSUME TypeOK, CalmInv, Next \/ UNCHANGED vars PROVE CalmInv'
    OBVIOUS
  <2>1. ASSUME calm' = FALSE PROVE CalmInv'
    BY <2>1 DEF CalmInv, CalmPassExact, LogAgrees
  <2>2. CASE Environment \/ Reload
    BY <2>1, <2>2 DEF Environment, ChangeDir, ChangeFile, Others, Reload, Witnessed
  <2>3. CASE Discover
    BY <2>3, CalmDiscover
  <2>4. CASE Reconcile
    <3>1. calm \/ calm' = FALSE
      BY <2>4 DEF Reconcile, TypeOK
    <3> QED
      BY <2>1, <2>4, <3>1, CalmReconcile
  <2>5. ASSUME NEW p \in Dirs, Degrade(p) PROVE CalmInv'
    BY <2>5, CalmDegrade
  <2>6. CASE UNCHANGED vars
    <3>1. UNCHANGED <<dir, file, records, degraded, active, pc, found, scanned, notes, frozen, calm>>
      BY <2>6 DEF vars, tree, daemon, pass, history
    <3>2. /\ CalmPassExact' /\ LogAgrees'
      BY <3>1 DEF CalmInv, CalmPassExact, LogAgrees, Hidden, Wanted, Readable, Visible,
                  Problems, StraysAmong
    <3>3. ASSUME calm, pc = "observe"
          PROVE  \E seen \in Readings' :
                    /\ found' = Found(seen)'
                    /\ scanned' = (Sets \ (degraded \cup UnavailableSets))'
                    /\ notes' = DiscoveryNotes(seen)'
                    /\ frozen' = FrozenBy(HiddenBy(seen))'
      BY <3>1, <3>3, DiscoveryOfTree DEF CalmInv
    <3> QED
      BY <3>1, <3>2, <3>3 DEF CalmInv
  <2> QED
    BY <2>2, <2>3, <2>4, <2>5, <2>6 DEF Next, Daemon
<1> QED
  BY <1>1, <1>2, GroupSetsTypes, PTL DEF Spec

\* A pass that nobody interferes with mounts exactly the members that are there, whatever
\* it has to leave alone elsewhere (run_pass, discover_and_observe, observe).
THEOREM CalmPassExactHolds == Spec => []CalmPassExact
<1>1. CalmInv => CalmPassExact
  BY DEF CalmInv
<1> QED
  BY <1>1, CalmInvariant, PTL

\* After such a pass the notes on what it could read are those of the problems there are:
\* none is left of a problem that is gone, none is missing (NoteLog::update, run_pass).
THEOREM LogAgreesHolds == Spec => []LogAgrees
<1>1. CalmInv => LogAgrees
  BY DEF CalmInv
<1> QED
  BY <1>1, CalmInvariant, PTL

(***************************************************************************)
(* Loading with changes, and loading once they have been made.  Every file *)
(* that is read before has its twin afterwards: the same, or a candidate   *)
(* moved to where the others are.                                          *)
(***************************************************************************)

Twin(etc, s) ==
    IF s.candidate THEN Source(s.name, [s.file EXCEPT !.placed = etc.dirTrusted], FALSE) ELSE s

\* What every change that can be made is.
LEMMA ProperChanges ==
    ASSUME NEW etc \in Etcs, NEW changes \in Changes, ~Improper(etc, changes)
    PROVE  /\ CandidateNames(changes) \subseteq Selected /\ changes.remove \subseteq Listed(etc)
           /\ \A i \in DOMAIN changes.add :
                /\ changes.add[i].name \in Selected
                /\ changes.add[i].file \in Files /\ changes.add[i].file.kind = "file"
                /\ Candidate(changes, changes.add[i].name) = changes.add[i].file
           /\ changes.add # <<>> => etc.dir # "missing"
<1>1. /\ CandidateNames(changes) \subseteq Selected /\ changes.remove \subseteq Listed(etc)
      /\ \A i, j \in DOMAIN changes.add : i # j => changes.add[i].name # changes.add[j].name
  BY DEF Improper, BadChanges
<1>2. ASSUME NEW i \in DOMAIN changes.add
      PROVE  /\ changes.add[i].name \in Selected
             /\ changes.add[i].file \in Files /\ changes.add[i].file.kind = "file"
             /\ Candidate(changes, changes.add[i].name) = changes.add[i].file
  <2>1. changes.add \in Seq([name : FileNames, file : Files])
    BY DEF Changes
  <2>2. changes.add[i] \in [name : FileNames, file : Files]
    BY <2>1, LenProperties, ElementOfSeq
  <2>3. changes.add[i].name \in Selected /\ changes.add[i].file.kind = "file"
    BY <1>1 DEF CandidateNames, Improper
  <2>4. \A k \in DOMAIN changes.add :
            (/\ changes.add[k].name = changes.add[i].name
             /\ \A j \in DOMAIN changes.add : changes.add[j].name = changes.add[i].name => j <= k)
               <=> k = i
    <3>1. DOMAIN changes.add \subseteq Nat
      BY <2>1
    <3> QED
      BY <1>1, <3>1
  <2>5. Candidate(changes, changes.add[i].name) = changes.add[i].file
    BY <2>4, Zenon DEF Candidate
  <2> QED
    BY <2>2, <2>3, <2>5
<1> QED
  BY <1>1, <1>2 DEF Improper

\* What is found in the drop-in directory afterwards.
LEMMA FoundAfter ==
    ASSUME NEW etc \in Etcs, NEW changes \in Changes, ~Improper(etc, changes),
           etc.dir # "failing"
    PROVE  LET after == Installed(etc, changes)
           IN  /\ after.dir = etc.dir /\ after.dirTrusted = etc.dirTrusted /\ after.named = etc.named
               /\ \A n \in {MainFile} \cup Remaining(etc, changes) : after.file[n] = etc.file[n]
               /\ \A i \in DOMAIN changes.add :
                    after.file[changes.add[i].name]
                      = [changes.add[i].file EXCEPT !.placed = etc.dirTrusted]
               /\ Remaining(after, NoChanges) = Remaining(etc, changes) \cup CandidateNames(changes)
<1> DEFINE after == Installed(etc, changes)
           place(n) == CASE n \in CandidateNames(changes) ->
                              [Candidate(changes, n) EXCEPT !.placed = etc.dirTrusted]
                         [] n \in changes.remove \ CandidateNames(changes) ->
                              [etc.file[n] EXCEPT !.kind = "absent"]
                         [] OTHER -> etc.file[n]
<1>1. /\ CandidateNames(changes) \subseteq Selected /\ changes.remove \subseteq Listed(etc)
      /\ \A i \in DOMAIN changes.add :
           /\ changes.add[i].name \in Selected
           /\ changes.add[i].file \in Files /\ changes.add[i].file.kind = "file"
           /\ Candidate(changes, changes.add[i].name) = changes.add[i].file
      /\ changes.add # <<>> => etc.dir # "missing"
  BY ProperChanges
<1>2. /\ after.dir = etc.dir /\ after.dirTrusted = etc.dirTrusted /\ after.named = etc.named
      /\ \A n \in FileNames \cup {MainFile} : after.file[n] = place(n)
  BY DEF Installed, Etcs
<1>3. MainFile \notin CandidateNames(changes) \cup changes.remove /\ Listed(etc) \subseteq Selected
      /\ Selected \subseteq FileNames
  BY <1>1, ConfigFilesAssumption DEF Listed
<1>4. \A n \in {MainFile} \cup Remaining(etc, changes) : after.file[n] = etc.file[n]
  BY <1>2, <1>3 DEF Remaining
<1>5. ASSUME NEW i \in DOMAIN changes.add
      PROVE  after.file[changes.add[i].name] = [changes.add[i].file EXCEPT !.placed = etc.dirTrusted]
  <2>1. changes.add[i].name \in CandidateNames(changes)
    BY DEF CandidateNames
  <2> QED
    BY <1>1, <1>2, <1>3, <2>1
<1>6. \A n \in CandidateNames(changes) : after.file[n].kind = "file"
  <2> SUFFICES ASSUME NEW i \in DOMAIN changes.add
               PROVE  after.file[changes.add[i].name].kind = "file"
    BY DEF CandidateNames
  <2> QED
    BY <1>1, <1>5 DEF Files
<1>7. Listed(after) = Remaining(etc, changes) \cup CandidateNames(changes)
  <2>1. CASE etc.dir # "ok"
    <3>1. changes.remove = {} /\ Listed(etc) = {} /\ Listed(after) = {}
      BY <1>1, <1>2, <2>1 DEF Listed
    <3>2. changes.add = <<>>
      BY <1>1, <2>1 DEF Etcs
    <3>3. CandidateNames(changes) = {}
      BY <3>2 DEF CandidateNames
    <3> QED
      BY <3>1, <3>3 DEF Remaining
  <2>2. CASE etc.dir = "ok"
    <3>1. \A n \in changes.remove \ CandidateNames(changes) : after.file[n].kind = "absent"
      <4> SUFFICES ASSUME NEW n \in changes.remove \ CandidateNames(changes)
                   PROVE  after.file[n].kind = "absent"
        OBVIOUS
      <4>1. after.file[n] = [etc.file[n] EXCEPT !.kind = "absent"]
        BY <1>1, <1>2, <1>3
      <4>2. etc.file[n] \in Files
        BY <1>1, <1>3 DEF Etcs
      <4> QED
        BY <4>1, <4>2 DEF Files
    <3>2. \A n \in Selected \ (changes.remove \cup CandidateNames(changes)) : after.file[n] = etc.file[n]
      BY <1>2, <1>3
    <3> QED
      BY <1>1, <1>2, <1>3, <1>6, <2>2, <3>1, <3>2 DEF Listed, Remaining
  <2> QED
    BY <2>1, <2>2
<1>8. Remaining(after, NoChanges) = Listed(after)
  BY DEF Remaining, NoChanges, CandidateNames
<1> QED
  BY <1>2, <1>4, <1>5, <1>7, <1>8

\* Each file read before has one twin, and each read afterwards is one.
LEMMA Twins ==
    ASSUME NEW etc \in Etcs, NEW changes \in Changes, ~Improper(etc, changes),
           etc.dir # "failing"
    PROVE  LET before == Sources(etc, changes)
               after  == Sources(Installed(etc, changes), NoChanges)
           IN  /\ \A s \in before : Twin(etc, s) \in after
               /\ \A t \in after : \E s \in before : t = Twin(etc, s)
               /\ \A s, t \in before : s # t => s.name # t.name
<1> DEFINE etc2 == Installed(etc, changes)
           before == Sources(etc, changes)
           after  == Sources(etc2, NoChanges)
<1>1. /\ \A n \in {MainFile} \cup Remaining(etc, changes) : etc2.file[n] = etc.file[n]
      /\ \A i \in DOMAIN changes.add :
           etc2.file[changes.add[i].name] = [changes.add[i].file EXCEPT !.placed = etc.dirTrusted]
      /\ Remaining(etc2, NoChanges) = Remaining(etc, changes) \cup CandidateNames(changes)
  BY FoundAfter
<1>2. after = {Source(n, etc2.file[n], FALSE) :
                  n \in {MainFile} \cup Remaining(etc, changes) \cup CandidateNames(changes)}
  <2>1. DOMAIN NoChanges.add = {}
    BY DEF NoChanges
  <2>2. after = {Source(n, etc2.file[n], FALSE) : n \in {MainFile} \cup Remaining(etc2, NoChanges)}
    BY <2>1 DEF Sources
  <2> QED
    BY <1>1, <2>2
<1>3. before = {Source(n, etc.file[n], FALSE) : n \in {MainFile} \cup Remaining(etc, changes)}
                 \cup {Source(changes.add[i].name, changes.add[i].file, TRUE) : i \in DOMAIN changes.add}
  BY DEF Sources
<1>4. \A n \in {MainFile} \cup Remaining(etc, changes) :
          Twin(etc, Source(n, etc.file[n], FALSE)) = Source(n, etc2.file[n], FALSE)
  BY <1>1 DEF Twin, Source
<1>5. \A i \in DOMAIN changes.add :
          Twin(etc, Source(changes.add[i].name, changes.add[i].file, TRUE))
            = Source(changes.add[i].name, etc2.file[changes.add[i].name], FALSE)
  BY <1>1 DEF Twin, Source
<1>6. \A s \in before : Twin(etc, s) \in after
  <2> SUFFICES ASSUME NEW s \in before PROVE Twin(etc, s) \in after
    OBVIOUS
  <2>1. CASE \E n \in {MainFile} \cup Remaining(etc, changes) : s = Source(n, etc.file[n], FALSE)
    BY <1>2, <1>4, <2>1
  <2>2. CASE \E i \in DOMAIN changes.add : s = Source(changes.add[i].name, changes.add[i].file, TRUE)
    BY <1>2, <1>5, <2>2 DEF CandidateNames
  <2> QED
    BY <1>3, <2>1, <2>2
<1>7. \A t \in after : \E s \in before : t = Twin(etc, s)
  <2> SUFFICES ASSUME NEW t \in after PROVE \E s \in before : t = Twin(etc, s)
    OBVIOUS
  <2>1. CASE \E n \in {MainFile} \cup Remaining(etc, changes) : t = Source(n, etc2.file[n], FALSE)
    BY <1>3, <1>4, <2>1
  <2>2. CASE \E i \in DOMAIN changes.add : t = Source(changes.add[i].name, etc2.file[changes.add[i].name], FALSE)
    BY <1>3, <1>5, <2>2
  <2> QED
    BY <1>2, <2>1, <2>2 DEF CandidateNames
<1>8. ASSUME NEW s \in before, NEW t \in before, s # t PROVE s.name # t.name
  <2> DEFINE there == {MainFile} \cup Remaining(etc, changes)
             old(n) == Source(n, etc.file[n], FALSE)
             name(k) == changes.add[k].name
             new(k) == Source(name(k), changes.add[k].file, TRUE)
  <2>1. \A k, l \in DOMAIN changes.add : k # l => name(k) # name(l)
    BY DEF Improper, BadChanges
  <2>2. \A k \in DOMAIN changes.add : name(k) \notin there
    BY ProperChanges, ConfigFilesAssumption DEF CandidateNames, Remaining
  <2>3. \A u \in before :
            (\E n \in there : u = old(n)) \/ (\E k \in DOMAIN changes.add : u = new(k))
    BY <1>3
  <2>4. (\A n : old(n).name = n) /\ (\A k : new(k).name = name(k))
    BY DEF Source
  <2> HIDE DEF there, old, name, new
  <2> QED
    BY <1>8, <2>1, <2>2, <2>3, <2>4
<1> QED
  BY <1>6, <1>7, <1>8

\* Moving a file changes nothing else about it.
LEMMA MovedAlike ==
    ASSUME NEW f \in Files, NEW b
    PROVE  LET g == [f EXCEPT !.placed = b]
           IN  /\ g.kind = f.kind /\ g.trusted = f.trusted /\ g.parses = f.parses
               /\ g.daemon = f.daemon /\ g.valid = f.valid /\ g.groups = f.groups
               /\ g.clashes = f.clashes /\ g.placed = b
  BY DEF Files

\* A twin is the same file but for where it lies.
LEMMA TwinAlike ==
    ASSUME NEW etc \in Etcs, NEW changes \in Changes, ~Improper(etc, changes),
           NEW s \in Sources(etc, changes)
    PROVE  LET t == Twin(etc, s)
           IN  /\ t.name = s.name /\ t.candidate = FALSE /\ s.candidate \in BOOLEAN
               /\ t.file.kind = s.file.kind /\ t.file.trusted = s.file.trusted
               /\ t.file.parses = s.file.parses /\ t.file.daemon = s.file.daemon
               /\ t.file.valid = s.file.valid /\ t.file.groups = s.file.groups
               /\ t.file.clashes = s.file.clashes
               /\ t.file.placed = IF s.candidate THEN etc.dirTrusted ELSE s.file.placed
               /\ s.candidate => s.name # MainFile /\ s.file.kind = "file" /\ etc.dir # "missing"
<1>1. CASE \E n \in {MainFile} \cup Remaining(etc, changes) : s = Source(n, etc.file[n], FALSE)
  BY <1>1 DEF Twin, Source
<1>2. ASSUME NEW i \in DOMAIN changes.add, s = Source(changes.add[i].name, changes.add[i].file, TRUE)
      PROVE  /\ Twin(etc, s) = Source(s.name, [s.file EXCEPT !.placed = etc.dirTrusted], FALSE)
             /\ s.candidate = TRUE /\ s.file \in Files
             /\ s.name # MainFile /\ s.file.kind = "file" /\ etc.dir # "missing"
  <2>1. /\ changes.add[i].name \in Selected /\ changes.add[i].file \in Files
        /\ changes.add[i].file.kind = "file"
        /\ changes.add # <<>> => etc.dir # "missing"
    BY ProperChanges
  <2>2. changes.add # <<>>
    OBVIOUS
  <2> QED
    BY <1>2, <2>1, <2>2, ConfigFilesAssumption DEF Twin, Source
<1>3. CASE \E i \in DOMAIN changes.add : s = Source(changes.add[i].name, changes.add[i].file, TRUE)
  <2>1. PICK i \in DOMAIN changes.add : s = Source(changes.add[i].name, changes.add[i].file, TRUE)
    BY <1>3
  <2>2. /\ Twin(etc, s) = Source(s.name, [s.file EXCEPT !.placed = etc.dirTrusted], FALSE)
        /\ s.candidate = TRUE /\ s.file \in Files
        /\ s.name # MainFile /\ s.file.kind = "file" /\ etc.dir # "missing"
    BY <1>2, <2>1
  <2>3. LET t == Twin(etc, s)
        IN  t.name = s.name /\ t.candidate = FALSE /\ t.file = [s.file EXCEPT !.placed = etc.dirTrusted]
    BY <2>2 DEF Source
  <2> DEFINE g == [s.file EXCEPT !.placed = etc.dirTrusted]
  <2>4. /\ g.kind = s.file.kind /\ g.trusted = s.file.trusted /\ g.parses = s.file.parses
        /\ g.daemon = s.file.daemon /\ g.valid = s.file.valid /\ g.groups = s.file.groups
        /\ g.clashes = s.file.clashes /\ g.placed = etc.dirTrusted
    BY <2>2, MovedAlike
  <2>5. Twin(etc, s).file = g
    BY <2>3
  <2> HIDE DEF g
  <2> QED
    BY <2>2, <2>3, <2>4, <2>5
<1> QED
  BY <1>1, <1>3 DEF Sources

\* What the twins stand for is the same, and so is what is wrong with it.
LEMMA ChangesForeseen ==
    ASSUME NEW etc \in Etcs, NEW changes \in Changes, ~Improper(etc, changes),
           etc.dir # "failing"
    PROVE  LET after == Installed(etc, changes)
           IN  /\ Configures(after, NoChanges) = Configures(etc, changes)
               /\ LoadFails(after, NoChanges, "Enforce") <=> LoadFails(etc, changes, "Enforce")
<1> DEFINE etc2 == Installed(etc, changes)
           before == Sources(etc, changes)
           after  == Sources(etc2, NoChanges)
           twin(s) == Twin(etc, s)
<1>1. /\ \A s \in before : twin(s) \in after
      /\ \A t \in after : \E s \in before : t = twin(s)
      /\ \A s, t \in before : s # t => s.name # t.name
  BY Twins
<1>2. \A s \in before :
          /\ twin(s).name = s.name /\ twin(s).candidate = FALSE /\ s.candidate \in BOOLEAN
          /\ twin(s).file.kind = s.file.kind /\ twin(s).file.trusted = s.file.trusted
          /\ twin(s).file.parses = s.file.parses /\ twin(s).file.daemon = s.file.daemon
          /\ twin(s).file.valid = s.file.valid /\ twin(s).file.groups = s.file.groups
          /\ twin(s).file.clashes = s.file.clashes
          /\ twin(s).file.placed = IF s.candidate THEN etc.dirTrusted ELSE s.file.placed
          /\ s.candidate => s.name # MainFile /\ s.file.kind = "file" /\ etc.dir # "missing"
  BY TwinAlike
<1>3. etc2.dir = etc.dir /\ etc2.dirTrusted = etc.dirTrusted /\ etc2.named = etc.named
  BY FoundAfter
<1> DEFINE read == ReadFrom(etc, changes)
           read2 == ReadFrom(etc2, NoChanges)
           parsed == Parsed(etc, changes)
           parsed2 == Parsed(etc2, NoChanges)
<1>4. /\ read \subseteq before /\ \A s \in before : s \in read <=> twin(s) \in read2
      /\ \A t \in read2 : \E s \in read : t = twin(s)
  BY <1>1, <1>2 DEF ReadFrom
<1>5. /\ parsed \subseteq before /\ \A s \in before : s \in parsed <=> twin(s) \in parsed2
      /\ \A t \in parsed2 : \E s \in parsed : t = twin(s)
  BY <1>2, <1>4 DEF Parsed
<1>6. parsed \subseteq read /\ parsed2 \subseteq read2
  BY DEF Parsed
<1> HIDE DEF etc2, before, after, twin, read, read2, parsed, parsed2
<1>7. Configures(etc2, NoChanges) = Configures(etc, changes)
  BY <1>2, <1>5 DEF Configures, parsed, parsed2
<1>8. ReadErrors(etc2, NoChanges) <=> ReadErrors(etc, changes)
  BY <1>1, <1>2, <1>3 DEF ReadErrors, before, after
<1>9. Untrusted(etc2, NoChanges) <=> Untrusted(etc, changes)
  <2>1. ASSUME NEW s \in read
        PROVE  /\ twin(s) \in read2 /\ twin(s).name = s.name /\ twin(s).candidate = FALSE
               /\ twin(s).file.trusted = s.file.trusted
               /\ twin(s).file.placed = IF s.candidate THEN etc.dirTrusted ELSE s.file.placed
               /\ s.candidate => s.name # MainFile
    BY <1>2, <1>4
  <2> QED
    BY <1>3, <1>4, <2>1 DEF Untrusted, read, read2
<1>10. Invalid(etc2, NoChanges) <=> Invalid(etc, changes)
  <2>1. parsed2 # read2 <=> parsed # read
    BY <1>4, <1>5, <1>6
  <2>2. \A s, t \in parsed : s = t <=> twin(s) = twin(t)
    BY <1>1, <1>2, <1>5
  <2>3. \A s \in parsed : /\ twin(s) \in parsed2 /\ twin(s).name = s.name
                          /\ twin(s).file.daemon = s.file.daemon /\ twin(s).file.valid = s.file.valid
                          /\ twin(s).file.groups = s.file.groups
                          /\ twin(s).file.clashes = s.file.clashes
    BY <1>2, <1>5
  <2> DEFINE wrong(s, those) ==
                 \/ ~s.file.valid
                 \/ s.file.daemon \in (IF s.name = MainFile THEN {"invalid"}
                                       ELSE {"default", "moved", "invalid"})
                 \/ s.file.clashes \cap Configures(etc, changes) # {}
                 \/ \E t \in those \ {s} : s.file.groups \cap t.file.groups # {}
  <2>4. \A s \in parsed : wrong(twin(s), parsed2) <=> wrong(s, parsed)
    <3> SUFFICES ASSUME NEW s \in parsed PROVE wrong(twin(s), parsed2) <=> wrong(s, parsed)
      OBVIOUS
    <3>1. (\E t \in parsed2 \ {twin(s)} : twin(s).file.groups \cap t.file.groups # {})
            <=> (\E t \in parsed \ {s} : s.file.groups \cap t.file.groups # {})
      BY <1>5, <2>2, <2>3
    <3> QED
      BY <2>3, <3>1
  <2>5. Invalid(etc, changes) <=> parsed # read \/ \E s \in parsed : wrong(s, parsed)
    BY DEF Invalid, parsed, read
  <2>6. Invalid(etc2, NoChanges) <=> parsed2 # read2 \/ \E s \in parsed2 : wrong(s, parsed2)
    BY <1>7 DEF Invalid, parsed2, read2
  <2> HIDE DEF wrong
  <2> QED
    BY <1>5, <2>1, <2>3, <2>4, <2>5, <2>6
<1>11. ~BadChanges(etc2, NoChanges) /\ ~BadChanges(etc, changes)
  BY DEF BadChanges, NoChanges, CandidateNames, Improper
<1> QED
  BY <1>7, <1>8, <1>9, <1>10, <1>11 DEF LoadFails, etc2

\* Changes that cannot be made are not accepted.
LEMMA ImproperRefused ==
    ASSUME NEW etc \in Etcs, NEW changes \in Changes,
           Improper(etc, changes) \/ etc.dir = "failing"
    PROVE  LoadFails(etc, changes, "Enforce")
<1> DEFINE candidate(i) == Source(changes.add[i].name, changes.add[i].file, TRUE)
<1>1. changes.add \in Seq([name : FileNames, file : Files])
  BY DEF Changes
<1>2. ASSUME NEW i \in DOMAIN changes.add
      PROVE  /\ candidate(i) \in Sources(etc, changes)
             /\ candidate(i).candidate = TRUE /\ candidate(i).name # MainFile
             /\ candidate(i).file = changes.add[i].file
             /\ changes.add[i].file.kind \in {"file", "absent", "dangling", "failing"}
  <2>1. changes.add[i] \in [name : FileNames, file : Files]
    BY <1>1, LenProperties, ElementOfSeq
  <2> QED
    BY <2>1, ConfigFilesAssumption DEF Sources, Source, Files
<1> HIDE DEF candidate
<1>3. ASSUME NEW i \in DOMAIN changes.add, changes.add[i].file.kind # "file"
      PROVE  ReadErrors(etc, changes)
  BY <1>2, <1>3 DEF ReadErrors
<1>4. ASSUME NEW i \in DOMAIN changes.add, changes.add[i].file.kind = "file", etc.dir = "missing"
      PROVE  Untrusted(etc, changes)
  BY <1>2, <1>4 DEF Untrusted, ReadFrom
<1>5. changes.add # <<>> => \E i \in DOMAIN changes.add : TRUE
  <2>1. Len(changes.add) \in Nat /\ DOMAIN changes.add = 1 .. Len(changes.add)
    BY <1>1, LenProperties
  <2>2. changes.add # <<>> => Len(changes.add) \in Nat \ {0}
    BY <1>1, EmptySeq
  <2>3. changes.add # <<>> => 1 \in DOMAIN changes.add
    BY <2>1, <2>2
  <2> QED
    BY <2>3
<1> QED
  BY <1>3, <1>4, <1>5 DEF Improper, LoadFails, ReadErrors

\* A configured directory is one, or nothing is there.
RootsKept == \A p \in Configured : dir[p] \notin NotAGroup

LEMMA RootsKeptHolds == Spec => []RootsKept
<1>1. Init => RootsKept
  BY DEF Init, RootsKept, NotAGroup, Configured
<1>2. TypeOK /\ RootsKept /\ [Next]_vars => RootsKept'
  <2> SUFFICES ASSUME TypeOK, RootsKept, Next \/ UNCHANGED vars PROVE RootsKept'
    OBVIOUS
  <2>1. ASSUME NEW p \in Dirs, NEW state \in States, ChangeDir(p, state) PROVE RootsKept'
    BY <2>1 DEF ChangeDir, RootsKept, Configured, NotAGroup, TypeOK
  <2>2. CASE \E g \in Groups, m \in Members, state \in FileStates : ChangeFile(g, m, state)
    BY <2>2 DEF ChangeFile, RootsKept, tree
  <2>3. CASE Daemon
    BY <2>3 DEF Daemon, Discover, Reconcile, Reload, Degrade, RootsKept, tree, TypeOK, NotAGroup, Configured
  <2>4. CASE UNCHANGED vars
    BY <2>4 DEF vars, tree, RootsKept
  <2> QED
    BY <2>1, <2>2, <2>3, <2>4 DEF Next, Environment
<1> QED
  BY <1>1, <1>2, GroupSetsTypes, PTL DEF Spec

LEMMA Predicted ==
    ASSUME TypeOK, RootsKept, NEW env \in Envs
    PROVE  /\ CheckFails(env) =>
                \/ ReloadFails(env) \/ ~env.user \/ Improper(env.etc, env.changes)
                \/ \E s \in Sets \cap Configures(env.etc, env.changes) : dir[s] = "broken"
           /\ ReloadFails(env) => CheckFails(env) \/ StateDirIn(env.etc) # env.running
<1> DEFINE etc == env.etc
           changes == env.changes
           after == Installed(etc, changes)
           labels == Configures(etc, changes)
<1>1. etc \in Etcs /\ changes \in Changes
  BY CommandsAssumption DEF EnvType
<1>2. CASE Improper(etc, changes)
  BY <1>1, <1>2, ImproperRefused DEF CheckFails
<1>3. CASE ~Improper(etc, changes) /\ etc.dir = "failing"
  <2>1. LoadFails(etc, changes, "Enforce")
    BY <1>1, <1>3, ImproperRefused
  <2>2. after.dir = "failing"
    BY <1>1, <1>3 DEF Installed, Etcs
  <2>3. LoadFails(after, NoChanges, "Enforce")
    BY <2>2 DEF LoadFails, ReadErrors
  <2> QED
    BY <2>1, <2>3 DEF CheckFails, ReloadFails
<1>4. CASE ~Improper(etc, changes) /\ etc.dir # "failing"
  <2>1. /\ Configures(after, NoChanges) = labels
        /\ LoadFails(after, NoChanges, "Enforce") <=> LoadFails(etc, changes, "Enforce")
    BY <1>1, <1>4, ChangesForeseen
  <2>2. StateDirIn(after) = StateDirIn(etc)
    BY <1>1, <1>4, FoundAfter DEF StateDirIn
  <2>3. ASSUME NEW s \in Fresh(env)!UnavailableSets \cap labels
        PROVE  s \in Sets \cap labels /\ dir[s] = "broken"
    <3>1. s \in Sets \ NotOpened(env) /\ AsOpened[s] # "ok"
      BY DEF Fresh!UnavailableSets
    <3>2. s \in Configured /\ s \in Dirs
      BY <3>1, GroupSetsAssumption DEF Configured, Dirs
    <3>3. dir[s] \in States \ (NotAGroup \cup {"gone", "closed", "ok", "new"})
      BY <3>1, <3>2 DEF AsOpened, NotOpened, TypeOK, RootsKept
    <3> QED
      BY <3>1, <3>3 DEF States, NotAGroup
  <2>4. CheckFails(env) <=>
          \/ LoadFails(etc, changes, "Enforce") \/ ~env.user
          \/ PathErrors(env, labels) \/ NotOpened(env) \cap labels # {}
          \/ labels # {} /\ ~env.watches
          \/ Fresh(env)!UnavailableSets \cap labels # {}
          \/ SlaveError(env, labels)
    BY DEF CheckFails
  <2>5. ReloadFails(env) <=>
          \/ LoadFails(etc, changes, "Enforce") \/ StateDirIn(etc) # env.running
          \/ PathErrors(env, labels) \/ NotOpened(env) \cap labels # {}
          \/ SlaveError(env, labels) \/ (labels # {} /\ ~env.watches)
    BY <2>1, <2>2 DEF ReloadFails
  <2> QED
    BY <2>3, <2>4, <2>5
<1> QED
  BY <1>2, <1>3, <1>4

\* check, told of the changes, accepts what a reload accepts once they are made, but for
\* what it cannot know (byssus.rs check, config.rs load, daemon.rs prepare_reload).
THEOREM CheckPredictsReloadHolds == Spec => []CheckPredictsReload
<1>1. TypeOK /\ RootsKept => CheckPredictsReload
  BY Predicted DEF CheckPredictsReload
<1> QED
  BY <1>1, RootsKeptHolds, GroupSetsTypes, PTL

(***************************************************************************)
(* What a command sees: the tree as it is, and what it could not open.     *)
(***************************************************************************)

LEMMA FreshEntered ==
    ASSUME NEW env, NEW p, NEW seen
    PROVE  Fresh(env)!Entered(p, seen) <=>
             /\ SetOf(p) \cap NotOpened(env) = {}
             /\ \A q \in Path(p) \ Configured : \A r \in Parents(q) :
                  \/ AsOpened[r] = "ok"
                  \/ AsOpened[r] = "broken" /\ r \notin Sets /\ q \in seen
  BY DEF Fresh!Entered, Fresh!SetOf, Fresh!Path, Fresh!Configured, Fresh!Parents, Fresh!Dirs,
         SetOf, Path, Configured, Parents, Dirs

LEMMA FreshHidden ==
    ASSUME NEW env, NEW seen
    PROVE  /\ Fresh(env)!UnavailableSets = {s \in Sets \ NotOpened(env) : AsOpened[s] # "ok"}
           /\ Fresh(env)!Unavailable(seen) =
                {p \in Dirs \ Configured : /\ Fresh(env)!Entered(p, seen)
                                           /\ \/ AsOpened[p] = "closed"
                                              \/ AsOpened[p] = "broken" /\ p \in Inner}
           /\ Fresh(env)!Found(seen) =
                {g \in Groups \ Configured : /\ Fresh(env)!Entered(g, seen)
                                             /\ AsOpened[g] \in {"ok", "broken"}}
           /\ Fresh(env)!HiddenBy(seen) =
                NotOpened(env) \cup Fresh(env)!Unavailable(seen) \cup Fresh(env)!UnavailableSets
<1>1. Fresh(env)!UnavailableSets = {s \in Sets \ NotOpened(env) : AsOpened[s] # "ok"}
  BY DEF Fresh!UnavailableSets
<1>2. Fresh(env)!Entries(seen) = {p \in Dirs \ Configured : Fresh(env)!Entered(p, seen)}
  BY DEF Fresh!Entries, Fresh!Configured, Fresh!Dirs, Configured, Dirs
<1>3. Fresh(env)!Unavailable(seen) =
        {p \in Dirs \ Configured : /\ Fresh(env)!Entered(p, seen)
                                   /\ \/ AsOpened[p] = "closed"
                                      \/ AsOpened[p] = "broken" /\ p \in Inner}
  BY <1>2 DEF Fresh!Unavailable
<1>4. Fresh(env)!Found(seen) =
        {g \in Groups \ Configured : /\ Fresh(env)!Entered(g, seen)
                                     /\ AsOpened[g] \in {"ok", "broken"}}
  BY <1>2 DEF Fresh!Found, Dirs
<1>5. Fresh(env)!HiddenBy(seen) =
        NotOpened(env) \cup Fresh(env)!Unavailable(seen) \cup Fresh(env)!UnavailableSets
  BY DEF Fresh!HiddenBy
<1> QED
  BY <1>1, <1>3, <1>4, <1>5

LEMMA NoteListed ==
    ASSUME NEW env, NEW seen, NEW p, NEW why, Note(p, Self, why) \in NotesOf(env, seen)
    PROVE  p \in UnavailableIn(env, seen)
  BY DEF UnavailableIn, Note

\* Of what is hidden, all is listed as unavailable.
LEMMA HiddenListed ==
    ASSUME NEW env, NEW seen
    PROVE  Fresh(env)!HiddenBy(seen) \subseteq UnavailableIn(env, seen)
<1>1. \A p \in Fresh(env)!Unavailable(seen) :
        Note(p, Self, AsOpened[p]) \in Fresh(env)!DiscoveryNotes(seen)
  BY DEF Fresh!DiscoveryNotes, Fresh!Note, Note
<1>2. \A s \in Fresh(env)!UnavailableSets :
        Note(s, Self, Fresh(env)!Why(s)) \in Fresh(env)!DiscoveryNotes(seen)
  BY DEF Fresh!DiscoveryNotes, Fresh!Note, Note
<1>3. \A p \in NotOpened(env) : p \in UnavailableIn(env, seen)
  BY DEF UnavailableIn
<1>4. \A p \in Fresh(env)!Unavailable(seen) : p \in UnavailableIn(env, seen)
  BY <1>1, NoteListed DEF NotesOf
<1>5. \A s \in Fresh(env)!UnavailableSets : s \in UnavailableIn(env, seen)
  BY <1>2, NoteListed DEF NotesOf
<1> QED
  BY <1>3, <1>4, <1>5, FreshHidden

\* The groups a command scans, and those it cannot.
LEMMA LookedScans ==
    ASSUME NEW env, NEW seen
    PROVE  /\ Looked(env, seen)!Scannable =
                {g \in (Configured \cap Groups) \cup Fresh(env)!Found(seen) :
                    g \notin Fresh(env)!FrozenBy(Fresh(env)!HiddenBy(seen))}
           /\ Looked(env, seen)!Deleted({}) =
                {g \in Looked(env, seen)!Scannable : AsOpened[g] \in {"gone", "other", "new"}}
           /\ Looked(env, seen)!Failing =
                {g \in Looked(env, seen)!Scannable : AsOpened[g] \in {"closed", "broken", "stuck"}}
           /\ Looked(env, seen)!Scanned({}) =
                Looked(env, seen)!Scannable
                  \ (Looked(env, seen)!Deleted({}) \cup Looked(env, seen)!Failing)
<1>1. Looked(env, seen)!Scannable =
        {g \in (Configured \cap Groups) \cup Fresh(env)!Found(seen) :
            g \notin Fresh(env)!FrozenBy(Fresh(env)!HiddenBy(seen))}
  BY DEF Looked!Scannable, Looked!Configured, Looked!Dirs, Configured, Dirs
<1>2. Looked(env, seen)!Deleted({}) =
        {g \in Looked(env, seen)!Scannable : AsOpened[g] \in {"gone", "other", "new"}}
  BY DEF Looked!Deleted, Looked!Vanished, Looked!Exists
<1>3. Looked(env, seen)!Failing =
        {g \in Looked(env, seen)!Scannable : AsOpened[g] \in {"closed", "broken", "stuck"}}
  BY DEF Looked!Failing, Looked!Unreadable
<1>4. Looked(env, seen)!Scanned({}) =
        Looked(env, seen)!Scannable
          \ (Looked(env, seen)!Deleted({}) \cup Looked(env, seen)!Failing)
  BY DEF Looked!Scanned
<1> QED
  BY <1>1, <1>2, <1>3, <1>4

\* A group that a command knows and does not read is listed as unavailable, or something
\* above it is.
LEMMA UnreadListed ==
    ASSUME NEW env, NEW seen,
           NEW g \in (Configured \cap Groups) \cup Fresh(env)!Found(seen),
           g \notin Looked(env, seen)!Scanned({})
    PROVE  /\ UnavailableIn(env, seen) # {}
           /\ Path(g) \cap Fresh(env)!HiddenBy(seen) = {} => g \in UnavailableIn(env, seen)
<1>1. CASE g \in Fresh(env)!FrozenBy(Fresh(env)!HiddenBy(seen))
  <2>1. Path(g) \cap Fresh(env)!HiddenBy(seen) # {}
    BY <1>1 DEF Fresh!FrozenBy, Fresh!Path, Path
  <2> QED
    BY <2>1, HiddenListed
<1>2. CASE g \notin Fresh(env)!FrozenBy(Fresh(env)!HiddenBy(seen))
  <2>1. g \in Looked(env, seen)!Deleted({}) \cup Looked(env, seen)!Failing
    BY <1>2, LookedScans
  <2>2. \E why : Note(g, Self, why) \in Looked(env, seen)!MembershipNotes({})
    BY <2>1 DEF Looked!MembershipNotes, Looked!Note, Note
  <2>3. g \in UnavailableIn(env, seen)
    BY <2>2, NoteListed DEF NotesOf
  <2> QED
    BY <2>3
<1> QED
  BY <1>1, <1>2

(***************************************************************************)
(* Who is listed, and who cannot be looked into.                           *)
(***************************************************************************)

\* A configured directory that was opened is whole, or broken by a read that fails.
LEMMA OpenedRoots ==
    ASSUME TypeOK, RootsKept, NEW env, NEW p \in Configured \ NotOpened(env)
    PROVE  AsOpened[p] \in {"ok", "broken"}
<1>1. p \in Dirs /\ dir[p] \in States \ (NotAGroup \cup {"gone", "closed"})
  BY DEF Configured, NotOpened, RootsKept, TypeOK
<1> QED
  BY <1>1 DEF AsOpened, States, NotAGroup

\* Every directory nobody can look into is listed by itself.
LEMMA BlindListed ==
    ASSUME TypeOK, RootsKept, NEW env, NEW seen, NEW p \in Blind(env)
    PROVE  /\ p \in UnavailableIn(env, seen)
           /\ p \in Sets => p \in NotOpened(env) \cup Fresh(env)!UnavailableSets
           /\ p \in Configured \cap Groups =>
                p \in NotOpened(env) \/ p \notin Looked(env, seen)!Scanned({})
           /\ p \in Groups \ Configured /\ AsOpened[p] = "broken" =>
                p \in Fresh(env)!Found(seen) /\ p \notin Looked(env, seen)!Scanned({})
<1>0. p \in Dirs
  BY DEF Blind, NotOpened, Configured
<1>1. CASE p \in NotOpened(env)
  <2>1. p \in Configured /\ p \in UnavailableIn(env, seen)
    BY <1>1, HiddenListed, FreshHidden DEF NotOpened
  <2> QED
    BY <1>1, <2>1
<1>2. CASE p \notin NotOpened(env)
  <2>1. /\ AsOpened[p] \in Unreadable /\ Path(p) \cap NotOpened(env) = {}
        /\ \A q \in Above[p] : AsOpened[q] = "ok"
    BY <1>2 DEF Blind
  <2>2. CASE p \in Configured
    <3>1. AsOpened[p] = "broken"
      BY <1>2, <2>1, <2>2, OpenedRoots DEF Unreadable
    <3>2. CASE p \in Sets
      <4>1. p \in Fresh(env)!UnavailableSets
        BY <1>2, <3>1, <3>2, FreshHidden
      <4> QED
        BY <2>2, <3>2, <4>1, HiddenListed, FreshHidden, DirsApart
    <3>3. CASE p \in Groups
      <4>1. p \notin Looked(env, seen)!Scanned({})
        BY <3>1, LookedScans
      <4>2. Path(p) = {p} /\ p \notin Sets
        BY <2>2, <3>3, DirsApart DEF Path, Configured
      <4>3. Path(p) \cap Fresh(env)!HiddenBy(seen) = {}
        BY <1>2, <2>2, <4>2, FreshHidden
      <4>4. p \in UnavailableIn(env, seen)
        BY <2>2, <3>3, <4>1, <4>3, UnreadListed
      <4> QED
        BY <2>2, <4>1, <4>2, <4>4
    <3> QED
      BY <1>0, <2>2, <3>2, <3>3, DirsApart DEF Dirs
  <2>3. CASE p \notin Configured
    <3>1. Fresh(env)!Entered(p, seen)
      <4>1. ASSUME NEW s \in Sets, Shallow(p, s) PROVE Fresh(env)!Entered(p, seen)
        <5>1. SetOf(p) = {s} /\ Path(p) \ Configured = {p} /\ Parents(p) = {s} /\ s \in Path(p)
          BY <1>0, <4>1, ShallowPath
        <5>2. AsOpened[s] = "ok"
          BY <2>1, <4>1 DEF Shallow
        <5> QED
          BY <2>1, <5>1, <5>2, FreshEntered
      <4>2. ASSUME NEW i \in Inner, NEW s \in Sets, Deep(p, i, s)
            PROVE  Fresh(env)!Entered(p, seen)
        <5>1. /\ SetOf(p) = {s} /\ Path(p) \ Configured = {i, p} /\ s \in Path(p)
              /\ Parents(p) = {i} /\ Parents(i) = {s}
          BY <1>0, <4>2, DeepPath
        <5>2. AsOpened[s] = "ok" /\ AsOpened[i] = "ok"
          BY <2>1, <4>2 DEF Deep
        <5> QED
          BY <2>1, <5>1, <5>2, FreshEntered
      <4> QED
        BY <1>0, <2>3, <4>1, <4>2, Beneath
    <3>2. p \notin Sets
      BY <2>3, DirsApart
    <3>3. CASE AsOpened[p] = "closed" \/ p \in Inner
      <4>1. p \in Fresh(env)!Unavailable(seen)
        BY <1>0, <2>1, <2>3, <3>1, <3>3, FreshHidden DEF Unreadable
      <4>2. p \in UnavailableIn(env, seen)
        BY <4>1, HiddenListed, FreshHidden
      <4> QED
        BY <2>3, <3>2, <3>3, <4>2, DirsApart
    <3>4. CASE AsOpened[p] = "broken" /\ p \in Groups
      <4>1. p \in Fresh(env)!Found(seen)
        BY <2>3, <3>1, <3>4, FreshHidden
      <4>2. p \notin Looked(env, seen)!Scanned({})
        BY <3>4, LookedScans
      <4>3. \A q \in Path(p) : q \notin Fresh(env)!Unavailable(seen)
        BY <2>1, <3>4, FreshHidden, DirsApart DEF Path
      <4>4. \A q \in Path(p) : q \notin Fresh(env)!UnavailableSets
        BY <2>1, <3>2, FreshHidden DEF Path
      <4>5. Path(p) \cap Fresh(env)!HiddenBy(seen) = {}
        BY <2>1, <4>3, <4>4, FreshHidden
      <4>6. p \in UnavailableIn(env, seen)
        BY <4>1, <4>2, <4>5, UnreadListed
      <4> QED
        BY <2>3, <3>2, <4>1, <4>2, <4>6
    <3> QED
      BY <1>0, <2>1, <3>2, <3>3, <3>4 DEF Dirs, Unreadable
  <2> QED
    BY <2>2, <2>3
<1> QED
  BY <1>1, <1>2

\* If a directory that cannot be read is entered, it or the one above it is blind.
LEMMA EnteredBlind ==
    ASSUME TypeOK, RootsKept, NEW env, NEW seen, NEW p \in Dirs \ Configured,
           Fresh(env)!Entered(p, seen), AsOpened[p] \in Unreadable
    PROVE  Blind(env) # {}
<1>1. NotOpened(env) \subseteq Configured
  BY DEF NotOpened
<1>2. ASSUME NEW s \in Sets, Shallow(p, s) PROVE Blind(env) # {}
  <2>1. /\ SetOf(p) = {s} /\ Path(p) = {s, p} /\ Path(p) \ Configured = {p}
        /\ Parents(p) = {s} /\ Above[p] = {s}
    BY <1>2, ShallowPath DEF Shallow
  <2>2. s \notin NotOpened(env) /\ AsOpened[s] = "ok"
    BY <2>1, FreshEntered
  <2>3. p \in Blind(env)
    BY <1>1, <2>1, <2>2 DEF Blind
  <2> QED
    BY <2>3
<1>3. ASSUME NEW i \in Inner, NEW s \in Sets, Deep(p, i, s) PROVE Blind(env) # {}
  <2>1. /\ SetOf(p) = {s} /\ Path(p) = {i, s, p} /\ Path(p) \ Configured = {i, p}
        /\ Parents(p) = {i} /\ Parents(i) = {s} /\ Above[p] = {i, s}
        /\ i \in Dirs /\ Shallow(i, s)
    BY <1>3, DeepPath DEF Deep
  <2>2. s \notin NotOpened(env) /\ AsOpened[s] = "ok" /\ AsOpened[i] \in {"ok", "broken"}
    BY <2>1, FreshEntered
  <2>3. /\ Path(i) = {s, i} /\ Above[i] = {s} /\ i \notin Configured
    BY <2>1, ShallowPath DEF Shallow
  <2>4. AsOpened[i] = "broken" => i \in Blind(env)
    BY <1>1, <2>1, <2>2, <2>3 DEF Blind, Unreadable
  <2>5. AsOpened[i] = "ok" => p \in Blind(env)
    BY <1>1, <2>1, <2>2, <2>3 DEF Blind
  <2> QED
    BY <2>2, <2>4, <2>5
<1> QED
  BY <1>2, <1>3, Beneath

\* Where something is listed, there is a directory nobody can look into.
LEMMA ListedBlind ==
    ASSUME TypeOK, RootsKept, NEW env, NEW seen, UnavailableIn(env, seen) # {}
    PROVE  Blind(env) # {}
<1>1. CASE NotOpened(env) # {}
  BY <1>1 DEF Blind
<1>2. CASE NotOpened(env) = {}
  <2>1. PICK n \in NotesOf(env, seen) : n.about = Self
    BY <1>2 DEF UnavailableIn
  <2>2. ASSUME NEW p \in Configured, AsOpened[p] # "ok" PROVE Blind(env) # {}
    <3>1. p \in Dirs /\ AsOpened[p] = "broken" /\ Above[p] = {}
      BY <1>2, <2>2, OpenedRoots DEF Configured
    <3>2. p \in Blind(env)
      BY <1>2, <3>1 DEF Blind, Unreadable
    <3> QED
      BY <3>2
  <2>3. CASE n \in Fresh(env)!DiscoveryNotes(seen)
    <3>1. n \notin Fresh(env)!StraysAmong(Fresh(env)!Entries(seen))
      BY <2>1, DirsApart
      DEF Fresh!StraysAmong, Fresh!Note, Fresh!Entries, Fresh!Dirs, Dirs
    <3>2. CASE \E p \in Fresh(env)!Unavailable(seen) : TRUE
      <4>1. PICK p \in Fresh(env)!Unavailable(seen) : TRUE
        BY <3>2
      <4>2. /\ p \in Dirs \ Configured /\ Fresh(env)!Entered(p, seen)
            /\ AsOpened[p] \in Unreadable
        BY <4>1, FreshHidden DEF Unreadable
      <4> QED
        BY <4>2, EnteredBlind
    <3>3. CASE \E s \in Fresh(env)!UnavailableSets : TRUE
      BY <2>2, <3>3, FreshHidden, DirsApart
    <3> QED
      BY <2>3, <3>1, <3>2, <3>3 DEF Fresh!DiscoveryNotes
  <2>4. CASE n \in Looked(env, seen)!MembershipNotes({})
    <3>1. PICK g \in Looked(env, seen)!Deleted({}) \cup Looked(env, seen)!Failing : TRUE
      <4>1. \A k \in Keys : \A why : n # Note(k[1], k[2], why)
        BY <2>1, DirsApart DEF Note, Keys
      <4> QED
        BY <2>4, <4>1
        DEF Looked!MembershipNotes, Looked!Note, Note, Looked!Keys, Keys
    <3>2. /\ g \in (Configured \cap Groups) \cup Fresh(env)!Found(seen)
          /\ AsOpened[g] \in {"gone", "other", "new", "closed", "broken", "stuck"}
      BY <3>1, LookedScans
    <3>3. CASE g \in Configured
      BY <2>2, <3>2, <3>3
    <3>4. CASE g \notin Configured
      <4>1. g \in Dirs \ Configured /\ Fresh(env)!Entered(g, seen) /\ AsOpened[g] = "broken"
        BY <3>2, <3>4, FreshHidden DEF Dirs
      <4> QED
        BY <4>1, EnteredBlind DEF Unreadable
    <3> QED
      BY <3>3, <3>4
  <2> QED
    BY <2>1, <2>3, <2>4 DEF NotesOf
<1> QED
  BY <1>1, <1>2

\* status exits 1 exactly if there is a directory of groups nobody can look into, and
\* lists each of them (byssus.rs status, report.rs).
THEOREM StatusTellsHolds == Spec => []StatusTells
<1>1. ASSUME TypeOK, RootsKept PROVE StatusTells
  <2> SUFFICES ASSUME NEW env \in Unedited, NEW seen
               PROVE  /\ StatusFails(env, seen) <=> Blind(env) # {}
                      /\ Blind(env) \subseteq UnavailableIn(env, seen)
    BY DEF StatusTells
  <2>1. StatusFails(env, seen) <=> UnavailableIn(env, seen) # {}
    BY DEF StatusFails, Unedited
  <2>2. Blind(env) \subseteq UnavailableIn(env, seen)
    BY <1>1, BlindListed
  <2>3. UnavailableIn(env, seen) # {} => Blind(env) # {}
    BY <1>1, ListedBlind
  <2> QED
    BY <2>1, <2>2, <2>3
<1> QED
  BY <1>1, RootsKeptHolds, GroupSetsTypes, PTL

\* Where nothing else is wrong, dry-run exits 1 only if status does; and status alone
\* only for directories of a set that dry-run warns of (byssus.rs dry_run, status).
THEOREM DryRunTellsHolds == Spec => []DryRunTells
<1>1. ASSUME TypeOK, RootsKept PROVE DryRunTells
  <2> SUFFICES ASSUME NEW env \in Unedited, ~EnvironmentErrors(env), Slaves(env) = {}, NEW seen
               PROVE  /\ DryRunFails(env, seen) => StatusFails(env, seen)
                      /\ \/ DryRunFails(env, seen)
                         \/ \A p \in Blind(env) :
                              p \notin Configured /\ (p \in Groups => dir[p] = "closed")
    BY DEF DryRunTells
  <2>1. /\ StatusFails(env, seen) <=> UnavailableIn(env, seen) # {}
        /\ DryRunFails(env, seen) <=> SetErrors(env) # {} \/ GroupErrors(env, seen) # {}
    BY DEF StatusFails, DryRunFails, Unedited
  <2>2. ASSUME NEW s \in SetErrors(env) PROVE UnavailableIn(env, seen) # {}
    <3>1. s \in NotOpened(env) \cup Fresh(env)!UnavailableSets
      BY DEF SetErrors
    <3> QED
      BY <3>1, HiddenListed, FreshHidden
  <2>3. ASSUME NEW g \in GroupErrors(env, seen) PROVE UnavailableIn(env, seen) # {}
    <3>1. /\ g \in (Configured \cap Groups) \cup Fresh(env)!Found(seen)
          /\ g \in NotOpened(env) \/ g \notin Looked(env, seen)!Scanned({})
      BY DEF GroupErrors
    <3>2. NotOpened(env) \subseteq UnavailableIn(env, seen)
      BY HiddenListed, FreshHidden
    <3> QED
      BY <3>1, <3>2, UnreadListed
  <2>4. ASSUME NEW p \in Blind(env), p \in Configured PROVE DryRunFails(env, seen)
    <3>1. CASE p \in Sets
      BY <1>1, <2>1, <3>1, BlindListed DEF SetErrors
    <3>2. CASE p \in Groups
      BY <1>1, <2>1, <2>4, <3>2, BlindListed DEF GroupErrors
    <3> QED
      BY <2>4, <3>1, <3>2, DirsApart DEF Configured, Dirs
  <2>5. ASSUME NEW p \in Blind(env), p \in Groups \ Configured, dir[p] # "closed"
        PROVE  DryRunFails(env, seen)
    <3>1. AsOpened[p] = "broken"
      <4>1. p \notin NotOpened(env) /\ p \in Dirs
        BY <2>5 DEF NotOpened, Dirs
      <4> QED
        BY <2>5, <4>1 DEF Blind, AsOpened, Unreadable
    <3> QED
      BY <1>1, <2>1, <2>5, <3>1, BlindListed DEF GroupErrors
  <2> QED
    BY <2>1, <2>2, <2>3, <2>4, <2>5
<1> QED
  BY <1>1, RootsKeptHolds, GroupSetsTypes, PTL

=============================================================================
