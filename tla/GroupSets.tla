------------------------------ MODULE GroupSets ------------------------------
(***************************************************************************)
(* What a pass makes of directories that are missing, wrong, or cannot be  *)
(* read (src/src/runtime.rs, reconcile/mod.rs, reconcile/observe.rs).      *)
(*                                                                         *)
(* The groups of a set are the directories beneath its membership root;    *)
(* they come, go and fail at run time.  A pass discovers them, then reads  *)
(* the members of each, then mounts and unmounts; others act between these *)
(* three steps.  Problems are logged when they appear and when they go     *)
(* (NoteLog).  Mounting and unmounting as such is Reconciler's concern:    *)
(* here every step of a plan succeeds.                                     *)
(***************************************************************************)
EXTENDS Naturals, FiniteSets

CONSTANTS
    Sets,     \* group sets; each stands for its membership root, too
    Inner,    \* first-level directories of sets with two levels
    Groups,   \* groups, and their membership directories
    Above,    \* the directories above each one, up to the root of its set
    Members,  \* names of membership files
    Self,     \* the subject of a note about a directory itself
    Budget    \* bound: how often others act

Dirs == Sets \cup Inner \cup Groups
Keys == Groups \X Members

ASSUME GroupSetsAssumption ==
    /\ Sets \cap Inner = {} /\ Sets \cap Groups = {} /\ Inner \cap Groups = {}
    /\ Members \cap Dirs = {}
    /\ Above \in [Dirs -> SUBSET (Sets \cup Inner)]
    /\ \A p \in Sets : Above[p] = {}
    /\ \A i \in Inner : \E s \in Sets : Above[i] = {s}
    /\ \A g \in Groups : Above[g] = {} \/ \E q \in Sets \cup Inner : Above[g] = Above[q] \cup {q}
    /\ Self \notin Members \cup Dirs
    /\ Budget \in Nat

\* Configured directories, which are opened once and not looked for again.
Configured == {p \in Dirs : Above[p] = {}}
Path(p) == Above[p] \cup {p}

\* The directory p is an entry of, and the set it belongs to.
Parents(p) == {q \in Above[p] : Above[p] = Path(q)}
SetOf(p) == Path(p) \cap Sets

VARIABLES
    dir,       \* what is at each directory's place
    file,      \* what is at each membership file's place
    records,   \* the members that are mounted and recorded
    degraded,  \* groups and sets given up until a reload
    active,    \* NoteLog.active: the notes already logged
    pc,        \* where the daemon is in a pass
    found,     \* groups the pass has discovered and opened
    scanned,   \* sets whose root the pass has read
    notes,     \* what the pass has to report
    frozen,    \* groups the pass leaves alone
    calm,      \* others have left the pass alone
    missing,   \* history: members that were not there at some time of the pass
    shut,      \* history: directories that were unreadable all through the pass
    standing,  \* history: notes logged whose problem has been there ever since
    left       \* how often others may still act

tree == <<dir, file>>
daemon == <<records, degraded, active>>
pass == <<pc, found, scanned, notes, frozen>>
history == <<calm, missing, shut, standing, left>>
vars == <<tree, daemon, pass, history>>

(***************************************************************************)
(* Directories and files.                                                  *)
(*   "ok"                  a directory that can be read                    *)
(*   "gone"                nothing                                         *)
(*   "new"                 at a configured path: another directory than    *)
(*                         the one that was opened, which is gone          *)
(*   "other"               not a directory, or not with this name          *)
(*   "stuck"               a directory the kernel tells nothing about      *)
(*   "closed"              a directory that cannot be opened               *)
(*   "broken"              a directory that is opened, but reading it fails *)
(***************************************************************************)
States == {"ok", "gone", "new", "other", "stuck", "closed", "broken"}
Gone == {"gone", "new"}
NotAGroup == {"other", "stuck"}
Unreadable == {"closed", "broken"}
FileStates == {"none", "ok", "wrong", "full"}
Rejected == {"wrong", "full"}

Exists(p) == dir[p] \notin {"gone", "other"}

Note(on, about, why) == [on |-> on, about |-> about, why |-> why]
Notes ==
    [on : Dirs, about : Members \cup Dirs \cup {Self},
     why : States \cup FileStates \cup {"deleted"}]

\* What a note on a directory that is gone or cannot be read says.
Why(p) == IF dir[p] \in Gone THEN "deleted" ELSE dir[p]

(***************************************************************************)
(* What is really there.                                                   *)
(***************************************************************************)

\* The path to p can be read, p excluded or included.
Visible(p) == \A q \in Above[p] : dir[q] = "ok"
Readable(p) == Visible(p) /\ dir[p] = "ok"

Wanted(k) == Readable(k[1]) /\ file[k[1]][k[2]] = "ok"
Missing == {k \in Keys : ~Wanted(k)}
Shut == {p \in Dirs : dir[p] \in Unreadable /\ \A q \in Above[p] : dir[q] # "stuck"}

\* Notes on entries that are not group directories, which the root of the set has.
StraysAmong(entries) ==
    UNION {{Note(s, p, dir[p]) : s \in SetOf(p)} : p \in {q \in entries : dir[q] \in NotAGroup}}

\* The problems that show in the tree.
Problems ==
    {Note(k[1], k[2], file[k[1]][k[2]]) :
        k \in {j \in Keys : Readable(j[1]) /\ file[j[1]][j[2]] \in Rejected}}
      \cup {Note(p, Self, dir[p]) : p \in {q \in Dirs : Visible(q) /\ dir[q] \in Unreadable}}
      \cup StraysAmong({p \in Dirs \ Configured : Visible(p)})

\* The problems that are there, whether or not they show: a wrong file in a directory
\* that can be opened and read, and a directory that cannot be, whatever is above them.
Lasting ==
    {Note(k[1], k[2], file[k[1]][k[2]]) :
        k \in {j \in Keys : dir[j[1]] = "ok" /\ file[j[1]][j[2]] \in Rejected}}
      \cup {Note(p, Self, dir[p]) : p \in {q \in Dirs : dir[q] \in Unreadable}}
      \cup {n \in Problems : n.about \in Dirs}

(***************************************************************************)
(* Others.                                                                 *)
(***************************************************************************)

\* What the histories keep of a step of others.
Witnessed ==
    /\ calm' = FALSE
    /\ missing' = IF pc = "idle" THEN {} ELSE missing \cup Missing'
    /\ shut' = shut \cap Shut'
    /\ standing' = standing \cap Lasting'

Others ==
    /\ left' = left - 1
    /\ Witnessed
    /\ UNCHANGED <<daemon, pass>>

\* A directory comes, goes, is replaced, or its permissions or file system change.  What
\* is beneath it goes along.  One that comes is empty, or was moved here.  Left to
\* MembershipWatch, where directories are inodes: a configured directory that is moved,
\* and one that is replaced between being discovered and being read.
ChangeDir(p, state) ==
    /\ left > 0 /\ state # dir[p]
    /\ IF p \in Configured
       THEN /\ state \notin NotAGroup
            /\ dir[p] \in Gone => state \in Gone
            /\ state = "new" => dir[p] = "gone"
       ELSE /\ state # "new" /\ \A q \in Above[p] : Exists(q) /\ dir[q] # "stuck"
            /\ pc = "observe" /\ p \in found => Exists(p)
    /\ dir' = [q \in Dirs |-> IF q = p THEN state
                              ELSE IF p \in Above[q] /\ state \in {"gone", "other"} THEN "gone"
                              ELSE dir[q]]
    /\ \/ UNCHANGED file /\ (state = "new" => p \notin Groups)
       \/ /\ p \in Groups /\ ~Exists(p)
          /\ file' = [file EXCEPT ![p] = [m \in Members |-> "none"]]
    /\ Others

ChangeFile(g, m, state) ==
    /\ left > 0 /\ state # file[g][m]
    /\ \A p \in Path(g) : Exists(p)
    /\ file' = [file EXCEPT ![g][m] = state]
    /\ UNCHANGED dir
    /\ Others

(***************************************************************************)
(* Between passes.                                                         *)
(***************************************************************************)

\* IN_DELETE_SELF of a configured directory, if it is read before the next pass.
Degrade(p) ==
    /\ pc = "idle"
    /\ p \in Configured \ degraded /\ dir[p] \in Gone
    /\ degraded' = degraded \cup {p}
    /\ UNCHANGED <<tree, records, active, pass, history>>

\* A reload opens every configured directory, or changes nothing.  It forgets what was
\* degraded, not what was logged.
Reload ==
    /\ pc = "idle" /\ left > 0 /\ left' = left - 1
    /\ \A p \in Configured : dir[p] \in {"ok", "broken", "new"}
    /\ dir' = [p \in Dirs |-> IF dir[p] = "new" THEN "ok" ELSE dir[p]]
    /\ UNCHANGED <<file, records, active, pass>>
    /\ degraded' = {}
    /\ Witnessed

(***************************************************************************)
(* Discovery.                                                              *)
(***************************************************************************)

\* scan_level gets to p: it reads every directory above p, and those that fail half
\* way list the entries in seen before they do.
Entered(p, seen) ==
    /\ SetOf(p) \cap degraded = {}
    /\ \A q \in Path(p) \ Configured : \A r \in Parents(q) :
         dir[r] = "ok" \/ (dir[r] = "broken" /\ r \notin Sets /\ q \in seen)

\* The entries that directories which fail half way may list before.
Readings == SUBSET {p \in Dirs \ Configured : \E q \in Parents(p) : dir[q] = "broken"}

Entries(seen) == {p \in Dirs \ Configured : Entered(p, seen)}

\* Entries that are, or may contain, groups, and cannot be read.
Unavailable(seen) ==
    {p \in Entries(seen) : dir[p] = "closed" \/ (dir[p] = "broken" /\ p \in Inner)}

UnavailableSets == {s \in Sets \ degraded : dir[s] # "ok"}

\* Mutant of FrozenBy: what cannot be read freezes every recorded group of its set.
FrozenSet(hidden) ==
    (hidden \cap Groups) \cup
      {k[1] : k \in {j \in records : \E p \in hidden : SetOf(j[1]) \cap SetOf(p) # {}}}

\* Mutant of FrozenBy: only the directories that failed, not the groups beneath them.
FrozenThemselves(hidden) == hidden \cap Groups

\* discover_and_observe: the groups of recorded mounts that nothing may be done about.
FrozenBy(hidden) ==
    (hidden \cap Groups) \cup {k[1] : k \in {j \in records : Path(j[1]) \cap hidden # {}}}

Found(seen) == {g \in Entries(seen) \cap Groups : dir[g] \in {"ok", "broken"}}

\* Directories whose groups a pass leaves alone.
HiddenBy(seen) == degraded \cup Unavailable(seen) \cup UnavailableSets

DiscoveryNotes(seen) ==
    {Note(p, Self, dir[p]) : p \in Unavailable(seen)}
      \cup StraysAmong(Entries(seen))
      \cup {Note(s, Self, Why(s)) : s \in UnavailableSets}

Discover ==
    \E seen \in Readings :
        /\ pc = "idle" /\ pc' = "observe"
        /\ found' = Found(seen)
        /\ scanned' = Sets \ (degraded \cup UnavailableSets)
        /\ notes' = DiscoveryNotes(seen)
        /\ frozen' = FrozenBy(HiddenBy(seen))
        /\ calm' = TRUE /\ missing' = Missing /\ shut' = Shut
        /\ UNCHANGED <<tree, daemon, standing, left>>

(***************************************************************************)
(* Observation.                                                            *)
(***************************************************************************)

\* Groups the pass reads: those configured one by one and those discovered.
Scannable == ((Configured \cap Groups) \cup found) \ frozen

\* Of the directories that are not at their place any more, those in away have been
\* moved and can still be read; the others have been deleted.
Vanished == {g \in Scannable : ~Exists(g) \/ dir[g] = "new"}
Deleted(away) == Vanished \ away
Failing == {g \in Scannable : dir[g] \in Unreadable \cup {"stuck"}}
Scanned(away) == Scannable \ (Deleted(away) \cup Failing)

MembershipNotes(away) ==
    {Note(g, Self, "deleted") : g \in Deleted(away)}
      \cup {Note(g, Self, dir[g]) : g \in Failing}
      \cup {Note(k[1], k[2], file[k[1]][k[2]]) :
              k \in {j \in Keys : j[1] \in Scanned(away) /\ file[j[1]][j[2]] \in Rejected}}

SameKey(n, o) == n.on = o.on /\ n.about = o.about

\* Mutant of Kept: notes of groups that were not examined are dropped.
KeptOfNone(current, examined) == {}

\* Mutant of Kept: a note that is not repeated stays active.
KeptAlways(current, examined) == {n \in active : \A o \in current : ~SameKey(n, o)}

\* NoteLog::update: what stays active of the notes a pass did not repeat.
Kept(current, examined) ==
    {n \in active : n.on \notin examined /\ \A o \in current : ~SameKey(n, o)}

\* Members whose files were read, and are as they should be.
Desired(away) == {k \in Keys : k[1] \in Scanned(away) /\ file[k[1]][k[2]] = "ok"}

\* observe, and the rest of the pass, which looks at no directory again: the log, the
\* plan, its execution; what was found deleted is degraded.
Reconcile ==
    \E away \in SUBSET (Vanished \ Configured) :
        LET current == notes \cup MembershipNotes(away)
            examined == Scanned(away) \cup scanned \cup {n.on : n \in current}
            untouched == frozen \cup Deleted(away) \cup Failing
        IN  /\ pc = "observe" /\ pc' = "idle"
            /\ active' = current \cup Kept(current, examined)
            /\ records' = {k \in records : k[1] \in untouched} \cup Desired(away)
            /\ degraded' = degraded \cup {n.on : n \in {o \in current : o.why = "deleted"}}
            /\ found' = {} /\ scanned' = {} /\ notes' = {} /\ frozen' = {}
            /\ standing' = (standing \cup (current \ active)) \cap Lasting
            /\ missing' = {} /\ shut' = {}
            /\ UNCHANGED <<tree, calm, left>>

(***************************************************************************)
(* The system.                                                             *)
(***************************************************************************)

Init ==
    /\ dir \in [Dirs -> {"ok", "gone"}]
    /\ \A p \in Dirs : p \in Configured => dir[p] = "ok"
    /\ \A p \in Dirs : dir[p] = "ok" => Visible(p)
    /\ file = [g \in Groups |-> [m \in Members |-> IF dir[g] = "ok" THEN "ok" ELSE "none"]]
    /\ records = {} /\ degraded = {} /\ active = {}
    /\ pc = "idle" /\ found = {} /\ scanned = {} /\ notes = {} /\ frozen = {}
    /\ calm = FALSE /\ missing = {} /\ shut = {} /\ standing = {}
    /\ left = Budget

Environment ==
    \/ \E p \in Dirs, state \in States : ChangeDir(p, state)
    \/ \E g \in Groups, m \in Members, state \in FileStates : ChangeFile(g, m, state)

Daemon == Discover \/ Reconcile \/ Reload \/ \E p \in Dirs : Degrade(p)

Next == Environment \/ Daemon

Spec == Init /\ [][Next]_vars

(***************************************************************************)
(* What is promised.                                                       *)
(***************************************************************************)

TypeOK ==
    /\ dir \in [Dirs -> States] /\ file \in [Groups -> [Members -> FileStates]]
    /\ records \subseteq Keys /\ degraded \subseteq Dirs /\ active \subseteq Notes
    /\ pc \in {"idle", "observe"}
    /\ found \subseteq Groups /\ scanned \subseteq Sets /\ notes \subseteq Notes
    /\ frozen \subseteq Groups /\ calm \in BOOLEAN /\ missing \subseteq Keys /\ shut \subseteq Dirs
    /\ standing \subseteq Notes /\ left \in 0 .. Budget

\* A mount is removed only if its member was really not there at some time of the pass:
\* the file, its group directory or one above it removed or replaced.  That a directory
\* cannot be opened or read, even half way, never removes a mount.
UnmountedOnlyIfGone ==
    [][\A k \in records \ records' : k \in missing /\ Path(k[1]) \cap shut = {}]_vars

\* A directory that a pass cannot look into: unreadable, given up, or a configured one
\* that is gone.
Hidden(p) ==
    p \in degraded \/ dir[p] \in Unreadable \/ (p \in Configured /\ dir[p] # "ok")

\* A pass nobody interferes with mounts exactly the members that are there, but for
\* groups hidden from it.
CalmPassExact ==
    pc = "idle" /\ calm =>
        \A k \in Keys : (\A p \in Path(k[1]) : ~Hidden(p)) => (k \in records <=> Wanted(k))

\* After such a pass, the notes logged on a readable group or set are those of the
\* problems it has: nothing that is fixed is still open, nothing that is wrong is not.
LogAgrees ==
    pc = "idle" /\ calm =>
        \A p \in Groups \cup Sets :
            Readable(p) /\ Path(p) \cap degraded = {} =>
                {n \in active : n.on = p /\ (n.about \in Dirs => Visible(n.about))}
                  = {n \in Problems : n.on = p}

\* A problem is logged once: while it lasts it stays open, also through passes that
\* cannot see it, degrading and reloads, so that no pass logs it as fixed, or again.
LoggedOnce == standing \subseteq active

=============================================================================
