--------------------------- MODULE MembershipWatch ---------------------------
(***************************************************************************)
(* How byssusd follows membership (src/src/daemon.rs, watcher.rs and       *)
(* runtime.rs): opening directories, watching them with inotify, the event *)
(* loop, and the passes that discover the groups of a set and read their   *)
(* members, while others make, change, move and remove the directories.    *)
(*                                                                         *)
(* A directory is an inode; a path leads to one through the names above    *)
(* it.  There is a statically configured group, a group set with one or    *)
(* two levels, or both.  A watch descriptor is named by its inode: a       *)
(* released watch takes its unread events along, as nothing knows their    *)
(* descriptor any more.                                                    *)
(***************************************************************************)
EXTENDS Naturals, Sequences, SequencesExt, FiniteSets

CONSTANTS
    Dirs,      \* inodes of directories
    Names,     \* names of directories in a group set
    Members,   \* names of membership files
    Tops,      \* the configured directories: "static", "root" or both
    Depth,     \* levels of the group set
    None,      \* no directory
    Resyncs,   \* whether resync_interval is set
    Overflows, \* whether the inotify queue may overflow
    Races,     \* whether others act between opening and watching at startup
    Budget     \* how often others act

ASSUME WatchAssumption ==
    /\ Tops \subseteq {"static", "root"}
    /\ Depth \in 1 .. 2
    /\ None \notin Dirs \cup {"static", "root", "set"} /\ \A ms \in SUBSET Members : ms # None
    /\ {Resyncs, Overflows, Races} \subseteq BOOLEAN
    /\ Budget \in Nat

TopPaths == {<<t>> : t \in Tops}
RootPath == <<"root">>
Levels(n) == IF "root" \in Tops THEN {RootPath \o ns : ns \in [1 .. n -> Names]} ELSE {}
SetGroups == Levels(Depth)
Intermediates == IF Depth = 2 THEN Levels(1) ELSE {}
Groups == SetGroups \cup (TopPaths \ {RootPath})
Paths == TopPaths \cup Intermediates \cup SetGroups

VARIABLES
    top,       \* the inode at each configured path
    child,     \* the inode at each name in a directory
    member,    \* the membership files in each directory
    live,      \* directories that have not been removed
    watched,   \* inodes the daemon's inotify instance watches
    queue,     \* its unread events
    overflow,  \* whether events were dropped since it was last read
    dropped,   \* history: whether events were dropped since the watches were set up
    unseen,    \* history: paths at which a directory came or went without notice
    pc,        \* where the daemon is
    fd,        \* the directories the runtime holds open, by path
    fresh,     \* those a startup or reload has opened so far
    label,     \* Watcher.watches: what the daemon thinks a watch is on
    setWatch,  \* Watcher.set_groups: the watch of each group and intermediate
    degraded,  \* paths the daemon has given up on until a reload
    pending,   \* whether a pass is due
    todo,      \* what a pass has still to read
    inter,     \* intermediate directories the pass found
    frozen,    \* groups the pass leaves alone
    lost,      \* paths the pass found deleted
    found,     \* members the pass read
    view,      \* the members each group has views for
    left       \* how often others may still act

tree == <<top, child, member, live>>
inotify == <<watched, queue, overflow, dropped, unseen>>
runtime == <<fd, fresh>>
watcher == <<label, setWatch>>
pass == <<todo, inter, frozen, lost, found>>
loop == <<degraded, pending, view>>
vars == <<tree, inotify, runtime, watcher, pass, loop, pc, left>>

Below(d, n) == IF d = None THEN None ELSE child[d][n]
Walk(from, p) ==
    CASE Len(p) = 1 -> from
      [] Len(p) = 2 -> Below(from, p[2])
      [] Len(p) = 3 -> Below(Below(from, p[2]), p[3])

\* The directory at a path, and the one there beneath what the daemon has open.
DirAt(p) == Walk(top[Head(p)], p)
Opened(p) == Walk(fd[<<Head(p)>>], p)

Held == {fd[p] : p \in Paths} \cup {fresh[p] : p \in TopPaths}
Unused(d) ==
    /\ d \notin live \cup watched \cup Held
    /\ label[d] = None /\ \A p \in DOMAIN setWatch : setWatch[p] # d
    /\ \A e \in queue : e.wd # d

(***************************************************************************)
(* inotify.                                                                *)
(***************************************************************************)

Change(d) == [wd |-> d, self |-> FALSE]
SelfChange(d) == [wd |-> d, self |-> TRUE]

\* Events are queued, or dropped when the queue is full.
Post(events) ==
    \/ queue' = queue \cup events /\ UNCHANGED <<overflow, dropped>>
    \/ Overflows /\ events # {} /\ overflow' = TRUE /\ dropped' = TRUE /\ UNCHANGED queue

\* What happens to directories is reported for those watched.  A removed one that
\* nobody holds open any more goes, and its watch with it.
Report(events) ==
    LET freed == {d \in watched : d \notin live' /\ d \notin Held'}
    IN  /\ Post({e \in events : e.wd \in watched} \cup {SelfChange(d) : d \in freed})
        /\ watched' = watched \ freed

(***************************************************************************)
(* Others.                                                                 *)
(***************************************************************************)

\* pc is "watch" between opening and watching.
Others ==
    /\ left > 0 /\ left' = left - 1
    /\ pc = "watch" => Races
    /\ UNCHANGED <<runtime, watcher, pass, loop, pc>>

\* What comes or goes in a first-level directory between it being read and watched is
\* not noticed (README, disagreements).
Unnoticed(p) == Len(p) = 3 /\ pc = "level" /\ Front(p) \in inter /\ DirAt(Front(p)) \notin watched

\* A path that is in use, with its parent and its name in it.
ParentDir(p) == IF Len(p) = 1 THEN None ELSE DirAt(Front(p))
Reachable(p) == Len(p) > 1 => ParentDir(p) # None

Place(p, d) ==
    /\ IF Len(p) = 1
       THEN top' = [top EXCEPT ![Head(p)] = d] /\ UNCHANGED child
       ELSE child' = [child EXCEPT ![ParentDir(p)][Last(p)] = d] /\ UNCHANGED top
    /\ unseen' = IF Unnoticed(p) THEN unseen \cup {p} ELSE unseen

ChangeMember(d, m) ==
    /\ Others
    /\ d \in live
    /\ member' = [member EXCEPT ![d] = IF m \in @ THEN @ \ {m} ELSE @ \cup {m}]
    /\ UNCHANGED <<top, child, live, unseen>>
    /\ Report({Change(d)})

MakeDir(p, d) ==
    /\ Others
    /\ Reachable(p) /\ DirAt(p) = None /\ Unused(d)
    /\ Place(p, d)
    /\ live' = live \cup {d}
    /\ UNCHANGED member
    /\ Report({Change(ParentDir(p))})

RemoveDir(p) ==
    /\ Others
    /\ DirAt(p) # None /\ member[DirAt(p)] = {}
    /\ \A n \in Names : child[DirAt(p)][n] = None
    /\ Place(p, None)
    /\ live' = live \ {DirAt(p)}
    /\ UNCHANGED member
    /\ Report({Change(ParentDir(p))})

\* A directory is renamed to somewhere else, or from there.
MoveOut(p) ==
    /\ Others
    /\ DirAt(p) # None
    /\ Place(p, None)
    /\ UNCHANGED <<member, live>>
    /\ Report({Change(ParentDir(p)), SelfChange(DirAt(p))})

MoveIn(p, d) ==
    /\ Others
    /\ Reachable(p) /\ DirAt(p) = None
    /\ d \in live /\ \A q \in Paths : DirAt(q) # d
    /\ \A e \in Dirs, n \in Names : child[e][n] # d
    /\ \A q \in Paths : ParentDir(p) # None => Walk(d, q) # ParentDir(p)
    /\ Place(p, d)
    /\ UNCHANGED <<member, live>>
    /\ Report({Change(ParentDir(p)), SelfChange(d)})

\* The daemon is terminated or crashes; the views stay.
Stop ==
    /\ left > 0 /\ left' = left - 1
    /\ pc # "start"
    /\ pc' = "start"
    /\ fd' = [p \in Paths |-> None] /\ fresh' = [p \in TopPaths |-> None]
    /\ label' = [d \in Dirs |-> None] /\ setWatch' = [p \in DOMAIN setWatch |-> None]
    /\ watched' = {} /\ queue' = {} /\ overflow' = FALSE /\ dropped' = FALSE /\ unseen' = {}
    /\ degraded' = {} /\ pending' = FALSE
    /\ todo' = {} /\ inter' = {} /\ frozen' = {} /\ lost' = {}
    /\ found' = [p \in Groups |-> None]
    /\ UNCHANGED <<tree, view>>

(***************************************************************************)
(* Startup and reload.                                                     *)
(***************************************************************************)

Running == \E p \in TopPaths : fd[p] # None

\* Runtime::open: every configured directory, by its path.
Open ==
    /\ \A t \in Tops : top[t] # None
    /\ fresh' = [p \in TopPaths |-> top[Head(p)]]
    /\ pc' = "watch"
    /\ UNCHANGED <<tree, inotify, fd, watcher, pass, loop>>

Start == pc = "start" /\ Open /\ UNCHANGED left

\* SIGHUP; a configuration that cannot be opened changes nothing.
Reload == pc = "wait" /\ left > 0 /\ Open /\ left' = left - 1

\* Watcher::new, by path, then the new watcher and runtime replace the old ones.
WatchAndSwap ==
    /\ pc = "watch"
    /\ \A t \in Tops : top[t] # None
    /\ fd' = [p \in Paths |-> IF p \in TopPaths THEN fresh[p] ELSE None]
    /\ fresh' = [p \in TopPaths |-> None]
    /\ watched' = {top[t] : t \in Tops}
    /\ label' = [d \in Dirs |-> IF \E t \in Tops : top[t] = d
                                THEN CHOOSE t \in Tops : top[t] = d ELSE None]
    /\ setWatch' = [p \in DOMAIN setWatch |-> None]
    /\ queue' = {} /\ overflow' = FALSE /\ dropped' = FALSE
    /\ unseen' = {p \in TopPaths : top[Head(p)] # fresh[p]}
    /\ degraded' = {} /\ pending' = FALSE
    /\ pc' = "discover"
    /\ UNCHANGED <<tree, pass, view, left>>

\* A path is gone: startup fails, a reload is rejected.
WatchFails ==
    /\ pc = "watch"
    /\ \E t \in Tops : top[t] = None
    /\ fresh' = [p \in TopPaths |-> None]
    /\ pc' = IF Running THEN "wait" ELSE "start"
    /\ UNCHANGED <<tree, fd, unseen, watcher, pass, loop, left>>
    /\ Report({})

(***************************************************************************)
(* The event loop.                                                         *)
(***************************************************************************)

\* Mutant of HandleInotify: the loss of a directory is a change like any other.
HandleInotifyAsChange ==
    LET changes == {e \in queue : label[e.wd] # None}
    IN  /\ pc = "wait"
        /\ queue # {} \/ overflow
        /\ queue' = {} /\ overflow' = FALSE
        /\ pending' = (pending \/ changes # {} \/ overflow)
        /\ UNCHANGED <<tree, watched, dropped, unseen, runtime, watcher, degraded, pass>>
        /\ UNCHANGED <<view, pc, left>>

\* Mutant of HandleInotify: dropped events are forgotten.
HandleInotifyNoOverflow ==
    LET losses == {t \in Tops : \E e \in queue : e.self /\ label[e.wd] = t}
        changes == {e \in queue : label[e.wd] # None /\ ~(e.self /\ label[e.wd] \in Tops)}
    IN  /\ pc = "wait"
        /\ queue # {} \/ overflow
        /\ queue' = {} /\ overflow' = FALSE
        /\ degraded' = degraded \cup {<<t>> : t \in losses}
        /\ pending' = (pending \/ changes # {})
        /\ label' = [d \in Dirs |-> IF label[d] \in losses THEN None ELSE label[d]]
        /\ UNCHANGED <<tree, watched, dropped, unseen, runtime, setWatch, pass, view, pc, left>>

\* drain and handle_inotify.
HandleInotify ==
    LET losses == {t \in Tops : \E e \in queue : e.self /\ label[e.wd] = t}
        changes == {e \in queue : label[e.wd] # None /\ ~(e.self /\ label[e.wd] \in Tops)}
    IN  /\ pc = "wait"
        /\ queue # {} \/ overflow
        /\ queue' = {} /\ overflow' = FALSE
        /\ degraded' = degraded \cup {<<t>> : t \in losses}
        /\ pending' = (pending \/ changes # {} \/ overflow)
        /\ label' = [d \in Dirs |-> IF label[d] \in losses THEN None ELSE label[d]]
        /\ UNCHANGED <<tree, watched, dropped, unseen, runtime, setWatch, pass, view, pc, left>>

\* The quiet period is over.
PassDue ==
    /\ pc = "wait" /\ pending
    /\ pending' = FALSE
    /\ pc' = "discover"
    /\ UNCHANGED <<tree, inotify, runtime, watcher, pass, degraded, view, left>>

ResyncDue ==
    /\ pc = "wait" /\ Resyncs
    /\ pending' = FALSE
    /\ pc' = "discover"
    /\ UNCHANGED <<tree, inotify, runtime, watcher, pass, degraded, view, left>>

(***************************************************************************)
(* A pass.                                                                 *)
(***************************************************************************)

\* Mutant of Discover: a degraded group is scanned like any other.
DiscoverDegraded ==
    LET deleted == "root" \in Tops /\ RootPath \notin degraded /\ fd[RootPath] \notin live
        skipped == RootPath \in degraded \/ deleted
    IN  /\ pc = "discover"
        /\ fd' = [p \in Paths |->
                    IF p \in TopPaths THEN fd[p]
                    ELSE IF skipped \/ Len(p) > 2 THEN None ELSE child[fd[RootPath]][p[2]]]
        /\ todo' = {p \in Intermediates : fd'[p] # None}
        /\ inter' = {}
        /\ frozen' = IF skipped THEN SetGroups ELSE {}
        /\ lost' = IF deleted THEN {RootPath} ELSE {}
        /\ found' = [p \in Groups |-> None]
        /\ pc' = "level"
        /\ unseen' = unseen \cap TopPaths
        /\ UNCHANGED <<tree, fresh, watcher, loop, left>>
        /\ Report({})

\* Runtime::discover reads the set's root, if the set is not degraded; what the
\* last pass had open is closed.
Discover ==
    LET deleted == "root" \in Tops /\ RootPath \notin degraded /\ fd[RootPath] \notin live
        skipped == RootPath \in degraded \/ deleted
    IN  /\ pc = "discover"
        /\ fd' = [p \in Paths |->
                    IF p \in TopPaths THEN fd[p]
                    ELSE IF skipped \/ Len(p) > 2 THEN None ELSE child[fd[RootPath]][p[2]]]
        /\ todo' = {p \in Intermediates : fd'[p] # None}
        /\ inter' = {}
        /\ frozen' = (degraded \cap Groups) \cup (IF skipped THEN SetGroups ELSE {})
        /\ lost' = IF deleted THEN {RootPath} ELSE {}
        /\ found' = [p \in Groups |-> None]
        /\ pc' = "level"
        /\ unseen' = unseen \cap TopPaths
        /\ UNCHANGED <<tree, fresh, watcher, loop, left>>
        /\ Report({})

\* scan_level reads an intermediate directory.
ScanLevel(p) ==
    /\ pc = "level" /\ p \in todo
    /\ fd' = [q \in Paths |-> IF q = p THEN None
                              ELSE IF q \in SetGroups /\ Front(q) = p
                              THEN child[fd[p]][Last(q)] ELSE fd[q]]
    /\ todo' = todo \ {p}
    /\ inter' = inter \cup {p}
    /\ UNCHANGED <<tree, fresh, unseen, watcher, frozen, lost, found, loop, pc, left>>
    /\ Report({})

\* The watches the daemon wants after a discovery: each by its path.
Wanted(p) ==
    IF p \in inter \/ (p \in SetGroups /\ fd[p] # None) THEN DirAt(p) ELSE None

\* Watches whose path leads elsewhere: those released, and those that may be
\* released before another path adds them again.
Moved == {d \in Dirs : \E p \in DOMAIN setWatch : setWatch[p] = d /\ Wanted(p) # d}
Released ==
    {d \in Moved : \/ \A p \in DOMAIN setWatch : Wanted(p) # d
                   \/ \E p \in DOMAIN setWatch :
                        setWatch[p] = d /\ p \notin inter /\ (p \in SetGroups => fd[p] = None)}

\* Mutant of Sync: watches of directories that are gone are kept.
SyncKeepingWatches ==
    /\ pc = "level" /\ todo = {}
    /\ setWatch' = [p \in DOMAIN setWatch |-> Wanted(p)]
    /\ LET wanted == {Wanted(p) : p \in DOMAIN setWatch} \ {None}
       IN  /\ label' = [d \in Dirs |->
                          IF d \in wanted /\ label[d] = None THEN "set" ELSE label[d]]
           /\ watched' = watched \cup wanted
    /\ todo' = {p \in Groups \ frozen : fd[p] # None}
    /\ pc' = "scan"
    /\ UNCHANGED <<tree, runtime, inter, frozen, lost, found, loop, left>>
    /\ UNCHANGED <<queue, overflow, dropped, unseen>>

\* What came or went in a first-level directory after it was read, where the watch is
\* released and added again: the unread events go with the old one.
Forgotten(removed) ==
    {p \in SetGroups : /\ Front(p) \in inter /\ DirAt(Front(p)) \in removed
                       /\ fd[p] # DirAt(p)}

\* Watcher::sync, between discovery and the reading of members.
Sync ==
    /\ pc = "level" /\ todo = {}
    /\ setWatch' = [p \in DOMAIN setWatch |-> Wanted(p)]
    /\ \E R \in SUBSET Moved :
         LET wanted == {Wanted(p) : p \in DOMAIN setWatch} \ {None}
             removed == {d \in R : label[d] = "set"}
         IN  /\ Released \subseteq R
             /\ label' = [d \in Dirs |->
                            IF d \in (removed \ wanted) THEN None
                            ELSE IF d \in wanted /\ label[d] = None THEN "set" ELSE label[d]]
             /\ watched' = (watched \ removed) \cup wanted
             /\ queue' = {e \in queue : e.wd \notin removed}
             /\ unseen' = unseen \cup Forgotten(removed)
    /\ todo' = {p \in Groups \ frozen : fd[p] # None}
    /\ pc' = "scan"
    /\ UNCHANGED <<tree, runtime, inter, frozen, lost, found, loop, left>>
    /\ UNCHANGED <<overflow, dropped>>

\* observe reads one group's members, unless its directory has been deleted.
Scan(p) ==
    /\ pc = "scan" /\ p \in todo
    /\ todo' = todo \ {p}
    /\ IF fd[p] \in live
       THEN found' = [found EXCEPT ![p] = member[fd[p]]] /\ UNCHANGED <<frozen, lost>>
       ELSE frozen' = frozen \cup {p} /\ lost' = lost \cup {p} /\ UNCHANGED found
    /\ UNCHANGED <<tree, inotify, runtime, watcher, inter, loop, pc, left>>

\* Mutant of Finish: a group that was not found keeps its views.
FinishKeeping ==
    /\ pc = "scan" /\ todo = {}
    /\ view' = [p \in Groups |-> IF found[p] = None THEN view[p] ELSE found[p]]
    /\ degraded' = degraded \cup lost
    /\ pc' = "wait"
    /\ UNCHANGED <<tree, inotify, runtime, watcher, pass, pending, left>>

\* The rest of the pass: views follow what was read, frozen groups keep theirs,
\* groups that were not found lose them, and what was found deleted is degraded.
Finish ==
    /\ pc = "scan" /\ todo = {}
    /\ view' = [p \in Groups |-> IF p \in frozen THEN view[p]
                                 ELSE IF found[p] = None THEN {} ELSE found[p]]
    /\ degraded' = degraded \cup lost
    /\ pc' = "wait"
    /\ UNCHANGED <<tree, inotify, runtime, watcher, pass, pending, left>>

(***************************************************************************)
(* The system.                                                             *)
(***************************************************************************)

Init ==
    /\ \E f \in [Tops -> Dirs] :
         /\ \A s, t \in Tops : f[s] = f[t] => s = t
         /\ top = f /\ live = {f[t] : t \in Tops}
    /\ child = [d \in Dirs |-> [n \in Names |-> None]]
    /\ member = [d \in Dirs |-> {}]
    /\ watched = {} /\ queue = {} /\ overflow = FALSE /\ dropped = FALSE /\ unseen = {}
    /\ pc = "start"
    /\ fd = [p \in Paths |-> None] /\ fresh = [p \in TopPaths |-> None]
    /\ label = [d \in Dirs |-> None]
    /\ setWatch = [p \in Intermediates \cup SetGroups |-> None]
    /\ degraded = {} /\ pending = FALSE
    /\ todo = {} /\ inter = {} /\ frozen = {} /\ lost = {}
    /\ found = [p \in Groups |-> None]
    /\ view = [p \in Groups |-> {}]
    /\ left = Budget

Environment ==
    \/ \E d \in Dirs, m \in Members : ChangeMember(d, m)
    \/ \E p \in Paths : \/ RemoveDir(p) \/ MoveOut(p)
                        \/ \E d \in Dirs : MakeDir(p, d) \/ MoveIn(p, d)
    \/ Stop
    \/ Reload

Daemon ==
    \/ Start \/ WatchAndSwap \/ WatchFails
    \/ HandleInotify \/ PassDue \/ ResyncDue
    \/ Discover \/ Sync \/ Finish
    \/ \E p \in Paths : ScanLevel(p) \/ Scan(p)

Next == Environment \/ Daemon

Spec == Init /\ [][Next]_vars

(***************************************************************************)
(* What following membership means.                                        *)
(***************************************************************************)

\* The variables range over what they should.
TypeOK ==
    /\ top \in [Tops -> Dirs \cup {None}]
    /\ child \in [Dirs -> [Names -> Dirs \cup {None}]]
    /\ member \in [Dirs -> SUBSET Members]
    /\ live \subseteq Dirs /\ watched \subseteq Dirs
    /\ queue \subseteq [wd : Dirs, self : BOOLEAN] 
    /\ overflow \in BOOLEAN /\ dropped \in BOOLEAN /\ unseen \subseteq Paths
    /\ pc \in {"start", "watch", "discover", "level", "scan", "wait"}
    /\ fd \in [Paths -> Dirs \cup {None}] /\ fresh \in [TopPaths -> Dirs \cup {None}]
    /\ label \in [Dirs -> {"static", "root", "set", None}]
    /\ setWatch \in [Intermediates \cup SetGroups -> Dirs \cup {None}]
    /\ degraded \subseteq Groups \cup TopPaths /\ pending \in BOOLEAN
    /\ todo \subseteq Paths /\ inter \subseteq Intermediates
    /\ frozen \subseteq Groups /\ lost \subseteq Groups \cup TopPaths
    /\ found \in [Groups -> (SUBSET Members) \cup {None}]
    /\ view \in [Groups -> SUBSET Members]
    /\ left \in 0 .. Budget

\* The daemon has nothing to do until something happens.
Quiet == pc = "wait" /\ ~pending /\ queue = {} /\ ~overflow

GivenUp(p) == p \in degraded \/ <<Head(p)>> \in degraded

\* The members a group has now, in the directories the daemon has open.
MembersOf(p) == IF Opened(p) = None THEN {} ELSE member[Opened(p)]

\* What the daemon has no notice of: what happens beneath a root that was moved while
\* events were dropped, what is in unseen, and what happens in a directory of a set that
\* shares a watch with a configured directory that has been given up (the one that was
\* opened, or the one that had taken its place before it was watched).
Unwatched(p) ==
    \/ {p, <<Head(p)>>} \cap unseen # {}
    \/ dropped /\ p \in SetGroups /\ top["root"] # fd[RootPath]
    \/ /\ p \in SetGroups
       /\ \E t \in Tops, d \in {Opened(p), Opened(Front(p))} :
            /\ <<t>> \in degraded
            /\ d = fd[<<t>>] \/ (<<t>> \in unseen /\ d \in watched /\ label[d] = None)

\* When the daemon has nothing to do, every group that is not degraded has the views
\* its membership asks for: no file or group directory made, changed, moved or
\* removed at any point of a pass goes unnoticed (reconcile/mod.rs, "no change is
\* missed").
NoChangeMissed ==
    Quiet => \A p \in Groups : GivenUp(p) \/ Unwatched(p) \/ view[p] = MembersOf(p)

\* A configured directory that has been moved away is degraded by the time the
\* daemon has nothing to do, so that what takes its place changes nothing.  The only
\* notice is IN_MOVE_SELF, so nothing is promised when events were dropped, nor for a
\* directory that was replaced before it was watched.
LossNoticed ==
    Quiet /\ ~dropped =>
        \A t \in Tops : top[t] # fd[<<t>>] /\ fd[<<t>>] \in live =>
                       <<t>> \in degraded \cup unseen

\* Between losing its directory and a reload, a group keeps the views it has: losing
\* a directory by accident unmounts nothing.
DegradedKept ==
    [][\A p \in Groups : GivenUp(p) /\ GivenUp(p)' => view'[p] = view[p]]_vars

\* The watches of a set are those of the directories the last discovery found, and others
\* are no more than there are configured directories: the daemon does not collect watches
\* as groups come and go.
WatchesNeeded ==
    LET current == {setWatch[p] : p \in DOMAIN setWatch}
    IN  /\ \A d \in Dirs : label[d] = "set" => d \in current
        /\ Cardinality(watched \ current) <= Cardinality(Tops)

\* A group directory that is deleted takes its group's views along (DESIGN.md,
\* "Group directory deleted": "their mounts are removed").
DeletedGroupGoes ==
    Quiet => \A p \in SetGroups :
                RootPath \notin degraded /\ Opened(p) = None => view[p] = {}

\* Once others leave the directories alone, views agree with membership for good,
\* but for what is degraded and as long as the daemon can start.
Follows ==
    \A p \in Groups : <>[](pc = "start" \/ GivenUp(p) \/ view[p] = MembersOf(p))

=============================================================================
