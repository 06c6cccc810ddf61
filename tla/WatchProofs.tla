------------------------------ MODULE WatchProofs ------------------------------
(***************************************************************************)
(* What holds of MembershipWatch whatever the directories, names, members, *)
(* levels and timers; and TimedWatch implements it: with the timers, the   *)
(* daemon does nothing it might not do when they may fire at any time.  So *)
(* what is checked of MembershipWatch without a clock holds with it.       *)
(*                                                                         *)
(*   WatchTypes            every variable keeps its type                   *)
(*   DegradedKeptHolds     a degraded group keeps its views                *)
(*   WatchesNeededHolds    watches do not accumulate                       *)
(*   LossNoticedHolds      a directory that is lost degrades its group     *)
(*   NoChangeMissedHolds   a daemon at rest is up to date                  *)
(*   PassInTimeHolds       no pass is put off for longer than MAX_DEBOUNCE *)
(*   TimedImplements       TimedWatch implements MembershipWatch           *)
(***************************************************************************)
EXTENDS TimedWatch, FiniteSetTheorems, SequenceTheorems, TLAPS

(***************************************************************************)
(* Paths, and where they lead.                                             *)
(***************************************************************************)

Places == Dirs \cup {None}

LEMMA LevelPaths ==
    \A n \in 1 .. 2 : \A p \in Levels(n) :
        /\ "root" \in Tops /\ p \in Seq(Names \cup {"root"}) /\ Len(p) = n + 1
        /\ p[1] = "root" /\ \A i \in 2 .. n + 1 : p[i] \in Names
<1> SUFFICES ASSUME NEW n \in 1 .. 2, NEW p \in Levels(n)
             PROVE  /\ "root" \in Tops /\ p \in Seq(Names \cup {"root"}) /\ Len(p) = n + 1
                    /\ p[1] = "root" /\ \A i \in 2 .. n + 1 : p[i] \in Names
  OBVIOUS
<1>1. "root" \in Tops
  BY DEF Levels
<1>2. PICK ns \in [1 .. n -> Names] : p = <<"root">> \o ns
  BY DEF Levels, RootPath
<1>3. ns \in Seq(Names) /\ Len(ns) = n
  BY <1>2
<1> QED
  BY <1>1, <1>2, <1>3

LEMMA PathKinds ==
    \A p \in Paths :
        \/ p \in TopPaths /\ \E t \in Tops : p = <<t>>
        \/ p \in Levels(1) /\ p \in Intermediates \cup SetGroups
        \/ p \in Levels(2) /\ p \in SetGroups /\ Depth = 2
  BY WatchAssumption DEF Paths, TopPaths, Intermediates, SetGroups

LEMMA PathShape ==
    \A p \in Paths :
        /\ Len(p) \in 1 .. 3 /\ Head(p) = p[1] /\ Head(p) \in Tops
        /\ \A i \in 2 .. Len(p) : p[i] \in Names
        /\ Len(p) > 1 => p \notin TopPaths /\ "root" \in Tops /\ Head(p) = "root"
        /\ Len(p) = 1 => p \in TopPaths
<1> SUFFICES ASSUME NEW p \in Paths
             PROVE  /\ Len(p) \in 1 .. 3 /\ Head(p) = p[1] /\ Head(p) \in Tops
                    /\ \A i \in 2 .. Len(p) : p[i] \in Names
                    /\ Len(p) > 1 => p \notin TopPaths /\ "root" \in Tops /\ Head(p) = "root"
                    /\ Len(p) = 1 => p \in TopPaths
  OBVIOUS
<1>1. ASSUME p \in TopPaths PROVE Len(p) = 1 /\ Head(p) = p[1] /\ Head(p) \in Tops
  <2>1. PICK t \in Tops : p = <<t>>
    BY <1>1 DEF TopPaths
  <2> QED
    BY <2>1
<1>2. ASSUME NEW n \in 1 .. 2, p \in Levels(n) PROVE
        /\ Len(p) = n + 1 /\ Head(p) = p[1] /\ Head(p) = "root" /\ "root" \in Tops
        /\ \A i \in 2 .. Len(p) : p[i] \in Names
  <2>1. p \in Seq(Names \cup {"root"}) /\ Len(p) = n + 1 /\ p[1] = "root" /\ "root" \in Tops
    BY <1>2, LevelPaths
  <2>2. \A i \in 2 .. n + 1 : p[i] \in Names
    BY <1>2, LevelPaths
  <2> QED
    BY <2>1, <2>2
<1>3. CASE p \in TopPaths
  <2>1. Len(p) = 1 /\ Head(p) = p[1] /\ Head(p) \in Tops
    BY <1>1, <1>3
  <2> HIDE <1>1, <1>2
  <2> QED
    BY <2>1, <1>3
<1>4. CASE p \notin TopPaths
  <2>1. PICK n \in 1 .. 2 : p \in Levels(n)
    BY <1>4, PathKinds
  <2>2. /\ Len(p) = n + 1 /\ Head(p) = p[1] /\ Head(p) = "root" /\ "root" \in Tops
        /\ \A i \in 2 .. Len(p) : p[i] \in Names
    BY <1>2, <2>1
  <2> QED
    BY <1>4, <2>2
<1> QED
  BY <1>3, <1>4

LEMMA FrontPaths ==
    \A p \in Paths : Len(p) > 1 =>
        /\ Len(Front(p)) = Len(p) - 1 /\ Head(Front(p)) = Head(p)
        /\ \A i \in 2 .. Len(p) - 1 : Front(p)[i] = p[i]
        /\ Last(p) \in Names
<1> SUFFICES ASSUME NEW p \in Paths, Len(p) > 1
             PROVE  /\ Len(Front(p)) = Len(p) - 1 /\ Head(Front(p)) = Head(p)
                    /\ \A i \in 2 .. Len(p) - 1 : Front(p)[i] = p[i]
                    /\ Last(p) \in Names
  OBVIOUS
<1>1. PICK n \in 1 .. 2 : p \in Levels(n)
  BY PathKinds, PathShape
<1>2. /\ p \in Seq(Names \cup {"root"}) /\ Len(p) = n + 1 /\ p[1] = "root"
      /\ \A i \in 2 .. n + 1 : p[i] \in Names
  BY <1>1, LevelPaths
<1>3. Front(p) = SubSeq(p, 1, n)
  BY <1>2 DEF Front
<1> QED
  BY <1>2, <1>3 DEF Last

LEMMA BelowType ==
    ASSUME child \in [Dirs -> [Names -> Places]], NEW d \in Places, NEW n \in Names
    PROVE  Below(d, n) \in Places
  BY DEF Below, Places

\* Wherever a path leads, it is to a directory or to nothing.
LEMMA WalkType ==
    ASSUME child \in [Dirs -> [Names -> Places]], NEW d \in Places, NEW p,
           Len(p) \in 1 .. 3, \A i \in 2 .. Len(p) : p[i] \in Names
    PROVE  Walk(d, p) \in Places
<1>1. CASE Len(p) = 1
  BY <1>1 DEF Walk
<1>2. CASE Len(p) = 2
  BY <1>2, BelowType DEF Walk
<1>3. CASE Len(p) = 3
  <2>1. p[2] \in Names /\ p[3] \in Names
    BY <1>3
  <2>2. Below(d, p[2]) \in Places
    BY <2>1, BelowType
  <2>3. Below(Below(d, p[2]), p[3]) \in Places
    BY <2>1, <2>2, BelowType
  <2> QED
    BY <1>3, <2>3 DEF Walk
<1> QED
  BY <1>1, <1>2, <1>3

LEMMA DirAtType == ASSUME TypeOK, NEW p \in Paths PROVE DirAt(p) \in Places
<1>1. top[Head(p)] \in Places /\ child \in [Dirs -> [Names -> Places]]
  BY PathShape DEF TypeOK, Places
<1> QED
  BY <1>1, WalkType, PathShape DEF DirAt

LEMMA ParentDirType == ASSUME TypeOK, NEW p \in Paths PROVE ParentDir(p) \in Places
<1>1. CASE Len(p) = 1
  BY <1>1 DEF ParentDir, Places
<1>2. CASE Len(p) # 1
  <2>0. Len(p) \in 2 .. 3 /\ \A i \in 2 .. Len(p) : p[i] \in Names
    BY <1>2, PathShape
  <2>a. /\ Len(Front(p)) = Len(p) - 1 /\ Head(Front(p)) = Head(p)
        /\ \A i \in 2 .. Len(p) - 1 : Front(p)[i] = p[i]
    BY <2>0, FrontPaths
  <2>1. /\ Len(Front(p)) \in 1 .. 3 /\ Head(Front(p)) = Head(p)
        /\ \A i \in 2 .. Len(Front(p)) : Front(p)[i] \in Names
    BY <2>0, <2>a
  <2>2. top[Head(p)] \in Places /\ child \in [Dirs -> [Names -> Places]]
    BY PathShape DEF TypeOK, Places
  <2>3. DirAt(Front(p)) \in Places
    BY <2>1, <2>2, WalkType DEF DirAt
  <2> QED
    BY <1>2, <2>3 DEF ParentDir
<1> QED
  BY <1>1, <1>2

LEMMA PlaceType ==
    ASSUME TypeOK, NEW p \in Paths, NEW d \in Places, Place(p, d), Reachable(p)
    PROVE  /\ top' \in [Tops -> Dirs \cup {None}]
           /\ child' \in [Dirs -> [Names -> Dirs \cup {None}]]
           /\ unseen' \subseteq Paths
<1>1. CASE Len(p) = 1
  BY <1>1, PathShape DEF Place, TypeOK, Places
<1>2. CASE Len(p) # 1
  <2>0. Len(p) \in 1 .. 3
    BY PathShape
  <2>1. ParentDir(p) \in Dirs
    BY <1>2, <2>0, ParentDirType DEF Reachable, Places
  <2>2. Last(p) \in Names
    BY <1>2, <2>0, FrontPaths
  <2>3. /\ child' = [child EXCEPT ![ParentDir(p)][Last(p)] = d] /\ top' = top
        /\ unseen' \subseteq unseen \cup {p}
    BY <1>2 DEF Place
  <2>4. /\ top \in [Tops -> Places] /\ child \in [Dirs -> [Names -> Places]]
        /\ unseen \subseteq Paths
    BY DEF TypeOK, Places
  <2> QED
    BY <2>1, <2>2, <2>3, <2>4 DEF Places
<1> QED
  BY <1>1, <1>2

LEMMA ReportType ==
    ASSUME TypeOK, NEW events, Report(events),
           \A e \in events : \E d, s : e = [wd |-> d, self |-> s] /\ s \in BOOLEAN
    PROVE  /\ watched' \subseteq Dirs /\ queue' \subseteq [wd : Dirs, self : BOOLEAN]
           /\ overflow' \in BOOLEAN /\ dropped' \in BOOLEAN
<1> DEFINE freed == {d \in watched : d \notin live' /\ d \notin Held'}
           posted == {e \in events : e.wd \in watched} \cup {SelfChange(d) : d \in freed}
<1>1. Post(posted) /\ watched' = watched \ freed
  BY DEF Report
<1>2. \A e \in posted : e \in [wd : Dirs, self : BOOLEAN]
  <2>1. watched \subseteq Dirs
    BY DEF TypeOK
  <2>2. \A e \in events : e.wd \in watched => e \in [wd : Dirs, self : BOOLEAN]
    BY <2>1
  <2>3. \A d \in freed : SelfChange(d) \in [wd : Dirs, self : BOOLEAN]
    BY <2>1 DEF SelfChange
  <2> QED
    BY <2>2, <2>3
<1> HIDE DEF posted
<1> QED
  BY <1>1, <1>2 DEF Post, TypeOK

(***************************************************************************)
(* Types, with what is open when: the daemon holds all the configured      *)
(* directories or none, and a pass reads what it has opened.               *)
(***************************************************************************)

Opens ==
    /\ \/ \A p \in TopPaths : fd[p] = None
       \/ \A p \in TopPaths : fd[p] \in Dirs
    /\ pc \in {"discover", "level", "scan", "wait"} => \A p \in TopPaths : fd[p] \in Dirs
    /\ pc = "watch" => \A p \in TopPaths : fresh[p] \in Dirs
    /\ pc = "level" => todo \subseteq Intermediates /\ \A p \in todo : fd[p] \in Dirs
    /\ pc = "scan" => todo \subseteq Groups

TypeInv == TypeOK /\ Opens

LEMMA EnvironmentType ==
    ASSUME TypeInv, Others,
           top' \in [Tops -> Dirs \cup {None}],
           child' \in [Dirs -> [Names -> Dirs \cup {None}]],
           member' \in [Dirs -> SUBSET Members],
           live' \subseteq Dirs, watched' \subseteq Dirs,
           queue' \subseteq [wd : Dirs, self : BOOLEAN],
           overflow' \in BOOLEAN, dropped' \in BOOLEAN, unseen' \subseteq Paths
    PROVE  TypeInv'
<1>1. left' \in 0 .. Budget
  BY WatchAssumption DEF TypeInv, TypeOK, Others
<1>2. UNCHANGED <<fd, fresh, label, setWatch, degraded, pending, view, todo, inter>>
      /\ UNCHANGED <<frozen, lost, found, pc>>
  BY DEF Others, runtime, watcher, pass, loop
<1>3. Opens'
  BY <1>2 DEF TypeInv, Opens
<1>4. TypeOK'
  BY <1>1, <1>2 DEF TypeInv, TypeOK
<1> QED
  BY <1>3, <1>4 DEF TypeInv

LEMMA ChangeMemberType ==
    ASSUME TypeInv, NEW d \in Dirs, NEW m \in Members, ChangeMember(d, m)
    PROVE  TypeInv'
<1>1. /\ watched' \subseteq Dirs /\ queue' \subseteq [wd : Dirs, self : BOOLEAN]
      /\ overflow' \in BOOLEAN /\ dropped' \in BOOLEAN
  BY ReportType DEF ChangeMember, Change, TypeInv
<1>2. /\ top' = top /\ child' = child /\ live' = live /\ unseen' = unseen
      /\ member' \in [Dirs -> SUBSET Members]
  BY DEF ChangeMember, TypeInv, TypeOK
<1> QED
  BY <1>1, <1>2, EnvironmentType DEF ChangeMember, TypeInv, TypeOK

LEMMA MakeDirType ==
    ASSUME TypeInv, NEW p \in Paths, NEW d \in Dirs, MakeDir(p, d)
    PROVE  TypeInv'
<1>1. /\ watched' \subseteq Dirs /\ queue' \subseteq [wd : Dirs, self : BOOLEAN]
      /\ overflow' \in BOOLEAN /\ dropped' \in BOOLEAN
  BY ReportType DEF MakeDir, Change, TypeInv
<1>2. /\ top' \in [Tops -> Dirs \cup {None}] /\ unseen' \subseteq Paths
      /\ child' \in [Dirs -> [Names -> Dirs \cup {None}]]
  BY PlaceType DEF MakeDir, TypeInv, Places
<1>3. member' \in [Dirs -> SUBSET Members] /\ live' \subseteq Dirs
  BY DEF MakeDir, TypeInv, TypeOK
<1> QED
  BY <1>1, <1>2, <1>3, EnvironmentType DEF MakeDir

\* A path that leads to a directory has its parent.
LEMMA PresentReachable ==
    ASSUME TypeOK, NEW p \in Paths, DirAt(p) # None
    PROVE  Reachable(p)
<1>1. CASE Len(p) = 1
  BY <1>1 DEF Reachable
<1>2. CASE Len(p) = 2
  <2>0. Len(p) > 1
    BY <1>2
  <2>a. Len(Front(p)) = Len(p) - 1 /\ Head(Front(p)) = Head(p)
    BY <2>0, FrontPaths
  <2>1. Len(Front(p)) = 1 /\ Head(Front(p)) = Head(p)
    BY <1>2, <2>a
  <2>2. DirAt(p) = Below(top[Head(p)], p[2]) /\ DirAt(Front(p)) = top[Head(p)]
    BY <1>2, <2>1 DEF DirAt, Walk
  <2> QED
    BY <1>2, <2>2 DEF Reachable, ParentDir, Below
<1>3. CASE Len(p) = 3
  <2>0. Len(p) > 1
    BY <1>3
  <2>a. /\ Len(Front(p)) = Len(p) - 1 /\ Head(Front(p)) = Head(p)
        /\ \A i \in 2 .. Len(p) - 1 : Front(p)[i] = p[i]
    BY <2>0, FrontPaths
  <2>1. Len(Front(p)) = 2 /\ Head(Front(p)) = Head(p) /\ Front(p)[2] = p[2]
    BY <1>3, <2>a
  <2>2. /\ DirAt(p) = Below(Below(top[Head(p)], p[2]), p[3])
        /\ DirAt(Front(p)) = Below(top[Head(p)], p[2])
    BY <1>3, <2>1 DEF DirAt, Walk
  <2> QED
    BY <1>3, <2>2 DEF Reachable, ParentDir, Below
<1> QED
  BY <1>1, <1>2, <1>3, PathShape

LEMMA RemoveDirType ==
    ASSUME TypeInv, NEW p \in Paths, RemoveDir(p) \/ MoveOut(p)
    PROVE  TypeInv'
<1>0. Others /\ Place(p, None) /\ Reachable(p) /\ member' = member
  BY PresentReachable DEF RemoveDir, MoveOut, TypeInv
<1>1. /\ watched' \subseteq Dirs /\ queue' \subseteq [wd : Dirs, self : BOOLEAN]
      /\ overflow' \in BOOLEAN /\ dropped' \in BOOLEAN
  <2>1. CASE Report({Change(ParentDir(p))})
    BY <2>1, ReportType DEF Change, TypeInv
  <2>2. CASE Report({Change(ParentDir(p)), SelfChange(DirAt(p))})
    BY <2>2, ReportType DEF Change, SelfChange, TypeInv
  <2> QED
    BY <2>1, <2>2 DEF RemoveDir, MoveOut
<1>2. /\ top' \in [Tops -> Dirs \cup {None}] /\ unseen' \subseteq Paths
      /\ child' \in [Dirs -> [Names -> Dirs \cup {None}]]
  BY <1>0, PlaceType DEF TypeInv, Places
<1>3. member' \in [Dirs -> SUBSET Members] /\ live' \subseteq Dirs
  BY <1>0 DEF RemoveDir, MoveOut, TypeInv, TypeOK
<1> QED
  BY <1>0, <1>1, <1>2, <1>3, EnvironmentType

LEMMA MoveInType ==
    ASSUME TypeInv, NEW p \in Paths, NEW d \in Dirs, MoveIn(p, d)
    PROVE  TypeInv'
<1>0. Others /\ Place(p, d) /\ Reachable(p) /\ member' = member /\ live' = live
  BY DEF MoveIn
<1>1. /\ watched' \subseteq Dirs /\ queue' \subseteq [wd : Dirs, self : BOOLEAN]
      /\ overflow' \in BOOLEAN /\ dropped' \in BOOLEAN
  BY ReportType DEF MoveIn, Change, SelfChange, TypeInv
<1>2. /\ top' \in [Tops -> Dirs \cup {None}] /\ unseen' \subseteq Paths
      /\ child' \in [Dirs -> [Names -> Dirs \cup {None}]]
  BY <1>0, PlaceType DEF TypeInv, Places
<1> QED
  BY <1>0, <1>1, <1>2, EnvironmentType DEF TypeInv, TypeOK

LEMMA StopType == ASSUME TypeInv, Stop PROVE TypeInv'
<1>1. left' \in 0 .. Budget
  BY WatchAssumption DEF TypeInv, TypeOK, Stop
<1>2. TypeOK'
  BY <1>1 DEF TypeInv, TypeOK, Stop, tree
<1>3. Opens'
  BY DEF Stop, Opens, Paths
<1> QED
  BY <1>2, <1>3 DEF TypeInv

LEMMA OpenType == ASSUME TypeInv, Start \/ Reload PROVE TypeInv'
<1>1. left' \in 0 .. Budget
  BY WatchAssumption DEF TypeInv, TypeOK, Start, Reload
<1>2. /\ \A t \in Tops : top[t] # None
      /\ fresh' = [p \in TopPaths |-> top[Head(p)]]
      /\ pc' = "watch"
      /\ UNCHANGED <<tree, inotify, fd, watcher, pass, loop>>
  BY DEF Start, Reload, Open
<1>3. \A p \in TopPaths : Head(p) \in Tops
  BY DEF TopPaths
<1>4. fresh' \in [TopPaths -> Dirs]
  BY <1>2, <1>3 DEF TypeInv, TypeOK
<1>5. TypeOK'
  BY <1>1, <1>2, <1>4 DEF TypeInv, TypeOK, tree, inotify, watcher, pass, loop
<1>6. Opens'
  BY <1>2, <1>4 DEF TypeInv, Opens
<1> QED
  BY <1>5, <1>6 DEF TypeInv

LEMMA WatchAndSwapType == ASSUME TypeInv, WatchAndSwap PROVE TypeInv'
<1>1. \A t \in Tops : top[t] \in Dirs
  BY DEF TypeInv, TypeOK, WatchAndSwap
<1>2. /\ fd' \in [Paths -> Dirs \cup {None}] /\ \A p \in TopPaths : fd'[p] \in Dirs
      /\ fresh' \in [TopPaths -> Dirs \cup {None}]
  BY DEF TypeInv, TypeOK, Opens, WatchAndSwap, Paths
<1>3. label' \in [Dirs -> {"static", "root", "set", None}]
  BY WatchAssumption DEF WatchAndSwap
<1>4. watched' \subseteq Dirs /\ unseen' \subseteq Paths
  BY <1>1 DEF WatchAndSwap, Paths
<1>5. setWatch' \in [Intermediates \cup SetGroups -> Dirs \cup {None}]
  BY DEF WatchAndSwap, TypeInv, TypeOK
<1>6. TypeOK'
  BY <1>2, <1>3, <1>4, <1>5 DEF TypeInv, TypeOK, WatchAndSwap, tree, pass
<1>7. Opens'
  BY <1>2 DEF Opens, WatchAndSwap
<1> QED
  BY <1>6, <1>7 DEF TypeInv

LEMMA WatchFailsType == ASSUME TypeInv, WatchFails PROVE TypeInv'
<1>1. /\ watched' \subseteq Dirs /\ queue' \subseteq [wd : Dirs, self : BOOLEAN]
      /\ overflow' \in BOOLEAN /\ dropped' \in BOOLEAN
  BY ReportType DEF WatchFails, TypeInv
<1>2. TypeOK'
  BY <1>1 DEF TypeInv, TypeOK, WatchFails, tree, watcher, pass, loop
<1>3. Opens'
  BY DEF TypeInv, TypeOK, Opens, WatchFails, Running
<1> QED
  BY <1>2, <1>3 DEF TypeInv

LEMMA LoopType == ASSUME TypeInv, HandleInotify \/ PassDue \/ ResyncDue PROVE TypeInv'
<1>1. CASE HandleInotify
  <2>1. TypeOK'
    BY <1>1 DEF TypeInv, TypeOK, HandleInotify, tree, runtime, pass, TopPaths
  <2>2. Opens'
    BY <1>1 DEF TypeInv, Opens, HandleInotify, runtime, pass
  <2> QED
    BY <2>1, <2>2 DEF TypeInv
<1>2. CASE PassDue \/ ResyncDue
  <2>1. /\ pc = "wait" /\ pc' = "discover" /\ pending' = FALSE
        /\ UNCHANGED <<tree, inotify, runtime, watcher, pass, degraded, view, left>>
    BY <1>2 DEF PassDue, ResyncDue
  <2>2. TypeOK'
    BY <2>1 DEF TypeInv, TypeOK, tree, inotify, runtime, watcher, pass
  <2>3. Opens'
    BY <2>1 DEF TypeInv, Opens, runtime, pass
  <2> QED
    BY <2>2, <2>3 DEF TypeInv
<1> QED
  BY <1>1, <1>2

LEMMA DiscoverType == ASSUME TypeInv, Discover PROVE TypeInv'
<1> DEFINE deleted == "root" \in Tops /\ RootPath \notin degraded /\ fd[RootPath] \notin live
           skipped == RootPath \in degraded \/ deleted
<1>0. pc = "discover" /\ \A p \in TopPaths : fd[p] \in Dirs
  BY DEF Discover, TypeInv, Opens
<1>1. fd' = [p \in Paths |->
               IF p \in TopPaths THEN fd[p]
               ELSE IF skipped \/ Len(p) > 2 THEN None ELSE child[fd[RootPath]][p[2]]]
  BY DEF Discover
<1>2. fd' \in [Paths -> Dirs \cup {None}] /\ \A p \in TopPaths : fd'[p] \in Dirs
  <2>1. ASSUME NEW p \in Paths \ TopPaths PROVE
          child[fd[RootPath]][p[2]] \in Dirs \cup {None} \/ Len(p) > 2
    <3>1. Len(p) \in 2 .. 3 /\ "root" \in Tops /\ \A i \in 2 .. Len(p) : p[i] \in Names
      BY <2>1, PathShape
    <3>2. RootPath \in TopPaths
      BY <3>1 DEF TopPaths, RootPath
    <3>3. p[2] \in Names
      BY <3>1
    <3> QED
      BY <1>0, <3>2, <3>3 DEF TypeInv, TypeOK
  <2>2. \A p \in TopPaths : p \in Paths
    BY DEF Paths
  <2> HIDE DEF skipped
  <2> QED
    BY <1>0, <1>1, <2>1, <2>2 DEF TypeInv, TypeOK
<1>3. /\ watched' \subseteq Dirs /\ queue' \subseteq [wd : Dirs, self : BOOLEAN]
      /\ overflow' \in BOOLEAN /\ dropped' \in BOOLEAN
  BY ReportType DEF Discover, TypeInv
<1>4. /\ todo' = {p \in Intermediates : fd'[p] # None} /\ inter' = {}
      /\ pc' = "level" /\ found' = [p \in Groups |-> None]
      /\ unseen' = unseen \cap TopPaths
      /\ UNCHANGED <<tree, fresh, watcher, loop, left>>
  BY DEF Discover
<1>5. frozen' \subseteq Groups /\ lost' \subseteq Groups \cup TopPaths
  BY DEF Discover, Groups, TopPaths, RootPath
<1>6. todo' \subseteq Intermediates /\ \A p \in todo' : fd'[p] \in Dirs
  BY <1>2, <1>4 DEF Paths
<1>7. TypeOK'
  BY <1>2, <1>3, <1>4, <1>5, <1>6 DEF TypeInv, TypeOK, tree, watcher, loop, Paths
<1>8. Opens'
  BY <1>2, <1>4, <1>6 DEF Opens
<1> QED
  BY <1>7, <1>8 DEF TypeInv

LEMMA ScanLevelType == ASSUME TypeInv, NEW p \in Paths, ScanLevel(p) PROVE TypeInv'
<1>0. pc = "level" /\ p \in todo /\ p \in Intermediates /\ fd[p] \in Dirs
  BY DEF ScanLevel, TypeInv, Opens
<1>1. fd' = [q \in Paths |-> IF q = p THEN None
                            ELSE IF q \in SetGroups /\ Front(q) = p
                            THEN child[fd[p]][Last(q)] ELSE fd[q]]
  BY DEF ScanLevel
<1>2. Depth = 2 /\ p \in Levels(1)
  BY <1>0 DEF Intermediates
<1>3. \A q \in SetGroups : q \in Paths /\ Len(q) = 3 /\ Last(q) \in Names
  <2>1. \A q \in SetGroups : q \in Paths /\ Len(q) = 3
    BY <1>2, LevelPaths DEF SetGroups, Paths
  <2> QED
    BY <2>1, FrontPaths
<1>4. \A q \in Intermediates : q \notin SetGroups /\ q \notin TopPaths /\ q \in Paths
  <2>1. \A q \in Intermediates : Len(q) = 2 /\ q \in Paths
    BY <1>2, LevelPaths DEF Intermediates, Paths
  <2>2. \A q \in TopPaths : Len(q) = 1
    BY DEF TopPaths
  <2> QED
    BY <1>3, <2>1, <2>2
<1>5. \A q \in TopPaths : q \notin SetGroups /\ q \in Paths
  BY <1>3 DEF TopPaths, Paths
<1>6. fd' \in [Paths -> Dirs \cup {None}]
  BY <1>0, <1>1, <1>3 DEF TypeInv, TypeOK
<1>7. \A q \in TopPaths \cup (Intermediates \ {p}) : fd'[q] = fd[q]
  BY <1>0, <1>1, <1>4, <1>5
<1>8. /\ watched' \subseteq Dirs /\ queue' \subseteq [wd : Dirs, self : BOOLEAN]
      /\ overflow' \in BOOLEAN /\ dropped' \in BOOLEAN
  BY ReportType DEF ScanLevel, TypeInv
<1>9. /\ todo' = todo \ {p} /\ inter' = inter \cup {p}
      /\ UNCHANGED <<tree, fresh, unseen, watcher, frozen, lost, found, loop, pc, left>>
  BY DEF ScanLevel
<1>10. TypeOK'
  BY <1>0, <1>6, <1>8, <1>9 DEF TypeInv, TypeOK, tree, watcher, loop
<1>11. Opens'
  BY <1>0, <1>7, <1>9 DEF TypeInv, Opens
<1> QED
  BY <1>10, <1>11 DEF TypeInv

LEMMA SyncType == ASSUME TypeInv, Sync PROVE TypeInv'
<1>1. ASSUME NEW p \in Paths PROVE Wanted(p) \in Dirs \cup {None}
  BY DirAtType DEF Wanted, TypeInv, Places
<1>2. setWatch' \in [Intermediates \cup SetGroups -> Dirs \cup {None}]
  BY <1>1 DEF Sync, TypeInv, TypeOK, Paths
<1>3. {Wanted(p) : p \in DOMAIN setWatch} \ {None} \subseteq Dirs
  BY <1>1 DEF TypeInv, TypeOK, Paths
<1>4. /\ label' \in [Dirs -> {"static", "root", "set", None}]
      /\ watched' \subseteq Dirs /\ queue' \subseteq [wd : Dirs, self : BOOLEAN]
      /\ unseen' \subseteq Paths
  <2> DEFINE wanted == {Wanted(p) : p \in DOMAIN setWatch} \ {None}
  <2>1. PICK R \in SUBSET Moved :
          LET removed == {d \in R : label[d] = "set"}
          IN  /\ label' = [d \in Dirs |->
                             IF d \in (removed \ wanted) THEN None
                             ELSE IF d \in wanted /\ label[d] = None THEN "set" ELSE label[d]]
              /\ watched' = (watched \ removed) \cup wanted
              /\ queue' = {e \in queue : e.wd \notin removed}
              /\ unseen' = unseen \cup Forgotten(removed)
    BY DEF Sync
  <2>2. wanted \subseteq Dirs /\ \A removed : Forgotten(removed) \subseteq Paths
    BY <1>3 DEF Forgotten, Paths
  <2> HIDE DEF wanted
  <2> QED
    BY <2>1, <2>2 DEF TypeInv, TypeOK
<1>5. /\ todo' = {p \in Groups \ frozen : fd[p] # None} /\ pc' = "scan"
      /\ pc = "level"
      /\ UNCHANGED <<tree, runtime, inter, frozen, lost, found, loop, left>>
      /\ UNCHANGED <<overflow, dropped>>
  BY DEF Sync
<1>6. TypeOK'
  BY <1>2, <1>4, <1>5 DEF TypeInv, TypeOK, tree, runtime, loop, Groups, Paths
<1>7. Opens'
  BY <1>5 DEF TypeInv, Opens, runtime
<1> QED
  BY <1>6, <1>7 DEF TypeInv

LEMMA ScanType == ASSUME TypeInv, NEW p \in Paths, Scan(p) PROVE TypeInv'
<1>0. pc = "scan" /\ p \in todo /\ p \in Groups /\ todo' = todo \ {p}
      /\ UNCHANGED <<tree, inotify, runtime, watcher, inter, loop, pc, left>>
  BY DEF Scan, TypeInv, Opens
<1>1. /\ found' \in [Groups -> (SUBSET Members) \cup {None}]
      /\ frozen' \subseteq Groups /\ lost' \subseteq Groups \cup TopPaths
  <2>1. CASE fd[p] \in live
    <3>1. member[fd[p]] \in SUBSET Members
      BY <2>1 DEF TypeInv, TypeOK
    <3>2. found' = [found EXCEPT ![p] = member[fd[p]]] /\ UNCHANGED <<frozen, lost>>
      BY <2>1 DEF Scan
    <3> QED
      BY <3>1, <3>2 DEF TypeInv, TypeOK
  <2>2. CASE fd[p] \notin live
    BY <1>0, <2>2 DEF Scan, TypeInv, TypeOK
  <2> QED
    BY <2>1, <2>2
<1>2. TypeOK'
  BY <1>0, <1>1 DEF TypeInv, TypeOK, tree, inotify, runtime, watcher, loop
<1>3. Opens'
  BY <1>0 DEF TypeInv, Opens, runtime
<1> QED
  BY <1>2, <1>3 DEF TypeInv

LEMMA FinishType == ASSUME TypeInv, Finish PROVE TypeInv'
<1>1. view' \in [Groups -> SUBSET Members]
  BY DEF Finish, TypeInv, TypeOK
<1>2. TypeOK'
  BY <1>1 DEF Finish, TypeInv, TypeOK, tree, inotify, runtime, watcher, pass
<1>3. Opens'
  BY DEF Finish, TypeInv, Opens, runtime, pass
<1> QED
  BY <1>2, <1>3 DEF TypeInv

LEMMA WatchTypesNext == ASSUME TypeInv, Next \/ UNCHANGED vars PROVE TypeInv'
<1>1. CASE Environment
  BY <1>1, ChangeMemberType, MakeDirType, RemoveDirType, MoveInType, StopType, OpenType
     DEF Environment
<1>2. CASE Daemon
  BY <1>2, OpenType, WatchAndSwapType, WatchFailsType, LoopType, DiscoverType,
     ScanLevelType, SyncType, ScanType, FinishType
     DEF Daemon
<1>3. CASE UNCHANGED vars
  BY <1>3 DEF TypeInv, TypeOK, Opens, vars, tree, inotify, runtime, watcher, pass, loop
<1> QED
  BY <1>1, <1>2, <1>3 DEF Next

LEMMA WatchTypesInv == Spec => []TypeInv
<1>1. Init => TypeInv
  <2> SUFFICES ASSUME Init PROVE TypeInv
    OBVIOUS
  <2>1. top \in [Tops -> Dirs \cup {None}] /\ live \subseteq Dirs
    BY DEF Init
  <2>2. left \in 0 .. Budget
    BY WatchAssumption DEF Init
  <2>3. TypeOK
    BY <2>1, <2>2 DEF Init, TypeOK
  <2>4. Opens
    BY DEF Init, Opens, Paths
  <2> QED
    BY <2>3, <2>4 DEF TypeInv
<1>2. TypeInv /\ [Next]_vars => TypeInv'
  BY WatchTypesNext
<1> QED
  BY <1>1, <1>2, PTL DEF Spec

\* The variables range over what they should (MembershipWatch.TypeOK).
THEOREM WatchTypes == Spec => []TypeOK
<1>1. TypeInv => TypeOK
  BY DEF TypeInv
<1> QED
  BY <1>1, WatchTypesInv, PTL

(***************************************************************************)
(* What a pass does about what was given up before it began.               *)
(***************************************************************************)

LEMMA GroupsOfSet == \A p \in SetGroups : Head(p) = "root"
  BY WatchAssumption DEF SetGroups, Levels, RootPath

LEMMA GroupHeads == \A p \in Groups : p \in SetGroups \/ p = <<Head(p)>>
  BY DEF Groups, TopPaths

GivenUpFrozen ==
    pc \in {"level", "scan"} => \A p \in Groups : GivenUp(p) => p \in frozen

LEMMA DiscoverFreezes == ASSUME Discover PROVE GivenUpFrozen'
<1>1. /\ UNCHANGED degraded
      /\ degraded \cap Groups \subseteq frozen'
      /\ RootPath \in degraded => SetGroups \subseteq frozen'
  BY DEF Discover, loop
<1> SUFFICES ASSUME NEW p \in Groups, GivenUp(p) PROVE p \in frozen'
  BY <1>1 DEF GivenUpFrozen, GivenUp
<1>2. CASE p \in degraded
  BY <1>1, <1>2
<1>3. CASE <<Head(p)>> \in degraded
  BY <1>1, <1>3, GroupsOfSet, GroupHeads DEF RootPath
<1> QED
  BY <1>2, <1>3 DEF GivenUp

\* Between losing its directory and a reload, a group keeps the views it has: what is
\* degraded when a pass begins is frozen all through it (discover_and_observe, pass).
THEOREM DegradedKeptHolds == Spec => DegradedKept
<1>1. Init => GivenUpFrozen
  BY DEF Init, GivenUpFrozen
<1>2. GivenUpFrozen /\ [Next]_vars => GivenUpFrozen'
  <2> SUFFICES ASSUME GivenUpFrozen, Next \/ UNCHANGED vars PROVE GivenUpFrozen'
    OBVIOUS
  <2>1. CASE Discover
    BY <2>1, DiscoverFreezes
  <2>2. CASE UNCHANGED <<pc, degraded, frozen>>
    BY <2>2 DEF GivenUpFrozen, GivenUp
  <2>3. ASSUME NEW p \in Paths, Scan(p) PROVE GivenUpFrozen'
    <3>1. UNCHANGED <<pc, degraded>> /\ frozen \subseteq frozen'
      BY <2>3 DEF Scan, loop
    <3> QED
      BY <3>1 DEF GivenUpFrozen, GivenUp
  <2>4. CASE Sync
    <3>1. UNCHANGED <<degraded, frozen>> /\ pc = "level"
      BY <2>4 DEF Sync, loop
    <3> QED
      BY <3>1 DEF GivenUpFrozen, GivenUp
  <2>5. CASE pc' \notin {"level", "scan"}
    BY <2>5 DEF GivenUpFrozen
  <2>6. CASE Environment
    BY <2>2, <2>5, <2>6
    DEF Environment, ChangeMember, MakeDir, RemoveDir, MoveOut, MoveIn, Others, Stop, Reload, Open,
        loop, pass
  <2>7. ASSUME NEW p \in Paths, ScanLevel(p) PROVE GivenUpFrozen'
    BY <2>2, <2>7 DEF ScanLevel, loop
  <2>8. CASE Start \/ WatchAndSwap \/ WatchFails \/ PassDue \/ ResyncDue \/ Finish
    BY <2>5, <2>8 DEF Start, Open, WatchAndSwap, WatchFails, PassDue, ResyncDue, Finish
  <2>9. CASE HandleInotify
    BY <2>5, <2>9 DEF HandleInotify
  <2> QED
    BY <2>1, <2>2, <2>3, <2>4, <2>6, <2>7, <2>8, <2>9 DEF Next, Daemon, vars, pass, loop
<1>3. GivenUpFrozen /\ [Next]_vars =>
        [\A p \in Groups : GivenUp(p) /\ GivenUp(p)' => view'[p] = view[p]]_vars
  <2> SUFFICES ASSUME GivenUpFrozen, Next, NEW p \in Groups, GivenUp(p)
               PROVE  view'[p] = view[p]
    BY DEF vars
  <2>1. CASE Finish
    BY <2>1 DEF Finish, GivenUpFrozen
  <2>2. CASE UNCHANGED view
    BY <2>2
  <2> QED
    BY <2>1, <2>2
    DEF Next, Environment, Daemon, ChangeMember, MakeDir, RemoveDir, MoveOut, MoveIn, Others, Stop,
        Reload, Open, Start, WatchAndSwap, WatchFails, HandleInotify, PassDue, ResyncDue, Discover,
        ScanLevel, Sync, Scan, loop
<1> QED
  BY <1>1, <1>2, <1>3, PTL DEF Spec, DegradedKept

(***************************************************************************)
(* Watches.  Those that are not a set's were made for the configured       *)
(* directories; a watch is a set's as long as a path of the set has it.    *)
(***************************************************************************)

TopWatches == {d \in Dirs : label[d] \in Tops \/ (d \in watched /\ label[d] # "set")}

WatchInv ==
    /\ \A d \in Dirs : label[d] \in Tops \cup {"set", None}
    /\ \A d \in Dirs : label[d] = "set" => \E p \in DOMAIN setWatch : setWatch[p] = d
    /\ IsFiniteSet(TopWatches) /\ Cardinality(TopWatches) <= Cardinality(Tops)

LEMMA TopsFinite == IsFiniteSet(Tops)
<1>1. IsFiniteSet({"static"} \cup {"root"})
  BY FS_Singleton, FS_AddElement
<1>2. Tops \in SUBSET ({"static"} \cup {"root"})
  BY WatchAssumption
<1> QED
  BY <1>1, <1>2, FS_Subset

\* No more watches are the configured directories' than there were.
LEMMA FewerWatches ==
    ASSUME WatchInv, TopWatches' \subseteq TopWatches
    PROVE  IsFiniteSet(TopWatches') /\ Cardinality(TopWatches') <= Cardinality(Tops)
<1>1. IsFiniteSet(TopWatches') /\ Cardinality(TopWatches') <= Cardinality(TopWatches)
  BY FS_Subset DEF WatchInv
<1>2. Cardinality(TopWatches') \in Nat /\ Cardinality(TopWatches) \in Nat /\ Cardinality(Tops) \in Nat
  BY <1>1, TopsFinite, FS_CardinalityType DEF WatchInv
<1> QED
  BY <1>1, <1>2 DEF WatchInv

LEMMA WatchInvLabels ==
    ASSUME WatchInv, UNCHANGED <<label, setWatch>>, watched' \subseteq watched
    PROVE  WatchInv'
<1>1. TopWatches' \subseteq TopWatches
  BY DEF TopWatches
<1> QED
  BY <1>1, FewerWatches DEF WatchInv

LEMMA WatchInvInotify == ASSUME TypeInv, WatchInv, HandleInotify PROVE WatchInv'
<1>1. /\ UNCHANGED <<setWatch, watched>>
      /\ \A d \in Dirs : label'[d] = label[d] \/ (label'[d] = None /\ label[d] \in Tops)
  BY DEF HandleInotify
<1>2. "set" \notin Tops /\ None # "set"
  BY WatchAssumption
<1>3. \A d \in Dirs : label'[d] = "set" => label[d] = "set"
  BY <1>1, <1>2 DEF WatchInv
<1>4. TopWatches' \subseteq TopWatches
  BY <1>1, <1>2 DEF TopWatches
<1> QED
  BY <1>1, <1>3, <1>4, FewerWatches DEF WatchInv

LEMMA WatchInvSwap == ASSUME TypeInv, WatchInv, WatchAndSwap PROVE WatchInv'
<1> DEFINE tops == {top[t] : t \in Tops}
<1>1. /\ watched' = tops /\ \A t \in Tops : top[t] \in Dirs
      /\ label' = [d \in Dirs |-> IF \E t \in Tops : top[t] = d
                                  THEN CHOOSE t \in Tops : top[t] = d ELSE None]
  BY DEF WatchAndSwap, TypeInv, TypeOK
<1>2. "set" \notin Tops /\ None # "set" /\ None \notin Tops
  BY WatchAssumption
<1>3. \A d \in Dirs : /\ d \in tops => label'[d] \in Tops
                      /\ d \notin tops => label'[d] = None
  BY <1>1
<1>4. TopWatches' = tops
  BY <1>1, <1>2, <1>3 DEF TopWatches
<1>5. top \in Surjection(Tops, tops)
  BY DEF Surjection, TypeInv, TypeOK
<1>6. IsFiniteSet(tops) /\ Cardinality(tops) <= Cardinality(Tops)
  BY <1>5, TopsFinite, FS_Surjection
<1>7. \A d \in Dirs : label'[d] # "set" /\ label'[d] \in Tops \cup {"set", None}
  BY <1>2, <1>3
<1> QED
  BY <1>4, <1>6, <1>7 DEF WatchInv

LEMMA WatchInvSync == ASSUME TypeInv, WatchInv, Sync PROVE WatchInv'
<1> DEFINE wanted == {Wanted(p) : p \in DOMAIN setWatch} \ {None}
<1>1. PICK R \in SUBSET Moved :
        LET removed == {d \in R : label[d] = "set"}
        IN  /\ Released \subseteq R
            /\ label' = [d \in Dirs |->
                           IF d \in (removed \ wanted) THEN None
                           ELSE IF d \in wanted /\ label[d] = None THEN "set" ELSE label[d]]
            /\ watched' = (watched \ removed) \cup wanted
  BY DEF Sync
<1> DEFINE removed == {d \in R : label[d] = "set"}
<1>2. setWatch' = [p \in DOMAIN setWatch |-> Wanted(p)]
  BY DEF Sync
<1>3. None # "set" /\ "set" \notin Tops /\ None \notin Tops
  BY WatchAssumption
\* A set's watch that no path wants is removed.
<1>4. ASSUME NEW d \in Dirs, label[d] = "set", d \notin wanted PROVE d \in removed
  <2>1. PICK p \in DOMAIN setWatch : setWatch[p] = d
    BY <1>4 DEF WatchInv
  <2>2. \A q \in DOMAIN setWatch : Wanted(q) # d
    BY <1>4, WatchAssumption
  <2>3. d \in Released
    BY <2>1, <2>2 DEF Moved, Released
  <2> QED
    BY <1>1, <1>4, <2>3
<1>5. ASSUME NEW d \in Dirs, label'[d] = "set" PROVE d \in wanted
  BY <1>1, <1>3, <1>4, <1>5
<1>6. TopWatches' \subseteq TopWatches
  <2> HIDE DEF wanted, removed
  <2> SUFFICES ASSUME NEW d \in TopWatches' PROVE d \in TopWatches
    OBVIOUS
  <2>1. CASE label'[d] \in Tops
    BY <1>1, <1>3, <2>1 DEF TopWatches
  <2>2. CASE d \in watched' /\ label'[d] # "set" /\ label'[d] \notin Tops
    <3>1. d \in Dirs /\ d \notin wanted
      <4>1. d \in wanted => label'[d] = "set" \/ (label'[d] = label[d] /\ label[d] # None)
        BY <1>1 DEF TopWatches
      <4>2. label[d] \in Tops \cup {"set", None}
        BY DEF TopWatches, WatchInv
      <4> QED
        BY <1>3, <2>2, <4>1, <4>2, WatchAssumption DEF TopWatches, TypeInv, TypeOK
    <3> QED
      BY <1>1, <1>3, <1>4, <2>2, <3>1 DEF TopWatches
  <2> QED
    BY <2>1, <2>2 DEF TopWatches
<1>7. \A d \in Dirs : label'[d] = "set" => \E p \in DOMAIN setWatch' : setWatch'[p] = d
  BY <1>2, <1>5
<1>8. \A d \in Dirs : label'[d] \in Tops \cup {"set", None}
  <2> HIDE DEF wanted, removed
  <2> QED
    BY <1>1 DEF WatchInv
<1> QED
  BY <1>6, <1>7, <1>8, FewerWatches DEF WatchInv

LEMMA ReportWatched == ASSUME NEW events, Report(events) PROVE watched' \subseteq watched
  BY DEF Report

LEMMA WatchInvNext == ASSUME TypeInv, WatchInv, Next \/ UNCHANGED vars PROVE WatchInv'
<1>1. CASE UNCHANGED <<label, setWatch>> /\ watched' \subseteq watched
  BY <1>1, WatchInvLabels
<1>2. CASE HandleInotify
  BY <1>2, WatchInvInotify
<1>3. CASE WatchAndSwap
  BY <1>3, WatchInvSwap
<1>4. CASE Sync
  BY <1>4, WatchInvSync
<1>5. CASE Stop
  <2>1. /\ label' = [d \in Dirs |-> None] /\ watched' = {}
    BY <1>5 DEF Stop
  <2>2. None # "set" /\ None \notin Tops
    BY WatchAssumption
  <2>3. TopWatches' \subseteq TopWatches
    BY <2>1, <2>2 DEF TopWatches
  <2> QED
    BY <2>1, <2>2, <2>3, FewerWatches DEF WatchInv
<1>6. CASE Environment /\ ~Stop
  BY <1>1, <1>6, ReportWatched
  DEF Environment, ChangeMember, MakeDir, RemoveDir, MoveOut, MoveIn, Others, Reload, Open,
      watcher, inotify
<1>7. CASE Start \/ WatchFails \/ PassDue \/ ResyncDue \/ Discover \/ Finish
  BY <1>1, <1>7, ReportWatched
  DEF Start, Open, WatchFails, PassDue, ResyncDue, Discover, Finish, watcher, inotify
<1>8. ASSUME NEW p \in Paths, ScanLevel(p) \/ Scan(p) PROVE WatchInv'
  BY <1>1, <1>8, ReportWatched DEF ScanLevel, Scan, watcher, inotify
<1> QED
  BY <1>1, <1>2, <1>3, <1>4, <1>5, <1>6, <1>7, <1>8 DEF Next, Daemon, vars, watcher, inotify

LEMMA WatchInvariant == Spec => []WatchInv
<1>1. Init => WatchInv
  <2> SUFFICES ASSUME Init PROVE WatchInv
    OBVIOUS
  <2>1. None # "set" /\ None \notin Tops
    BY WatchAssumption
  <2>2. TopWatches = {}
    BY <2>1 DEF Init, TopWatches
  <2>3. Cardinality(Tops) \in Nat
    BY TopsFinite, FS_CardinalityType
  <2> QED
    BY <2>1, <2>2, <2>3, FS_EmptySet DEF Init, WatchInv
<1>2. TypeInv /\ WatchInv /\ [Next]_vars => WatchInv'
  BY WatchInvNext
<1> QED
  BY <1>1, <1>2, WatchTypesInv, PTL DEF Spec

\* The daemon collects no watches as groups come and go: each is of a directory the last
\* discovery found, or was made for a configured one (Watcher::sync, release).
THEOREM WatchesNeededHolds == Spec => []WatchesNeeded
<1>1. TypeInv /\ WatchInv => WatchesNeeded
  <2> SUFFICES ASSUME TypeInv, WatchInv PROVE WatchesNeeded
    OBVIOUS
  <2> DEFINE current == {setWatch[p] : p \in DOMAIN setWatch}
  <2>1. \A d \in Dirs : label[d] = "set" => d \in current
    BY DEF WatchInv
  <2>2. watched \ current \in SUBSET TopWatches
    BY <2>1 DEF TopWatches, TypeInv, TypeOK
  <2>3. IsFiniteSet(watched \ current) /\ Cardinality(watched \ current) <= Cardinality(TopWatches)
    BY <2>2, FS_Subset DEF WatchInv
  <2>4. /\ Cardinality(watched \ current) \in Nat /\ Cardinality(TopWatches) \in Nat
        /\ Cardinality(Tops) \in Nat
    BY <2>3, TopsFinite, FS_CardinalityType DEF WatchInv
  <2>5. Cardinality(watched \ current) <= Cardinality(Tops)
    BY <2>3, <2>4 DEF WatchInv
  <2> QED
    BY <2>1, <2>5 DEF WatchesNeeded
<1> QED
  BY <1>1, WatchTypesInv, WatchInvariant, PTL

(***************************************************************************)
(* The tree.  Whatever is in it has not been removed and is in one place.  *)
(***************************************************************************)

\* A path leads to the last of its names in the directory its front leads to.
LEMMA WalkStep ==
    ASSUME NEW from, NEW p \in Paths, Len(p) # 1
    PROVE  /\ Len(p) \in 2 .. 3 /\ Len(Front(p)) = Len(p) - 1 /\ Head(Front(p)) = Head(p)
           /\ Walk(from, p) = Below(Walk(from, Front(p)), Last(p)) /\ Last(p) \in Names
<1>1. PICK n \in 1 .. 2 : p \in Levels(n)
  BY PathKinds, PathShape
<1>2. /\ p \in Seq(Names \cup {"root"}) /\ Len(p) = n + 1 /\ Head(p) = "root"
      /\ \A i \in 2 .. n + 1 : p[i] \in Names
  BY <1>1, LevelPaths, PathShape
<1>3. /\ Len(Front(p)) = n /\ Head(Front(p)) = Head(p) /\ Last(p) \in Names
      /\ n = 2 => Front(p)[2] = p[2]
  BY <1>2, FrontPaths
<1>4. Last(p) = p[n + 1]
  BY <1>2 DEF Last
<1>5. CASE n = 1
  BY <1>2, <1>3, <1>4, <1>5 DEF Walk
<1>6. CASE n = 2
  BY <1>2, <1>3, <1>4, <1>6 DEF Walk
<1> QED
  BY <1>2, <1>3, <1>5, <1>6

LEMMA AtPlace ==
    ASSUME NEW p \in Paths
    PROVE  /\ Len(p) = 1 => p = <<Head(p)>> /\ Head(p) \in Tops /\ DirAt(p) = top[Head(p)]
           /\ Len(p) # 1 => /\ Len(p) > 1 /\ Last(p) \in Names
                            /\ DirAt(p) = Below(ParentDir(p), Last(p))
<1>1. CASE Len(p) = 1
  BY <1>1, PathShape DEF DirAt, Walk, TopPaths
<1>2. CASE Len(p) # 1
  <2>1. /\ Len(p) > 1 /\ Head(Front(p)) = Head(p) /\ Last(p) \in Names
        /\ Walk(top[Head(p)], p) = Below(Walk(top[Head(p)], Front(p)), Last(p))
    BY <1>2, WalkStep
  <2>2. ParentDir(p) = Walk(top[Head(p)], Front(p))
    BY <1>2, <2>1 DEF ParentDir, DirAt
  <2> QED
    BY <1>2, <2>1, <2>2 DEF DirAt
<1> QED
  BY <1>1, <1>2

Tree ==
    /\ \A t \in Tops : top[t] \in live \cup {None}
    /\ \A d \in Dirs, n \in Names : child[d][n] \in live \cup {None}
    /\ \A s, t \in Tops : top[s] = top[t] /\ top[s] # None => s = t
    /\ \A c, d \in Dirs, m, n \in Names :
          child[c][m] = child[d][n] /\ child[c][m] # None => c = d /\ m = n
    /\ \A t \in Tops, d \in Dirs, n \in Names : top[t] = child[d][n] => top[t] = None
    /\ \A d \in Dirs \ live : member[d] = {} /\ \A n \in Names : child[d][n] = None

LEMMA WalkLive ==
    ASSUME TypeOK, Tree, NEW d \in live \cup {None}, NEW p \in Paths
    PROVE  Walk(d, p) \in live \cup {None}
<1>1. ASSUME NEW e \in live \cup {None}, NEW n \in Names PROVE Below(e, n) \in live \cup {None}
  BY DEF Below, Tree, TypeOK
<1>2. Len(p) \in 1 .. 3 /\ \A i \in 2 .. Len(p) : p[i] \in Names
  BY PathShape
<1>3. CASE Len(p) = 1
  BY <1>3 DEF Walk
<1>4. CASE Len(p) = 2
  BY <1>1, <1>2, <1>4 DEF Walk
<1>5. CASE Len(p) = 3
  <2>1. p[2] \in Names /\ p[3] \in Names
    BY <1>2, <1>5
  <2>2. Below(d, p[2]) \in live \cup {None}
    BY <1>1, <2>1
  <2>3. Below(Below(d, p[2]), p[3]) \in live \cup {None}
    BY <1>1, <2>1, <2>2
  <2> QED
    BY <1>5, <2>3 DEF Walk
<1> QED
  BY <1>2, <1>3, <1>4, <1>5

LEMMA DirAtLive == ASSUME TypeOK, Tree, NEW p \in Paths PROVE DirAt(p) \in live \cup {None}
  BY WalkLive, PathShape DEF DirAt, Tree

LEMMA ParentLive ==
    ASSUME TypeOK, Tree, NEW p \in Paths, Len(p) # 1, ParentDir(p) # None
    PROVE  ParentDir(p) \in live
<1>1. ParentDir(p) \in Places
  BY ParentDirType
<1>2. ParentDir(p) = Walk(top[Head(p)], Front(p)) /\ Len(p) \in 2 .. 3
  BY WalkStep DEF ParentDir, DirAt
<1>3. /\ Len(Front(p)) = Len(p) - 1 /\ Head(p) \in Tops
      /\ \A i \in 2 .. Len(p) - 1 : Front(p)[i] \in Names
  <2>1. Len(p) > 1 /\ Head(p) \in Tops /\ \A i \in 2 .. Len(p) : p[i] \in Names
    BY <1>2, PathShape
  <2>2. Len(Front(p)) = Len(p) - 1 /\ \A i \in 2 .. Len(p) - 1 : Front(p)[i] = p[i]
    BY <2>1, FrontPaths
  <2>3. \A i \in 2 .. Len(p) - 1 : i \in 2 .. Len(p)
    BY <1>2
  <2> QED
    BY <2>1, <2>2, <2>3
<1>4. top[Head(p)] \in live \cup {None}
  BY <1>3 DEF Tree
<1>5. CASE Len(p) = 2
  BY <1>2, <1>3, <1>4, <1>5 DEF Walk
<1>6. CASE Len(p) = 3
  <2>1. Front(p)[2] \in Names /\ ParentDir(p) = Below(top[Head(p)], Front(p)[2])
    BY <1>2, <1>3, <1>6 DEF Walk
  <2> QED
    BY <1>4, <2>1 DEF Below, Tree, TypeOK
<1> QED
  BY <1>2, <1>5, <1>6

\* A place has changed: what each place has then.
LEMMA Placed ==
    ASSUME TypeOK, NEW p \in Paths, NEW d \in Places, Place(p, d), Reachable(p)
    PROVE  /\ Len(p) = 1 =>
                /\ child' = child
                /\ \A t \in Tops : top'[t] = IF p = <<t>> THEN d ELSE top[t]
           /\ Len(p) # 1 =>
                /\ top' = top /\ ParentDir(p) \in Dirs /\ Last(p) \in Names
                /\ \A e \in Dirs, n \in Names :
                     child'[e][n] = IF e = ParentDir(p) /\ n = Last(p) THEN d ELSE child[e][n]
<1>1. CASE Len(p) = 1
  <2>1. p = <<Head(p)>> /\ Head(p) \in Tops
    BY <1>1, AtPlace
  <2>2. top' = [top EXCEPT ![Head(p)] = d] /\ child' = child
    BY <1>1 DEF Place
  <2>3. \A t \in Tops : t = Head(p) <=> p = <<t>>
    BY <2>1
  <2> QED
    BY <1>1, <2>1, <2>2, <2>3 DEF TypeOK
<1>2. CASE Len(p) # 1
  <2>1. Len(p) > 1 /\ Last(p) \in Names
    BY <1>2, AtPlace
  <2>2. ParentDir(p) \in Dirs
    BY <2>1, ParentDirType DEF Reachable, Places
  <2>3. child' = [child EXCEPT ![ParentDir(p)][Last(p)] = d] /\ top' = top
    BY <1>2 DEF Place
  <2>4. child \in [Dirs -> [Names -> Dirs \cup {None}]]
    BY DEF TypeOK
  <2>5. \A e \in Dirs, n \in Names :
           child'[e][n] = IF e = ParentDir(p) /\ n = Last(p) THEN d ELSE child[e][n]
    BY <2>1, <2>2, <2>3, <2>4
  <2> QED
    BY <1>2, <2>1, <2>2, <2>3, <2>5
<1> QED
  BY <1>1, <1>2

\* Nowhere(d): nothing in the tree is d.
Nowhere(d) == (\A t \in Tops : top[t] # d) /\ (\A e \in Dirs, n \in Names : child[e][n] # d)

\* The directory at a path is at no other place.
LEMMA OnePlace ==
    ASSUME TypeOK, Tree, NEW p \in Paths, DirAt(p) # None
    PROVE  /\ \A t \in Tops : top[t] = DirAt(p) => p = <<t>>
           /\ \A e \in Dirs, n \in Names :
                child[e][n] = DirAt(p) => Len(p) # 1 /\ e = ParentDir(p) /\ n = Last(p)
<1>1. CASE Len(p) = 1
  <2>1. p = <<Head(p)>> /\ Head(p) \in Tops /\ DirAt(p) = top[Head(p)]
    BY <1>1, AtPlace
  <2> QED
    BY <2>1 DEF Tree
<1>2. CASE Len(p) # 1
  <2>1. DirAt(p) = Below(ParentDir(p), Last(p)) /\ Last(p) \in Names
    BY <1>2, AtPlace
  <2>2. ParentDir(p) \in Dirs /\ DirAt(p) = child[ParentDir(p)][Last(p)]
    BY <2>1, ParentDirType DEF Below, Places
  <2> QED
    BY <1>2, <2>1, <2>2 DEF Tree
<1> QED
  BY <1>1, <1>2

LEMMA TreePlace ==
    ASSUME TypeOK, Tree, NEW p \in Paths, NEW d \in Places, Place(p, d), Reachable(p),
           d = None \/ (Nowhere(d) /\ d \in live'), live' \subseteq Dirs,
           \A e \in live \ live' :
               e = DirAt(p) /\ member'[e] = {} /\ \A n \in Names : child[e][n] = None,
           \A e \in Dirs \ live : member'[e] = {}
    PROVE  Tree'
<1>1. /\ Len(p) = 1 =>
           /\ child' = child
           /\ \A t \in Tops : top'[t] = IF p = <<t>> THEN d ELSE top[t]
      /\ Len(p) # 1 =>
           /\ top' = top /\ ParentDir(p) \in Dirs /\ Last(p) \in Names
           /\ \A e \in Dirs, n \in Names :
                child'[e][n] = IF e = ParentDir(p) /\ n = Last(p) THEN d ELSE child[e][n]
  BY Placed
<1>2. \A e \in live \ live' : e # None
  BY WatchAssumption DEF TypeOK
<1>3. \A t \in Tops : p # <<t>> => top[t] \in live' \cup {None}
  BY <1>2, OnePlace DEF Tree
<1>4. \A e \in Dirs, n \in Names :
         ~(Len(p) # 1 /\ e = ParentDir(p) /\ n = Last(p)) => child[e][n] \in live' \cup {None}
  BY <1>2, OnePlace DEF Tree
<1>5. Len(p) = 1 => \A t \in Tops : p = <<t>> <=> t = Head(p)
  BY AtPlace
<1>6. /\ \A t \in Tops : top'[t] \in live' \cup {None}
      /\ \A e \in Dirs, n \in Names : child'[e][n] \in live' \cup {None}
  BY <1>1, <1>3, <1>4, AtPlace
<1>7. \A s, t \in Tops : top'[s] = top'[t] /\ top'[s] # None => s = t
  BY <1>1, <1>5 DEF Tree, Nowhere
<1>8. \A c, e \in Dirs, m, n \in Names :
          child'[c][m] = child'[e][n] /\ child'[c][m] # None => c = e /\ m = n
  BY <1>1 DEF Tree, Nowhere
<1>9. \A t \in Tops, e \in Dirs, n \in Names : top'[t] = child'[e][n] => top'[t] = None
  BY <1>1 DEF Tree, Nowhere
<1>10. ASSUME NEW e \in Dirs \ live'
       PROVE  member'[e] = {} /\ \A n \in Names : child'[e][n] = None
  <2>1. member'[e] = {} /\ \A n \in Names : child[e][n] = None
    BY DEF Tree
  <2>2. CASE Len(p) # 1 /\ e = ParentDir(p) /\ d # None
    <3>1. e \in live
      BY <2>2, ParentLive, <1>1, WatchAssumption
    <3>2. e = DirAt(p)
      BY <3>1
    <3>3. DirAt(p) # None /\ DirAt(p) = child[ParentDir(p)][Last(p)]
      <4>1. e # None /\ ParentDir(p) # None
        BY <1>1, <2>2, WatchAssumption
      <4>2. DirAt(p) = Below(ParentDir(p), Last(p))
        BY <2>2, AtPlace
      <4> QED
        BY <3>2, <4>1, <4>2 DEF Below
    <3> QED
      BY <1>1, <2>1, <2>2, <3>2, <3>3
  <2> QED
    BY <1>1, <2>1, <2>2
<1> QED
  BY <1>6, <1>7, <1>8, <1>9, <1>10 DEF Tree

LEMMA TreeNext == ASSUME TypeInv, Tree, Next \/ UNCHANGED vars PROVE Tree'
<1>0. TypeOK
  BY DEF TypeInv
<1>1. CASE UNCHANGED tree
  BY <1>1 DEF tree, Tree
<1>2. ASSUME NEW d \in Dirs, NEW m \in Members, ChangeMember(d, m) PROVE Tree'
  <2>1. UNCHANGED <<top, child, live>> /\ d \in live
        /\ \A e \in Dirs \ {d} : member'[e] = member[e]
    BY <1>0, <1>2 DEF ChangeMember, TypeOK
  <2> QED
    BY <2>1 DEF Tree
<1>3. ASSUME NEW p \in Paths, NEW d \in Dirs, MakeDir(p, d) PROVE Tree'
  <2>1. Place(p, d) /\ Reachable(p) /\ live' = live \cup {d} /\ member' = member /\ d \notin live
    BY <1>3 DEF MakeDir, Unused
  <2>2. Nowhere(d)
    BY <2>1, WatchAssumption DEF Nowhere, Tree
  <2>3. live' \subseteq Dirs
    BY <1>0, <2>1 DEF TypeOK
  <2>4. \A e \in Dirs \ live : member'[e] = {}
    BY <2>1 DEF Tree
  <2> QED
    BY <1>0, <2>1, <2>2, <2>3, <2>4, TreePlace DEF Places
<1>4. ASSUME NEW p \in Paths, RemoveDir(p) PROVE Tree'
  <2>1. /\ Place(p, None) /\ DirAt(p) # None /\ live' = live \ {DirAt(p)} /\ member' = member
        /\ member[DirAt(p)] = {} /\ \A n \in Names : child[DirAt(p)][n] = None
    BY <1>4 DEF RemoveDir
  <2>2. Reachable(p)
    BY <1>0, <2>1, PresentReachable
  <2>3. live' \subseteq Dirs
    BY <1>0, <2>1 DEF TypeOK
  <2>4. \A e \in Dirs \ live : member'[e] = {}
    BY <2>1 DEF Tree
  <2>5. None \in Places
    BY DEF Places
  <2>6. \A e \in live \ live' :
           e = DirAt(p) /\ member'[e] = {} /\ \A n \in Names : child[e][n] = None
    BY <2>1
  <2> QED
    BY <1>0, <2>1, <2>2, <2>3, <2>4, <2>5, <2>6, TreePlace
<1>5. ASSUME NEW p \in Paths, MoveOut(p) PROVE Tree'
  <2>1. Place(p, None) /\ DirAt(p) # None /\ live' = live /\ member' = member
    BY <1>5 DEF MoveOut
  <2>2. Reachable(p)
    BY <1>0, <2>1, PresentReachable
  <2>3. live' \subseteq Dirs
    BY <1>0, <2>1 DEF TypeOK
  <2>4. \A e \in Dirs \ live : member'[e] = {}
    BY <2>1 DEF Tree
  <2>5. None \in Places
    BY DEF Places
  <2>6. \A e \in live \ live' :
           e = DirAt(p) /\ member'[e] = {} /\ \A n \in Names : child[e][n] = None
    BY <2>1
  <2> QED
    BY <1>0, <2>1, <2>2, <2>3, <2>4, <2>5, <2>6, TreePlace
<1>6. ASSUME NEW p \in Paths, NEW d \in Dirs, MoveIn(p, d) PROVE Tree'
  <2>1. /\ Place(p, d) /\ Reachable(p) /\ live' = live /\ member' = member /\ d \in live
        /\ \A q \in Paths : DirAt(q) # d
        /\ \A e \in Dirs, n \in Names : child[e][n] # d
    BY <1>6 DEF MoveIn
  <2>2. \A t \in Tops : <<t>> \in Paths /\ DirAt(<<t>>) = top[t]
    BY DEF Paths, TopPaths, DirAt, Walk
  <2>3. Nowhere(d)
    BY <2>1, <2>2 DEF Nowhere
  <2>4. live' \subseteq Dirs
    BY <1>0, <2>1 DEF TypeOK
  <2>5. \A e \in Dirs \ live : member'[e] = {}
    BY <2>1 DEF Tree
  <2> QED
    BY <1>0, <2>1, <2>3, <2>4, <2>5, TreePlace DEF Places
<1>7. CASE Environment
  BY <1>1, <1>2, <1>3, <1>4, <1>5, <1>6, <1>7 DEF Environment, Stop, Reload, Open
<1>8. CASE Daemon
  BY <1>1, <1>8 DEF Daemon, Start, Open, WatchAndSwap, WatchFails, HandleInotify, PassDue, ResyncDue,
                    Discover, Sync, Finish, ScanLevel, Scan
<1> QED
  BY <1>1, <1>7, <1>8 DEF Next, vars

LEMMA TreeInit == Init => Tree
  BY WatchAssumption DEF Init, Tree

(***************************************************************************)
(* What the daemon knows of the configured directories.  The watch on one  *)
(* is labelled with it until it is given up; a watch that nothing labels   *)
(* was one that has been given up.  One that is not where it was opened    *)
(* has told so, unless events were dropped.                                *)
(***************************************************************************)

LabelInv ==
    /\ \A t \in Tops : fd[<<t>>] # None /\ <<t>> \notin degraded \cup unseen =>
                          label[fd[<<t>>]] = t /\ fd[<<t>>] \in watched
    /\ \A d \in Dirs, t \in Tops : label[d] = t => fd[<<t>>] = d \/ <<t>> \in unseen
    /\ \A d \in watched : label[d] = None =>
          \E t \in Tops : <<t>> \in degraded /\ (fd[<<t>>] = d \/ <<t>> \in unseen)

LossInv ==
    ~dropped =>
        \A t \in Tops :
            /\ fd[<<t>>] \in live /\ <<t>> \notin degraded \cup unseen
            /\ top[t] # fd[<<t>>]
            => SelfChange(fd[<<t>>]) \in queue

TopInv == Tree /\ LabelInv /\ LossInv

LEMMA TopPath ==
    \A t \in Tops : <<t>> \in TopPaths /\ <<t>> \in Paths /\ Head(<<t>>) = t /\ Len(<<t>>) = 1
  BY DEF TopPaths, Paths

LEMMA SetPaths ==
    \A p \in Intermediates \cup SetGroups :
        p \in Paths /\ Len(p) \in 2 .. 3 /\ p \notin TopPaths /\ Head(p) = "root" /\ "root" \in Tops
<1> SUFFICES ASSUME NEW p \in Intermediates \cup SetGroups
             PROVE  p \in Paths /\ Len(p) \in 2 .. 3 /\ p \notin TopPaths /\ Head(p) = "root" /\ "root" \in Tops
  OBVIOUS
<1>1. p \in Paths
  BY DEF Paths
<1>2. PICK n \in 1 .. 2 : p \in Levels(n)
  BY WatchAssumption DEF Intermediates, SetGroups
<1>3. Len(p) = n + 1
  BY <1>2, LevelPaths
<1>4. Len(p) > 1 /\ Len(p) \in 2 .. 3
  BY <1>3
<1> QED
  BY <1>1, <1>4, PathShape

\* What a report leaves.
LEMMA Reported ==
    ASSUME NEW events, Report(events)
    PROVE  /\ queue \subseteq queue' /\ (overflow => overflow') /\ (dropped => dropped')
           /\ dropped' => dropped \/ overflow'
           /\ \A e \in events : e.wd \in watched => e \in queue' \/ (overflow' /\ dropped')
           /\ watched' \subseteq watched
           /\ \A d \in watched : d \in watched' \/ (d \notin live' /\ d \notin Held')
  BY DEF Report, Post

\* Between startup or a reload and the next, the daemon holds the same directories open,
\* and what it has given up it does not take back.
LEMMA TopsHeld ==
    ASSUME TypeInv, Next \/ UNCHANGED vars, ~Stop, ~WatchAndSwap
    PROVE  /\ \A t \in Tops : fd'[<<t>>] = fd[<<t>>]
           /\ degraded \subseteq degraded'
           /\ \A t \in Tops : <<t>> \in unseen => <<t>> \in unseen'
<1>1. CASE UNCHANGED <<fd, degraded>> /\ unseen \subseteq unseen'
  BY <1>1
<1>2. CASE Environment
  <2>1. UNCHANGED <<fd, degraded>>
    BY <1>2 DEF Environment, ChangeMember, MakeDir, RemoveDir, MoveOut, MoveIn, Others, Reload, Open,
                runtime, loop
  <2>2. unseen \subseteq unseen'
    BY <1>2 DEF Environment, ChangeMember, MakeDir, RemoveDir, MoveOut, MoveIn, Place, Reload, Open,
                inotify
  <2> QED
    BY <1>1, <2>1, <2>2
<1>3. CASE Start \/ WatchFails \/ PassDue \/ ResyncDue \/ Sync \/ Finish
  <2>1. UNCHANGED fd /\ degraded \subseteq degraded' /\ unseen \subseteq unseen'
    BY <1>3 DEF Start, Open, WatchFails, PassDue, ResyncDue, Sync, Finish, runtime, loop, inotify
  <2> QED
    BY <2>1
<1>4. CASE HandleInotify
  BY <1>4 DEF HandleInotify, runtime
<1>5. CASE Discover
  <2>1. UNCHANGED degraded /\ unseen' = unseen \cap TopPaths
    BY <1>5 DEF Discover, loop
  <2>2. \A p \in TopPaths : fd'[p] = fd[p]
    BY <1>5 DEF Discover, Paths
  <2> QED
    BY <2>1, <2>2, TopPath
<1>6. ASSUME NEW p \in Paths, ScanLevel(p)
      PROVE  UNCHANGED <<degraded, unseen>> /\ \A t \in Tops : fd'[<<t>>] = fd[<<t>>]
  <2>1. UNCHANGED <<degraded, unseen>> /\ p \in Intermediates
    BY <1>6 DEF ScanLevel, loop, TypeInv, Opens
  <2>2. \A q \in TopPaths : q # p /\ q \notin SetGroups /\ q \in Paths
    BY <2>1, SetPaths DEF Paths
  <2>3. \A q \in TopPaths : fd'[q] = fd[q]
    BY <1>6, <2>2 DEF ScanLevel
  <2> QED
    BY <2>1, <2>3, TopPath
<1>7. ASSUME NEW p \in Paths, Scan(p) PROVE UNCHANGED <<fd, degraded, unseen>>
  BY <1>7 DEF Scan, runtime, loop, inotify
<1> QED
  BY <1>1, <1>2, <1>3, <1>4, <1>5, <1>6, <1>7
  DEF Next, Daemon, vars, runtime, loop, inotify

LEMMA HeldTop == ASSUME NEW t \in Tops PROVE fd[<<t>>] \in Held
  BY TopPath DEF Held

\* Steps at which others act, or the daemon opens or closes directories.
ReportStep == \E events : Report(events)

LEMMA StepKinds ==
    ASSUME TypeInv, Next \/ UNCHANGED vars
    PROVE  \/ Stop \/ WatchAndSwap \/ HandleInotify \/ Sync
           \/ UNCHANGED label /\ (ReportStep \/ UNCHANGED <<watched, queue, overflow, dropped>>)
<1>1. CASE Environment
  <2>1. CASE Reload
    BY <2>1 DEF Reload, Open, watcher, inotify
  <2>2. ASSUME NEW d \in Dirs, NEW m \in Members, ChangeMember(d, m)
        PROVE  UNCHANGED label /\ ReportStep
    BY <2>2 DEF ChangeMember, Others, watcher, ReportStep
  <2>3. ASSUME NEW p \in Paths, RemoveDir(p) \/ MoveOut(p) PROVE UNCHANGED label /\ ReportStep
    BY <2>3 DEF RemoveDir, MoveOut, Others, watcher, ReportStep
  <2>4. ASSUME NEW p \in Paths, NEW d \in Dirs, MakeDir(p, d) \/ MoveIn(p, d)
        PROVE  UNCHANGED label /\ ReportStep
    BY <2>4 DEF MakeDir, MoveIn, Others, watcher, ReportStep
  <2> QED
    BY <1>1, <2>1, <2>2, <2>3, <2>4 DEF Environment
<1>2. CASE Start \/ PassDue \/ ResyncDue \/ Finish
  BY <1>2 DEF Start, Open, PassDue, ResyncDue, Finish, watcher, inotify
<1>3. CASE WatchFails \/ Discover
  BY <1>3 DEF WatchFails, Discover, watcher, ReportStep
<1>4. ASSUME NEW p \in Paths, ScanLevel(p) \/ Scan(p)
      PROVE  UNCHANGED label /\ (ReportStep \/ UNCHANGED <<watched, queue, overflow, dropped>>)
  BY <1>4 DEF ScanLevel, Scan, watcher, inotify, ReportStep
<1> QED
  BY <1>1, <1>2, <1>3, <1>4 DEF Next, Daemon, vars, watcher, inotify

LEMMA LabelNext ==
    ASSUME TypeInv, WatchInv, Tree, LabelInv, Next \/ UNCHANGED vars
    PROVE  LabelInv'
<1>0. None \notin Tops /\ "set" \notin Tops /\ None # "set" /\ None \notin Dirs
  BY WatchAssumption
<1>1. CASE Stop
  <2>1. /\ \A t \in Tops : fd'[<<t>>] = None
        /\ label' = [d \in Dirs |-> None] /\ watched' = {}
    BY <1>1, TopPath DEF Stop
  <2> QED
    BY <1>0, <2>1 DEF LabelInv
<1>2. CASE WatchAndSwap
  <2>1. /\ watched' = {top[t] : t \in Tops} /\ \A t \in Tops : top[t] \in Dirs
        /\ label' = [d \in Dirs |-> IF \E t \in Tops : top[t] = d
                                    THEN CHOOSE t \in Tops : top[t] = d ELSE None]
    BY <1>2 DEF WatchAndSwap, TypeInv, TypeOK
  <2>2. \A t \in Tops : label'[top[t]] = t
    BY <1>0, <2>1 DEF Tree
  <2>3. \A d \in Dirs, t \in Tops : label'[d] = t => top[t] = d
    BY <1>0, <2>1
  <2>4. \A t \in Tops : fd'[<<t>>] = top[t] \/ <<t>> \in unseen'
    BY <1>2, TopPath DEF WatchAndSwap
  <2>5. \A d \in watched' : label'[d] # None
    BY <1>0, <2>1, <2>2
  <2>6. \A t \in Tops : <<t>> \notin unseen' => label'[fd'[<<t>>]] = t /\ fd'[<<t>>] \in watched'
    BY <2>1, <2>2, <2>4
  <2>7. \A d \in Dirs, t \in Tops : label'[d] = t => fd'[<<t>>] = d \/ <<t>> \in unseen'
    BY <2>3, <2>4
  <2> QED
    BY <2>5, <2>6, <2>7 DEF LabelInv
<1> SUFFICES ASSUME ~Stop, ~WatchAndSwap PROVE LabelInv'
  BY <1>1, <1>2
<1>3. /\ \A t \in Tops : fd'[<<t>>] = fd[<<t>>]
      /\ degraded \subseteq degraded'
      /\ \A t \in Tops : <<t>> \in unseen => <<t>> \in unseen'
  BY TopsHeld
<1>4. CASE HandleInotify
  <2> DEFINE losses == {t \in Tops : \E e \in queue : e.self /\ label[e.wd] = t}
  <2>1. /\ watched' = watched /\ degraded' = degraded \cup {<<t>> : t \in losses}
        /\ label' = [d \in Dirs |-> IF label[d] \in losses THEN None ELSE label[d]]
    BY <1>4 DEF HandleInotify
  <2> HIDE DEF losses
  <2>2. \A t \in losses : t \in Tops /\ <<t>> \in degraded'
    BY <2>1 DEF losses
  <2>3. \A d \in Dirs : label'[d] = label[d] \/ (label'[d] = None /\ label[d] \in losses)
    BY <2>1
  <2>4. \A t \in Tops : fd[<<t>>] \in Dirs \cup {None}
    BY TopPath DEF TypeInv, TypeOK
  <2>5. watched \subseteq Dirs
    BY DEF TypeInv, TypeOK
  <2>6. \A t \in Tops : fd[<<t>>] # None /\ <<t>> \notin degraded' \cup unseen' =>
                          label'[fd[<<t>>]] = t /\ fd[<<t>>] \in watched'
    BY <1>3, <2>1, <2>2, <2>3, <2>4 DEF LabelInv
  <2>7. \A d \in Dirs, t \in Tops : label'[d] = t => fd[<<t>>] = d \/ <<t>> \in unseen'
    BY <1>0, <1>3, <2>3 DEF LabelInv
  <2>8. \A d \in watched' : label'[d] = None =>
          \E t \in Tops : <<t>> \in degraded' /\ (fd[<<t>>] = d \/ <<t>> \in unseen')
    <3> SUFFICES ASSUME NEW d \in watched, label'[d] = None
                 PROVE  \E t \in Tops : <<t>> \in degraded' /\ (fd[<<t>>] = d \/ <<t>> \in unseen')
      BY <2>1
    <3>1. CASE label[d] = None
      BY <1>3, <3>1 DEF LabelInv
    <3>2. CASE label[d] \in losses
      BY <1>3, <2>2, <2>5, <3>2 DEF LabelInv
    <3> QED
      BY <2>3, <2>5, <3>1, <3>2
  <2> QED
    BY <1>3, <2>6, <2>7, <2>8 DEF LabelInv
<1>5. CASE Sync
  <2> DEFINE wanted == {Wanted(p) : p \in DOMAIN setWatch} \ {None}
  <2>1. PICK R \in SUBSET Moved :
          LET removed == {d \in R : label[d] = "set"}
          IN  /\ label' = [d \in Dirs |->
                             IF d \in (removed \ wanted) THEN None
                             ELSE IF d \in wanted /\ label[d] = None THEN "set" ELSE label[d]]
              /\ watched' = (watched \ removed) \cup wanted
    BY <1>5 DEF Sync
  <2> DEFINE removed == {d \in R : label[d] = "set"}
  <2>2. \A d \in Dirs : /\ label[d] \in Tops => label'[d] = label[d] /\ d \notin removed
                        /\ label'[d] \in Tops => label'[d] = label[d]
                        /\ label'[d] = None => d \notin wanted /\ (label[d] = None \/ d \in removed)
    BY <1>0, <2>1
  <2>3. watched' = (watched \ removed) \cup wanted
    BY <2>1
  <2>4. \A d \in removed : label[d] = "set"
    OBVIOUS
  <2> HIDE DEF removed, wanted
  <2>5. watched' \subseteq Dirs /\ \A t \in Tops : fd[<<t>>] \in Dirs \cup {None}
    BY <1>5, SyncType, TopPath DEF TypeInv, TypeOK
  <2>6. \A t \in Tops : fd[<<t>>] # None /\ <<t>> \notin degraded' \cup unseen' =>
                          label'[fd[<<t>>]] = t /\ fd[<<t>>] \in watched'
    BY <1>3, <2>2, <2>3, <2>5 DEF LabelInv
  <2>7. \A d \in Dirs, t \in Tops : label'[d] = t => fd[<<t>>] = d \/ <<t>> \in unseen'
    BY <1>3, <2>2 DEF LabelInv
  <2>8. \A d \in watched' : label'[d] = None => d \in watched /\ label[d] = None
    BY <2>2, <2>3, <2>5
  <2> QED
    BY <1>3, <2>6, <2>7, <2>8 DEF LabelInv
<1>6. CASE UNCHANGED label /\ (ReportStep \/ UNCHANGED <<watched, queue, overflow, dropped>>)
  <2>1. /\ watched' \subseteq watched
        /\ \A d \in watched : d \in watched' \/ d \notin Held'
    BY <1>6, Reported DEF ReportStep
  <2>2. \A t \in Tops : fd'[<<t>>] \in Held'
    BY TopPath DEF Held
  <2> QED
    BY <1>3, <1>6, <2>1, <2>2 DEF LabelInv
<1> QED
  BY <1>4, <1>5, <1>6, StepKinds

LEMMA LossNext ==
    ASSUME TypeInv, WatchInv, TopInv, Next \/ UNCHANGED vars
    PROVE  LossInv'
<1>0. None \notin Tops /\ "set" \notin Tops /\ None # "set" /\ None \notin Dirs /\ live' \subseteq Dirs
  <2>1. TypeInv'
    BY WatchTypesNext
  <2> QED
    BY <2>1, WatchAssumption DEF TypeInv, TypeOK
<1>1. CASE Stop
  <2>1. \A t \in Tops : fd'[<<t>>] = None
    BY <1>1, TopPath DEF Stop
  <2> QED
    BY <1>0, <2>1 DEF LossInv
<1>2. CASE WatchAndSwap
  <2>1. \A t \in Tops : (fd'[<<t>>] = top[t] \/ <<t>> \in unseen') /\ top' = top
    BY <1>2, TopPath DEF WatchAndSwap, tree
  <2> QED
    BY <2>1 DEF LossInv
<1> SUFFICES ASSUME ~Stop, ~WatchAndSwap PROVE LossInv'
  BY <1>1, <1>2
<1>3. /\ \A t \in Tops : fd'[<<t>>] = fd[<<t>>]
      /\ degraded \subseteq degraded'
      /\ \A t \in Tops : <<t>> \in unseen => <<t>> \in unseen'
  BY TopsHeld
<1>4. CASE HandleInotify
  <2>1. /\ UNCHANGED <<top, live, dropped>>
        /\ \A t \in Tops : \A e \in queue : e.self /\ label[e.wd] = t => <<t>> \in degraded'
    BY <1>4 DEF HandleInotify, tree
  <2>2. \A t \in Tops : SelfChange(fd[<<t>>]).self /\ SelfChange(fd[<<t>>]).wd = fd[<<t>>]
    BY DEF SelfChange
  <2> QED
    BY <1>0, <1>3, <2>1, <2>2 DEF LossInv, LabelInv, TopInv
<1>5. CASE Sync
  <2>1. UNCHANGED <<top, live, dropped>> /\ \A e \in queue : label[e.wd] # "set" => e \in queue'
    BY <1>5 DEF Sync, tree
  <2>2. \A t \in Tops : SelfChange(fd[<<t>>]).wd = fd[<<t>>]
    BY DEF SelfChange
  <2> QED
    BY <1>0, <1>3, <2>1, <2>2 DEF LossInv, LabelInv, TopInv
<1>6. CASE UNCHANGED label /\ (ReportStep \/ UNCHANGED <<watched, queue, overflow, dropped>>)
  <2>1. queue \subseteq queue' /\ (dropped => dropped')
    BY <1>6, Reported DEF ReportStep
  <2> SUFFICES ASSUME ~dropped', NEW t \in Tops, fd[<<t>>] \in live',
                      <<t>> \notin degraded' \cup unseen', top'[t] # fd[<<t>>]
               PROVE  SelfChange(fd[<<t>>]) \in queue'
    BY <1>3 DEF LossInv
  <2>2. fd[<<t>>] # None /\ <<t>> \notin degraded \cup unseen /\ fd[<<t>>] \in watched
    BY <1>0, <1>3 DEF TopInv, LabelInv
  <2>3. fd[<<t>>] \in live
    <3>1. CASE live' \subseteq live
      BY <3>1
    <3>2. ASSUME NEW p \in Paths, NEW d \in Dirs, MakeDir(p, d) PROVE fd[<<t>>] \in live
      BY <3>2, HeldTop DEF MakeDir, Unused
    <3> QED
      BY <3>1, <3>2
      DEF Next, Environment, Daemon, ChangeMember, RemoveDir, MoveOut, MoveIn, Reload, Open, Start,
          WatchFails, HandleInotify, PassDue, ResyncDue, Discover, Sync, Finish, ScanLevel, Scan,
          tree, vars
  <2>4. CASE top[t] # fd[<<t>>]
    BY <2>1, <2>2, <2>3, <2>4 DEF TopInv, LossInv
  <2>5. CASE top[t] = fd[<<t>>]
    <3>1. top'[t] # top[t]
      BY <2>5
    <3>2. DirAt(<<t>>) = fd[<<t>>] /\ DirAt(<<t>>) # None
      BY <2>2, <2>5, TopPath, AtPlace
    <3>3. ASSUME NEW p \in Paths, NEW d \in Places, Place(p, d), Reachable(p) PROVE p = <<t>>
      BY <3>1, <3>3, Placed DEF TypeInv
    <3>4. ASSUME NEW p \in Paths, NEW d \in Dirs, MakeDir(p, d) \/ MoveIn(p, d) PROVE FALSE
      BY <3>2, <3>3, <3>4 DEF MakeDir, MoveIn, Places
    <3>5. ASSUME NEW p \in Paths, RemoveDir(p) PROVE FALSE
      <4>1. p = <<t>>
        BY <3>3, <3>5, PresentReachable DEF RemoveDir, Places, TypeInv
      <4> QED
        BY <3>2, <3>5, <4>1 DEF RemoveDir
    <3>6. ASSUME NEW p \in Paths, MoveOut(p) PROVE SelfChange(fd[<<t>>]) \in queue'
      <4>1. p = <<t>>
        BY <3>3, <3>6, PresentReachable DEF MoveOut, Places, TypeInv
      <4>2. Report({Change(ParentDir(p)), SelfChange(fd[<<t>>])})
        BY <3>2, <3>6, <4>1 DEF MoveOut
      <4>3. SelfChange(fd[<<t>>]).wd = fd[<<t>>]
        BY DEF SelfChange
      <4> QED
        BY <2>2, <4>2, <4>3, Reported
    <3>7. CASE UNCHANGED top
      BY <3>1, <3>7
    <3> QED
      BY <3>4, <3>5, <3>6, <3>7
      DEF Next, Environment, Daemon, ChangeMember, Reload, Open, Start,
          WatchFails, HandleInotify, PassDue, ResyncDue, Discover, Sync, Finish, ScanLevel, Scan,
          tree, vars
  <2> QED
    BY <2>4, <2>5
<1> QED
  BY <1>4, <1>5, <1>6, StepKinds

WatchBase == TypeInv /\ WatchInv /\ TopInv

LEMMA WatchBaseInvariant == Spec => []WatchBase
<1>1. Init => LabelInv /\ LossInv
  <2> SUFFICES ASSUME Init PROVE LabelInv /\ LossInv
    OBVIOUS
  <2>1. /\ None \notin Tops /\ None \notin Dirs /\ \A t \in Tops : fd[<<t>>] = None
        /\ watched = {} /\ \A d \in Dirs : label[d] = None
    BY WatchAssumption, TopPath DEF Init
  <2>2. live \subseteq Dirs
    BY DEF Init
  <2> QED
    BY <2>1, <2>2 DEF LabelInv, LossInv
<1>2. TypeInv /\ WatchInv /\ TopInv /\ [Next]_vars => TopInv'
  <2> SUFFICES ASSUME TypeInv, WatchInv, TopInv, Next \/ UNCHANGED vars PROVE TopInv'
    OBVIOUS
  <2> QED
    BY TreeNext, LabelNext, LossNext DEF TopInv
<1>3. Init => TopInv
  BY <1>1, TreeInit DEF TopInv
<1>4. TypeInv /\ WatchInv /\ TopInv <=> WatchBase
  BY DEF WatchBase
<1> QED
  BY <1>2, <1>3, <1>4, WatchTypesInv, WatchInvariant, PTL DEF Spec

\* A configured directory that has been moved away is given up by the time the daemon has
\* nothing to do, whatever has taken its place (drain, handle_inotify).
THEOREM LossNoticedHolds == Spec => []LossNoticed
<1>1. WatchBase => LossNoticed
  <2> SUFFICES ASSUME WatchBase, Quiet, ~dropped, NEW t \in Tops,
                      top[t] # fd[<<t>>], fd[<<t>>] \in live
               PROVE  <<t>> \in degraded \cup unseen
    BY DEF LossNoticed
  <2> QED
    BY DEF WatchBase, TopInv, LossInv, Quiet
<1> QED
  BY <1>1, WatchBaseInvariant, PTL

(***************************************************************************)
(* What is noticed.  A group is owed a pass from the moment its views are  *)
(* out of date until a pass is over that has read it since; what is        *)
(* between a pass reading a directory and it being watched, and between a  *)
(* change and the daemon taking notice of it, is told by the events        *)
(* that are still unread.                                                  *)
(***************************************************************************)

Asked == pending \/ Noticed

Losing(t) == \E e \in queue : e.self /\ label[e.wd] = t

\* Nothing is promised of these, or soon will not be.
Excused(p) ==
    \/ GivenUp(p)
    \/ p \in unseen \/ <<Head(p)>> \in unseen
    \/ p \in SetGroups /\ (Losing("root") \/ (dropped /\ top["root"] # fd[RootPath]))

Heard(d) == d = None \/ (d \in watched /\ label[d] # None)
Orphan(d) == d \in watched /\ label[d] = None

\* The group's directory, or the one it will be read in, is what the pass has found.
Located(p) ==
    IF Len(p) = 2 THEN fd[p] = Opened(p)
    ELSE /\ Front(p) \in todo => fd[Front(p)] = Opened(Front(p))
         /\ Front(p) \in inter => fd[p] = Opened(p) \/ Change(Opened(Front(p))) \in queue
         /\ Front(p) \notin todo \cup inter => Opened(Front(p)) = None /\ fd[p] = None

LevelOwes(p) ==
    \/ overflow \/ Excused(p) \/ p \in frozen
    \/ Change(fd[RootPath]) \in queue \/ Located(p)

ScanOwes(p) ==
    \/ Asked \/ Excused(p) \/ p \in frozen
    \/ /\ p \in SetGroups => fd[p] = Opened(p) /\ Heard(Opened(p)) /\ Heard(Opened(Front(p)))
       /\ p \notin todo => found[p] = IF fd[p] = None THEN None ELSE member[fd[p]]

WaitOwes(p) ==
    \/ Asked \/ Excused(p)
    \/ p \in SetGroups /\ Orphan(Opened(Front(p)))
    \/ p \in SetGroups /\ Heard(Opened(Front(p))) /\ Orphan(Opened(p))
    \/ /\ p \in SetGroups => Heard(Opened(Front(p))) /\ Heard(Opened(p))
       /\ view[p] = MembersOf(p)

FrozenInv ==
    pc \in {"level", "scan"} =>
        \A p \in frozen : GivenUp(p) \/ p \in lost \/ <<Head(p)>> \in lost

OwedInv ==
    /\ pc = "start" => ~Running
    /\ FrozenInv
    /\ pc = "level" => \A p \in Groups : found[p] = None
    /\ pc = "level" => \A p \in SetGroups : LevelOwes(p)
    /\ pc = "scan" => \A p \in Groups : ScanOwes(p)
    /\ pc \in {"wait", "watch"} /\ Running => \A p \in Groups : WaitOwes(p)

\* Where the path of a group of the set leads, in the tree and beneath what is held.
GroupLeads ==
    \A p \in SetGroups :
        /\ Opened(p) = Below(Opened(Front(p)), Last(p))
        /\ DirAt(p) = Below(DirAt(Front(p)), Last(p))
        /\ ParentDir(p) = DirAt(Front(p))
        /\ Len(p) = 2 => Opened(Front(p)) = fd[RootPath] /\ DirAt(Front(p)) = top["root"]
                         /\ Front(p) = RootPath /\ p[2] = Last(p)
        /\ Len(p) = 3 => /\ Opened(Front(p)) = Below(fd[RootPath], p[2])
                         /\ DirAt(Front(p)) = Below(top["root"], p[2])

LEMMA GroupPath ==
    ASSUME NEW p \in SetGroups
    PROVE  /\ p \in Paths /\ Len(p) \in 2 .. 3 /\ Front(p) \in Paths /\ Last(p) \in Names
           /\ Head(p) = "root" /\ Head(Front(p)) = "root" /\ "root" \in Tops
           /\ RootPath \in TopPaths /\ p \notin TopPaths /\ p[2] \in Names
           /\ Len(p) = 2 => Front(p) = RootPath /\ p[2] = Last(p)
           /\ Len(p) = 3 => Front(p) \in Intermediates /\ Front(p)[2] = p[2] /\ Len(Front(p)) = 2
<1>1. /\ p \in Paths /\ Len(p) \in 2 .. 3 /\ p \notin TopPaths /\ Head(p) = "root" /\ "root" \in Tops
  BY SetPaths
<1>2. \A i \in 2 .. Len(p) : p[i] \in Names
  BY <1>1, PathShape
<1>3. /\ Len(Front(p)) = Len(p) - 1 /\ Head(Front(p)) = Head(p) /\ Last(p) \in Names
  BY <1>1, WalkStep
<1>4. RootPath \in TopPaths /\ RootPath \in Paths
  BY <1>1 DEF TopPaths, RootPath, Paths
<1>5. PICK n \in 1 .. 2 : p \in Levels(n)
  BY <1>1, PathKinds
<1>6. /\ p \in Seq(Names \cup {"root"}) /\ Len(p) = n + 1 /\ p[1] = "root"
      /\ \A i \in 2 .. n + 1 : p[i] \in Names
  BY <1>5, LevelPaths
<1>7. Front(p) = SubSeq(p, 1, n) /\ Last(p) = p[n + 1]
  BY <1>6 DEF Front, Last
<1>8. CASE n = 1
  <2>1. Front(p) = RootPath
    <3>1. /\ Front(p) \in Seq(Names \cup {"root"}) /\ RootPath \in Seq(Names \cup {"root"})
          /\ Len(Front(p)) = 1 /\ Len(RootPath) = 1 /\ Front(p)[1] = "root" /\ RootPath[1] = "root"
      BY <1>6, <1>7, <1>8 DEF RootPath
    <3> QED
      BY <3>1, SeqEqual
  <2> QED
    <3>1. Len(p) = 2 /\ n + 1 = 2
      BY <1>6, <1>8
    <3>2. Last(p) = p[2]
      BY <1>7, <3>1
    <3> QED
      BY <1>1, <1>3, <1>4, <2>1, <3>1, <3>2
<1>9. CASE n = 2
  <2>1. p \notin Levels(1)
    BY <1>6, <1>9, LevelPaths
  <2>2. Depth = 2
    BY <1>1, <2>1, PathKinds
  <2> DEFINE ns == [i \in 1 .. 1 |-> p[2]]
  <2>3. ns \in [1 .. 1 -> Names]
    BY <1>6, <1>9
  <2>4. RootPath \o ns = Front(p)
    <3>1. /\ RootPath \o ns \in Seq(Names \cup {"root"}) /\ Len(RootPath \o ns) = 2
          /\ (RootPath \o ns)[1] = "root" /\ (RootPath \o ns)[2] = p[2]
      BY <1>6, <1>9 DEF RootPath
    <3>2. /\ Front(p) \in Seq(Names \cup {"root"}) /\ Len(Front(p)) = 2
          /\ Front(p)[1] = "root" /\ Front(p)[2] = p[2]
      BY <1>6, <1>7, <1>9
    <3> QED
      BY <3>1, <3>2, SeqEqual
  <2> HIDE DEF ns
  <2>5. Front(p) \in Levels(1)
    BY <1>1, <2>3, <2>4 DEF Levels
  <2>6. Front(p) \in Intermediates
    BY <2>2, <2>5 DEF Intermediates
  <2>7. Front(p)[2] = p[2] /\ Len(Front(p)) = 2
    BY <1>6, <1>7, <1>9
  <2> QED
    BY <1>1, <1>2, <1>3, <1>4, <1>6, <1>7, <1>9, <2>6, <2>7, SetPaths
<1> QED
  BY <1>8, <1>9

LEMMA Leads == GroupLeads
<1> SUFFICES ASSUME NEW p \in SetGroups
             PROVE  /\ Opened(p) = Below(Opened(Front(p)), Last(p))
                    /\ DirAt(p) = Below(DirAt(Front(p)), Last(p))
                    /\ ParentDir(p) = DirAt(Front(p))
                    /\ Len(p) = 2 => Opened(Front(p)) = fd[RootPath] /\ DirAt(Front(p)) = top["root"]
                                     /\ Front(p) = RootPath /\ p[2] = Last(p)
                    /\ Len(p) = 3 => /\ Opened(Front(p)) = Below(fd[RootPath], p[2])
                                     /\ DirAt(Front(p)) = Below(top["root"], p[2])
  BY DEF GroupLeads
<1>1. /\ Len(p) # 1 /\ Head(p) = "root" /\ Head(Front(p)) = "root" /\ p \in Paths
      /\ Len(p) = 2 => Front(p) = RootPath /\ p[2] = Last(p)
      /\ Len(p) = 3 => Front(p)[2] = p[2] /\ Len(Front(p)) = 2
  BY GroupPath
<1>2. \A from : Walk(from, p) = Below(Walk(from, Front(p)), Last(p))
  BY <1>1, WalkStep
<1>3. Len(p) = 2 => \A from : Walk(from, Front(p)) = from
  BY <1>1 DEF Walk, RootPath
<1>4. Len(p) = 3 => \A from : Walk(from, Front(p)) = Below(from, p[2])
  BY <1>1 DEF Walk
<1> QED
  BY <1>1, <1>2, <1>3, <1>4 DEF Opened, DirAt, ParentDir, RootPath

LEMMA LeadsNext == GroupLeads'
  BY Leads, PTL

\* What the daemon knows of the root of a set that nothing excuses: it is watched, and still
\* where it was unless it has been deleted.
RootFacts(p) ==
    LET r == fd[RootPath]
    IN  /\ r \in Dirs /\ r \in watched /\ label[r] = "root"
        /\ r \in live => DirAt(p) = Opened(p) /\ DirAt(Front(p)) = Opened(Front(p))
        /\ r \notin live => Opened(p) = None /\ (Len(p) = 3 => Opened(Front(p)) = None)
        /\ Opened(p) \in live \cup {None}
        /\ Len(p) = 3 => Opened(Front(p)) \in live \cup {None}

LEMMA RootHeld ==
    WatchBase /\ fd[RootPath] # None => \A p \in SetGroups : Excused(p) \/ RootFacts(p)
<1> SUFFICES ASSUME WatchBase, fd[RootPath] # None, NEW p \in SetGroups, ~Excused(p)
             PROVE  RootFacts(p)
  OBVIOUS
<1> USE DEF WatchBase, TypeInv
<1>1. /\ p \in Paths /\ Len(p) \in 2 .. 3 /\ Front(p) \in Paths /\ Last(p) \in Names
      /\ Head(p) = "root" /\ Head(Front(p)) = "root" /\ "root" \in Tops
      /\ RootPath = <<"root">> /\ RootPath \in Paths /\ p[2] \in Names
  BY GroupPath, TopPath DEF RootPath
<1>2. fd[RootPath] \in Dirs /\ None \notin Dirs
  BY <1>1, WatchAssumption DEF TypeOK
<1>3. RootPath \notin degraded \cup unseen
  BY <1>1 DEF Excused, GivenUp
<1>4. fd[RootPath] \in watched /\ label[fd[RootPath]] = "root"
  BY <1>1, <1>2, <1>3 DEF TopInv, LabelInv
<1>5. fd[RootPath] \in live => top["root"] = fd[RootPath]
  <2> SUFFICES ASSUME fd[RootPath] \in live, top["root"] # fd[RootPath] PROVE FALSE
    OBVIOUS
  <2>1. ~dropped
    BY DEF Excused
  <2>2. SelfChange(fd[RootPath]) \in queue
    BY <1>1, <1>3, <2>1 DEF TopInv, LossInv
  <2>3. Losing("root")
    BY <1>4, <2>2 DEF Losing, SelfChange
  <2> QED
    BY <2>3 DEF Excused
<1>6. fd[RootPath] \in live =>
        DirAt(p) = Opened(p) /\ DirAt(Front(p)) = Opened(Front(p))
  BY <1>1, <1>5 DEF DirAt, Opened
<1>7. fd[RootPath] \notin live => Opened(p) = None /\ (Len(p) = 3 => Opened(Front(p)) = None)
  <2> SUFFICES ASSUME fd[RootPath] \notin live
               PROVE  Opened(p) = None /\ (Len(p) = 3 => Opened(Front(p)) = None)
    OBVIOUS
  <2>1. \A n \in Names : child[fd[RootPath]][n] = None
    BY <1>2 DEF TopInv, Tree
  <2>2. Below(fd[RootPath], p[2]) = None
    BY <1>1, <1>2, <2>1 DEF Below
  <2>3. /\ Opened(p) = Below(Opened(Front(p)), Last(p))
        /\ Len(p) = 2 => Opened(Front(p)) = fd[RootPath] /\ p[2] = Last(p)
        /\ Len(p) = 3 => Opened(Front(p)) = Below(fd[RootPath], p[2])
    BY Leads DEF GroupLeads
  <2> QED
    BY <1>1, <2>2, <2>3 DEF Below
<1>8. DirAt(p) \in live \cup {None} /\ DirAt(Front(p)) \in live \cup {None}
  BY <1>1, DirAtLive DEF TopInv
<1>9. Opened(p) \in live \cup {None} /\ (Len(p) = 3 => Opened(Front(p)) \in live \cup {None})
  BY <1>6, <1>7, <1>8
<1> QED
  BY <1>2, <1>4, <1>6, <1>7, <1>9 DEF RootFacts

LEMMA RootHeldNext ==
    (WatchBase /\ fd[RootPath] # None => \A p \in SetGroups : Excused(p) \/ RootFacts(p))'
  BY RootHeld, PTL

\* No two paths lead to one directory: here, to a place in a first-level directory.
LEMMA PathsApart ==
    ASSUME TypeOK, Tree, NEW p \in SetGroups, Len(p) = 3, NEW q \in Paths, Len(q) # 1,
           ParentDir(q) = ParentDir(p), ParentDir(p) # None, Last(q) = Last(p)
    PROVE  q = p
<1>1. /\ p \in Paths /\ p[2] \in Names /\ "root" \in Tops
      /\ ParentDir(p) = Below(top["root"], p[2])
  BY GroupPath, Leads DEF GroupLeads
<1>2. top["root"] \in Dirs /\ child[top["root"]][p[2]] = ParentDir(p)
  BY <1>1 DEF Below, TypeOK
<1>3. Len(q) \in 2 .. 3 /\ Len(Front(q)) = Len(q) - 1 /\ Head(Front(q)) = "root"
  <2>1. Len(q) \in 2 .. 3 /\ Len(Front(q)) = Len(q) - 1 /\ Head(Front(q)) = Head(q)
    BY WalkStep
  <2>2. Len(q) > 1
    BY <2>1
  <2> QED
    BY <2>1, <2>2, PathShape
<1>4. ASSUME Len(q) = 2 PROVE FALSE
  <2>1. ParentDir(q) = top["root"]
    BY <1>3, <1>4 DEF ParentDir, DirAt, Walk
  <2> QED
    BY <1>1, <1>2, <2>1 DEF Tree
<1>5. Len(q) = 3
  BY <1>3, <1>4
<1>6. ASSUME NEW s \in Paths, Len(s) = 3 PROVE s \in Levels(2) /\ s \in SetGroups
  <2>0. Len(s) > 1
    BY <1>6
  <2>1. s \notin TopPaths
    BY <2>0, PathShape
  <2>2. s \notin Levels(1)
    BY <1>6, LevelPaths
  <2> QED
    BY <2>1, <2>2, PathKinds
<1>7. q \in Levels(2) /\ p \in Levels(2) /\ q \in SetGroups
  BY <1>1, <1>5, <1>6
<1>8. q[2] \in Names /\ child[top["root"]][q[2]] = ParentDir(p)
  BY <1>2, <1>5, <1>7, GroupPath, Leads DEF GroupLeads, Below
<1>9. q[2] = p[2]
  BY <1>1, <1>2, <1>8 DEF Tree
<1>10. /\ p \in Seq(Names \cup {"root"}) /\ p[1] = "root" /\ Last(p) = p[3]
       /\ q \in Seq(Names \cup {"root"}) /\ q[1] = "root" /\ Last(q) = q[3]
  BY <1>5, <1>7, LevelPaths DEF Last
<1>11. \A i \in 1 .. Len(p) : p[i] = q[i]
  BY <1>9, <1>10
<1> QED
  BY <1>5, <1>10, <1>11, SeqEqual

\* Others never change what is in a directory, or its files, without a notice to whoever
\* watches it.
LEMMA ChildTold ==
    ASSUME TypeInv, Next \/ UNCHANGED vars, NEW d \in Dirs, NEW n \in Names,
           child'[d][n] # child[d][n]
    PROVE  /\ d \in watched => overflow' \/ Change(d) \in queue'
           /\ \E q \in Paths : /\ Len(q) # 1 /\ ParentDir(q) = d /\ Last(q) = n
                               /\ Unnoticed(q) => q \in unseen'
           /\ Others
<1>1. ASSUME NEW p \in Paths, NEW e \in Places, Place(p, e), Reachable(p)
      PROVE  /\ Len(p) # 1 /\ ParentDir(p) = d /\ Last(p) = n
             /\ Unnoticed(p) => p \in unseen'
  <2>1. Unnoticed(p) => p \in unseen'
    BY <1>1 DEF Place
  <2> QED
    BY <1>1, <2>1, Placed DEF TypeInv
<1>2. ASSUME NEW p \in Paths, NEW E, ParentDir(p) = d, Report({Change(ParentDir(p))} \cup E)
      PROVE  d \in watched => overflow' \/ Change(d) \in queue'
  <2>1. Change(d).wd = d
    BY DEF Change
  <2> QED
    BY <1>2, <2>1, Reported
<1>3. ASSUME NEW p \in Paths, NEW e \in Dirs, MakeDir(p, e)
      PROVE  /\ Reachable(p) /\ Place(p, e) /\ e \in Places /\ Others
             /\ Report({Change(ParentDir(p))} \cup {})
  BY <1>3 DEF MakeDir, Places
<1>4. ASSUME NEW p \in Paths, RemoveDir(p)
      PROVE  /\ Reachable(p) /\ Place(p, None) /\ None \in Places /\ Others
             /\ Report({Change(ParentDir(p))} \cup {})
  BY <1>4, PresentReachable DEF RemoveDir, Places, TypeInv
<1>5. ASSUME NEW p \in Paths, MoveOut(p)
      PROVE  /\ Reachable(p) /\ Place(p, None) /\ None \in Places /\ Others
             /\ Report({Change(ParentDir(p))} \cup {SelfChange(DirAt(p))})
  <2>1. {Change(ParentDir(p)), SelfChange(DirAt(p))}
          = {Change(ParentDir(p))} \cup {SelfChange(DirAt(p))}
    OBVIOUS
  <2> QED
    BY <1>5, <2>1, PresentReachable DEF MoveOut, Places, TypeInv
<1>6. ASSUME NEW p \in Paths, NEW e \in Dirs, MoveIn(p, e)
      PROVE  /\ Reachable(p) /\ Place(p, e) /\ e \in Places /\ Others
             /\ Report({Change(ParentDir(p))} \cup {SelfChange(e)})
  <2>1. {Change(ParentDir(p)), SelfChange(e)} = {Change(ParentDir(p))} \cup {SelfChange(e)}
    OBVIOUS
  <2> QED
    BY <1>6, <2>1 DEF MoveIn, Places
<1>7. \/ \E p \in Paths : RemoveDir(p) \/ MoveOut(p)
      \/ \E p \in Paths, e \in Dirs : MakeDir(p, e) \/ MoveIn(p, e)
  BY DEF Next, Environment, Daemon, ChangeMember, Stop, Reload, Open, Start, WatchAndSwap,
         WatchFails, HandleInotify, PassDue, ResyncDue, Discover, Sync, Finish, ScanLevel, Scan,
         tree, vars
<1> QED
  BY <1>1, <1>2, <1>3, <1>4, <1>5, <1>6, <1>7

LEMMA MemberTold ==
    ASSUME TypeInv, Next \/ UNCHANGED vars, NEW d \in Dirs, member'[d] # member[d]
    PROVE  (d \in watched => overflow' \/ Change(d) \in queue') /\ Others
<1>1. PICK e \in Dirs, m \in Members : ChangeMember(e, m)
  BY DEF Next, Environment, Daemon, MakeDir, RemoveDir, MoveOut, MoveIn, Stop, Reload, Open, Start,
         WatchAndSwap, WatchFails, HandleInotify, PassDue, ResyncDue, Discover, Sync, Finish,
         ScanLevel, Scan, tree, vars
<1>2. e = d
  BY <1>1 DEF ChangeMember, TypeInv, TypeOK
<1>3. Report({Change(d)}) /\ Change(d).wd = d /\ Others
  BY <1>1, <1>2 DEF ChangeMember, Change
<1> QED
  BY <1>3, Reported

LEMMA Telling == \A d : label[d] # None /\ Change(d) \in queue => Noticed
<1> SUFFICES ASSUME NEW d, label[d] # None, Change(d) \in queue PROVE Noticed
  OBVIOUS
<1>1. Change(d).wd = d /\ Change(d).self = FALSE
  BY DEF Change
<1> QED
  BY <1>1 DEF Noticed

LEMMA TellingNext == (\A d : label[d] # None /\ Change(d) \in queue => Noticed)'
  BY Telling, PTL

\* What was noticed stays so until the events are read.
LEMMA AskedStays ==
    ASSUME Asked, queue \subseteq queue', overflow => overflow', UNCHANGED <<label, pending>>
    PROVE  Asked'
  BY DEF Asked, Noticed

LEMMA UnseenStays ==
    ASSUME Next \/ UNCHANGED vars, ~Stop, ~WatchAndSwap, ~Discover PROVE unseen \subseteq unseen'
  BY DEF Next, Environment, Daemon, ChangeMember, MakeDir, RemoveDir, MoveOut, MoveIn, Place, Reload,
         Open, Start, WatchFails, HandleInotify, PassDue, ResyncDue, Sync, Finish, ScanLevel, Scan,
         inotify, vars

LEMMA DroppedStays ==
    ASSUME TypeInv, Next \/ UNCHANGED vars, ~Stop, ~WatchAndSwap PROVE dropped => dropped'
<1>1. CASE HandleInotify \/ Sync
  BY <1>1 DEF HandleInotify, Sync
<1>2. CASE ReportStep
  BY <1>2, Reported DEF ReportStep
<1> QED
  BY <1>1, <1>2, StepKinds

\* Until the next pass, what is excused stays so, or events are dropped.
LEMMA ExcusedStays ==
    ASSUME WatchBase, Next \/ UNCHANGED vars, ~Stop, ~WatchAndSwap, ~Discover,
           NEW p \in Groups, Excused(p), \A t \in Tops : fd[<<t>>] # None
    PROVE  Excused(p)' \/ overflow'
<1> USE DEF WatchBase
<1>1. /\ \A t \in Tops : fd'[<<t>>] = fd[<<t>>]
      /\ degraded \subseteq degraded'
      /\ unseen \subseteq unseen'
  BY TopsHeld, UnseenStays
<1>2. CASE GivenUp(p) \/ p \in unseen \/ <<Head(p)>> \in unseen
  BY <1>1, <1>2 DEF Excused, GivenUp
<1>3. ASSUME p \in SetGroups PROVE Head(p) = "root" /\ "root" \in Tops /\ RootPath = <<"root">>
  BY <1>3, SetPaths DEF RootPath
<1>4. ASSUME p \in SetGroups, Losing("root") PROVE Excused(p)' \/ overflow'
  <2>1. PICK e \in queue : e.self /\ label[e.wd] = "root"
    BY <1>4 DEF Losing
  <2>2. e.wd \in Dirs /\ "set" # "root" /\ None # "root"
    BY WatchAssumption DEF TypeInv, TypeOK
  <2>3. CASE HandleInotify
    <3>1. RootPath \in degraded'
      BY <1>3, <1>4, <2>1, <2>3 DEF HandleInotify
    <3> QED
      BY <1>3, <1>4, <3>1 DEF Excused, GivenUp
  <2>4. CASE Sync
    <3>1. e \in queue' /\ label'[e.wd] = "root"
      BY <2>1, <2>2, <2>4 DEF Sync
    <3> QED
      BY <1>4, <2>1, <3>1 DEF Excused, Losing
  <2>5. CASE UNCHANGED label /\ (ReportStep \/ UNCHANGED <<watched, queue, overflow, dropped>>)
    <3>1. queue \subseteq queue'
      BY <2>5, Reported DEF ReportStep
    <3> QED
      BY <1>4, <2>1, <2>5, <3>1 DEF Excused, Losing
  <2> QED
    BY <2>3, <2>4, <2>5, StepKinds
<1>5. ASSUME p \in SetGroups, dropped, top["root"] # fd[RootPath]
      PROVE  Excused(p)' \/ overflow'
  <2>1. dropped' /\ fd'[RootPath] = fd[RootPath] /\ fd[RootPath] # None
    BY <1>1, <1>3, <1>5, DroppedStays
  <2>2. CASE top'["root"] # fd[RootPath]
    BY <1>5, <2>1, <2>2 DEF Excused
  <2>3. CASE top'["root"] = fd[RootPath]
    <3>1. "root" \in Tops /\ top'["root"] # top["root"] /\ top'["root"] # None
      BY <1>3, <1>5, <2>1, <2>3
    <3>2. ASSUME NEW q \in Paths, NEW d \in Places, Place(q, d), Reachable(q)
          PROVE  d = fd[RootPath]
      BY <2>3, <3>1, <3>2, Placed DEF TypeInv
    <3>3. ASSUME NEW q \in Paths, RemoveDir(q) \/ MoveOut(q) PROVE FALSE
      BY <2>1, <3>2, <3>3, PresentReachable DEF RemoveDir, MoveOut, Places, TypeInv
    <3>4. ASSUME NEW q \in Paths, NEW d \in Dirs, MakeDir(q, d) PROVE FALSE
      <4>1. d = fd[RootPath] /\ d \notin Held
        BY <3>2, <3>4 DEF MakeDir, Unused, Places
      <4> QED
        BY <1>3, <1>5, <3>1, <4>1, HeldTop
    <3>5. PICK q \in Paths, d \in Dirs : MoveIn(q, d)
      BY <3>1, <3>3, <3>4 DEF Next, Environment, Daemon, ChangeMember, Reload, Open, Start,
         WatchFails, HandleInotify, PassDue, ResyncDue, Discover, Sync, Finish, ScanLevel, Scan,
         tree, vars
    <3>6. d = fd[RootPath] /\ Report({Change(ParentDir(q)), SelfChange(d)}) /\ label' = label
      BY <3>2, <3>5 DEF MoveIn, Places, Others, watcher
    <3>7. CASE <<"root">> \in degraded \cup unseen
      BY <1>1, <1>3, <1>5, <3>7 DEF Excused, GivenUp
    <3>8. CASE <<"root">> \notin degraded \cup unseen
      <4>1. d \in watched /\ label[d] = "root"
        BY <1>3, <1>5, <2>1, <3>1, <3>6, <3>8 DEF TopInv, LabelInv
      <4>2. SelfChange(d).wd = d /\ SelfChange(d).self
        BY DEF SelfChange
      <4>3. SelfChange(d) \in queue' \/ overflow'
        BY <3>6, <4>1, <4>2, Reported
      <4> QED
        BY <1>5, <3>6, <4>1, <4>2, <4>3 DEF Excused, Losing
    <3> QED
      BY <3>7, <3>8
  <2> QED
    BY <2>2, <2>3
<1> QED
  BY <1>2, <1>4, <1>5 DEF Excused

\* While the daemon looks elsewhere, nothing happens to a group that is followed without
\* a notice.
LEMMA SetSteady ==
    ASSUME WatchBase, WatchBase', Next \/ UNCHANGED vars, UNCHANGED <<fd, label>>,
           ReportStep, NEW p \in SetGroups, fd[RootPath] # None,
           ~Asked', ~Excused(p)', ~Excused(p)
    PROVE  /\ Opened(Front(p))' = Opened(Front(p))
           /\ Orphan(Opened(Front(p))) => Orphan(Opened(Front(p)))'
           /\ Heard(Opened(Front(p))) =>
                /\ Heard(Opened(Front(p)))'
                /\ Opened(p)' = Opened(p)
                /\ Orphan(Opened(p)) => Orphan(Opened(p))'
                /\ Heard(Opened(p)) => Heard(Opened(p))' /\ MembersOf(p)' = MembersOf(p)
<1> USE DEF WatchBase
<1>1. /\ "root" \in Tops /\ Len(p) \in 2 .. 3 /\ p[2] \in Names /\ Last(p) \in Names
      /\ None \notin Dirs /\ p \in Paths /\ Front(p) \in Paths /\ TypeOK /\ TypeOK'
  BY GroupPath, WatchAssumption DEF TypeInv
<1>2. RootFacts(p) /\ RootFacts(p)'
  BY RootHeld, RootHeldNext
<1>3. ~overflow' /\ \A d : label[d] # None => Change(d) \notin queue'
  BY TellingNext DEF Asked, Noticed
<1>4. ASSUME NEW d \in Dirs, d \in watched, label[d] # None
      PROVE  member'[d] = member[d] /\ \A n \in Names : child'[d][n] = child[d][n]
  BY <1>3, <1>4, ChildTold, MemberTold
<1>5. \A d \in watched : d \in live' => d \in watched'
  BY Reported DEF ReportStep
<1>6. /\ Opened(p) = Below(Opened(Front(p)), Last(p))
      /\ Len(p) = 2 => Opened(Front(p)) = fd[RootPath]
      /\ Len(p) = 3 => Opened(Front(p)) = Below(fd[RootPath], p[2])
      /\ Opened(p)' = Below(Opened(Front(p)), Last(p))'
      /\ Len(p) = 2 => Opened(Front(p))' = fd[RootPath]
      /\ Len(p) = 3 => Opened(Front(p))' = Below(fd[RootPath], p[2])'
  BY Leads, LeadsNext DEF GroupLeads
<1>7. ASSUME NEW d, Heard(d), d \in Dirs \cup {None}, NEW n \in Names
      PROVE  Below(d, n)' = Below(d, n)
  BY <1>4, <1>7 DEF Heard, Below
<1>8. Opened(Front(p))' = Opened(Front(p))
  <2>1. Heard(fd[RootPath]) /\ fd[RootPath] \in Dirs
    BY <1>2, WatchAssumption DEF RootFacts, Heard
  <2> QED
    BY <1>1, <1>4, <1>6, <2>1 DEF Below, Heard
<1>9. ASSUME Opened(Front(p)) \in watched PROVE Opened(Front(p)) \in watched'
  BY <1>1, <1>2, <1>5, <1>6, <1>8, <1>9 DEF RootFacts, TypeOK
<1>10. ASSUME Heard(Opened(Front(p))) PROVE Opened(p)' = Opened(p)
  <2>1. Opened(Front(p)) \in Dirs \cup {None}
    BY <1>10 DEF Heard, TypeInv, TypeOK
  <2> QED
    BY <1>1, <1>4, <1>6, <1>8, <1>10, <2>1 DEF Below, Heard
<1>11. ASSUME Heard(Opened(Front(p))), Opened(p) \in watched PROVE Opened(p) \in watched'
  BY <1>1, <1>2, <1>5, <1>10, <1>11 DEF RootFacts, TypeOK
<1>12. ASSUME Heard(Opened(Front(p))), Heard(Opened(p)) PROVE MembersOf(p)' = MembersOf(p)
  <2>1. Opened(p) \in Dirs \cup {None}
    BY <1>12 DEF Heard, TypeInv, TypeOK
  <2> QED
    BY <1>4, <1>10, <1>12, <2>1 DEF MembersOf, Heard
<1> QED
  BY <1>8, <1>9, <1>10, <1>11, <1>12 DEF Heard, Orphan

LEMMA TopsOpen ==
    TypeInv /\ (Running \/ pc \in {"discover", "level", "scan", "wait"}) =>
        \A t \in Tops : fd[<<t>>] # None /\ fd[<<t>>] \in Dirs
<1> SUFFICES ASSUME TypeInv, Running \/ pc \in {"discover", "level", "scan", "wait"}, NEW t \in Tops
             PROVE  fd[<<t>>] # None /\ fd[<<t>>] \in Dirs
  OBVIOUS
<1>1. \A p \in TopPaths : fd[p] \in Dirs
  BY DEF TypeInv, Opens, Running
<1> QED
  BY <1>1, TopPath, WatchAssumption

LEMMA OfTop == \A t \in Tops : Opened(<<t>>) = fd[<<t>>]
  BY TopPath DEF Opened, Walk

LEMMA OfTopNext == (\A t \in Tops : Opened(<<t>>) = fd[<<t>>])'
  BY OfTop, PTL

\* A group that is not of the set is a configured directory.
LEMMA Static == \A p \in Groups : p \notin SetGroups => Head(p) \in Tops /\ p = <<Head(p)>>
  BY TopPath DEF Groups, TopPaths

\* Whoever reports leaves the daemon's own variables alone.
Apart == ReportStep /\ UNCHANGED <<fd, label, degraded, pending, view, pass>>

LEMMA StaticSteady ==
    ASSUME WatchBase, Next \/ UNCHANGED vars, Apart, NEW p \in Groups, p \notin SetGroups,
           \A t \in Tops : fd[<<t>>] # None, ~Excused(p), ~Asked'
    PROVE  member'[fd[p]] = member[fd[p]] /\ MembersOf(p) = member[fd[p]]
           /\ MembersOf(p)' = member'[fd[p]] /\ fd[p] \in Dirs
<1> USE DEF WatchBase
<1>1. p = <<Head(p)>> /\ Head(p) \in Tops /\ p \notin degraded \cup unseen
  BY Static DEF Excused, GivenUp
<1>2. fd[p] # None /\ fd'[p] = fd[p]
  BY <1>1 DEF Apart
<1>3. fd[p] \in watched /\ label[fd[p]] = Head(p)
  BY <1>1, <1>2 DEF TopInv, LabelInv
<1>4. fd[p] \in Dirs /\ label'[fd[p]] # None
  BY <1>1, <1>3, WatchAssumption DEF TypeInv, TypeOK, Apart
<1>5. Change(fd[p]) \notin queue' /\ ~overflow'
  BY <1>4, TellingNext DEF Asked, Noticed
<1>6. member'[fd[p]] = member[fd[p]]
  BY <1>3, <1>4, <1>5, MemberTold
<1>7. Opened(p) = fd[p] /\ Opened(p)' = fd[p]
  BY <1>1, <1>2, OfTop, OfTopNext
<1> QED
  BY <1>2, <1>4, <1>6, <1>7 DEF MembersOf

LEMMA ApartAsked == ASSUME Apart, Asked PROVE Asked'
<1>1. queue \subseteq queue' /\ (overflow => overflow')
  BY Reported DEF Apart, ReportStep
<1> QED
  BY <1>1, AskedStays DEF Apart

LEMMA WaitStays ==
    ASSUME WatchBase, WatchBase', Next \/ UNCHANGED vars, ~Stop, ~WatchAndSwap, ~Discover, Apart,
           \A t \in Tops : fd[<<t>>] # None, NEW p \in Groups, WaitOwes(p)
    PROVE  WaitOwes(p)'
<1> SUFFICES ASSUME ~Asked', ~Excused(p)' PROVE WaitOwes(p)'
  BY DEF WaitOwes
<1>1. ~Asked /\ ~Excused(p)
  <2>1. ~overflow'
    BY DEF Asked, Noticed
  <2> QED
    BY <2>1, ApartAsked, ExcusedStays
<1>2. CASE p \in SetGroups
  <2>1. fd[RootPath] # None
    BY <1>2, GroupPath DEF RootPath
  <2>2. /\ Opened(Front(p))' = Opened(Front(p))
        /\ Orphan(Opened(Front(p))) => Orphan(Opened(Front(p)))'
        /\ Heard(Opened(Front(p))) =>
             /\ Heard(Opened(Front(p)))'
             /\ Opened(p)' = Opened(p)
             /\ Orphan(Opened(p)) => Orphan(Opened(p))'
             /\ Heard(Opened(p)) => Heard(Opened(p))' /\ MembersOf(p)' = MembersOf(p)
    BY <1>1, <1>2, <2>1, SetSteady DEF Apart
  <2>3. CASE Orphan(Opened(Front(p)))
    BY <1>2, <2>2, <2>3 DEF WaitOwes
  <2>4. CASE Heard(Opened(Front(p))) /\ Orphan(Opened(p))
    BY <1>2, <2>2, <2>4 DEF WaitOwes
  <2>5. CASE Heard(Opened(Front(p))) /\ Heard(Opened(p)) /\ view[p] = MembersOf(p)
    <3>1. view'[p] = MembersOf(p)'
      BY <2>2, <2>5 DEF Apart
    <3> QED
      BY <2>2, <2>5, <3>1 DEF WaitOwes
  <2> QED
    BY <1>1, <1>2, <2>3, <2>4, <2>5 DEF WaitOwes
<1>3. CASE p \notin SetGroups
  <2>1. MembersOf(p)' = MembersOf(p)
    BY <1>1, <1>3, StaticSteady
  <2> QED
    BY <1>1, <1>3, <2>1 DEF WaitOwes, Apart
<1> QED
  BY <1>2, <1>3

LEMMA ScanStays ==
    ASSUME WatchBase, WatchBase', Next \/ UNCHANGED vars, ~Stop, ~WatchAndSwap, ~Discover, Apart,
           \A t \in Tops : fd[<<t>>] # None, NEW p \in Groups, ScanOwes(p)
    PROVE  ScanOwes(p)'
<1> SUFFICES ASSUME ~Asked', ~Excused(p)', p \notin frozen PROVE ScanOwes(p)'
  BY DEF ScanOwes, Apart, pass
<1>1. ~Asked /\ ~Excused(p)
  <2>1. ~overflow'
    BY DEF Asked, Noticed
  <2> QED
    BY <2>1, ApartAsked, ExcusedStays
<1>2. UNCHANGED <<fd, todo, found>>
  BY DEF Apart, pass
<1>3. CASE p \in SetGroups
  <2>1. fd[RootPath] # None
    BY <1>3, GroupPath DEF RootPath
  <2>2. fd[p] = Opened(p) /\ Heard(Opened(p)) /\ Heard(Opened(Front(p)))
    BY <1>1, <1>3 DEF ScanOwes
  <2>3. /\ Heard(Opened(Front(p)))' /\ Opened(p)' = Opened(p)
        /\ Heard(Opened(p))' /\ MembersOf(p)' = MembersOf(p)
    BY <1>1, <1>3, <2>1, <2>2, SetSteady DEF Apart
  <2>4. fd[p] # None => member'[fd[p]] = member[fd[p]]
    BY <2>2, <2>3 DEF MembersOf
  <2> QED
    BY <1>1, <1>2, <1>3, <2>2, <2>3, <2>4 DEF ScanOwes
<1>4. CASE p \notin SetGroups
  <2>1. member'[fd[p]] = member[fd[p]]
    BY <1>1, <1>4, StaticSteady
  <2> QED
    BY <1>1, <1>2, <1>4, <2>1 DEF ScanOwes
<1> QED
  BY <1>3, <1>4

LEMMA LevelStays ==
    ASSUME WatchBase, WatchBase', Next \/ UNCHANGED vars, ~Stop, ~WatchAndSwap, ~Discover, Apart,
           pc = "level", NEW p \in SetGroups, LevelOwes(p)
    PROVE  LevelOwes(p)'
<1> USE DEF WatchBase
<1> SUFFICES ASSUME ~overflow', ~Excused(p)', p \notin frozen, Change(fd[RootPath]) \notin queue'
             PROVE  Located(p)'
  BY DEF LevelOwes, Apart, pass
<1>1. UNCHANGED <<fd, todo, inter>>
  BY DEF Apart, pass
<1>2. queue \subseteq queue' /\ (overflow => overflow')
  BY Reported DEF Apart, ReportStep
<1>3. \A t \in Tops : fd[<<t>>] # None
  BY TopsOpen
<1>4. /\ "root" \in Tops /\ Len(p) \in 2 .. 3 /\ p[2] \in Names /\ Last(p) \in Names
      /\ None \notin Dirs /\ p \in Paths /\ fd[RootPath] # None /\ p \in Groups
  BY <1>3, GroupPath, WatchAssumption DEF RootPath, Groups
<1>5. ~Excused(p)
  BY <1>3, <1>4, ExcusedStays
<1>6. Located(p)
  BY <1>2, <1>5 DEF LevelOwes
<1>7. RootFacts(p) /\ RootFacts(p)'
  BY <1>1, <1>4, <1>5, RootHeld, RootHeldNext
<1>8. \A n \in Names : child'[fd[RootPath]][n] = child[fd[RootPath]][n]
  BY <1>7, ChildTold DEF RootFacts
<1>9. /\ Opened(p) = Below(Opened(Front(p)), Last(p))
      /\ Len(p) = 2 => Opened(Front(p)) = fd[RootPath]
      /\ Len(p) = 3 => Opened(Front(p)) = Below(fd[RootPath], p[2])
      /\ Opened(p)' = Below(Opened(Front(p)), Last(p))'
      /\ Len(p) = 2 => Opened(Front(p))' = fd[RootPath]
      /\ Len(p) = 3 => Opened(Front(p))' = Below(fd[RootPath], p[2])'
      /\ ParentDir(p) = DirAt(Front(p))
  BY <1>1, Leads, LeadsNext DEF GroupLeads
<1>10. Opened(Front(p))' = Opened(Front(p))
  BY <1>1, <1>4, <1>8, <1>9 DEF Below
<1>11. CASE Len(p) = 2
  BY <1>1, <1>4, <1>6, <1>8, <1>9, <1>11 DEF Located, Below
<1>12. CASE Len(p) = 3
  <2>1. ASSUME Front(p) \in inter, fd[p] = Opened(p), Change(Opened(Front(p))) \notin queue'
        PROVE  Opened(p)' = Opened(p)
    <3>1. CASE Opened(Front(p)) = None
      BY <1>9, <1>10, <3>1 DEF Below
    <3>2. CASE Opened(Front(p)) # None
      <4> DEFINE d == Opened(Front(p))
      <4>1. d \in Dirs /\ d = DirAt(Front(p))
        BY <1>7, <1>12, <3>2 DEF RootFacts, TypeInv, TypeOK
      <4>2. ASSUME child'[d][Last(p)] # child[d][Last(p)] PROVE FALSE
        <5>1. d \notin watched
          BY <1>4, <2>1, <4>1, <4>2, ChildTold
        <5>2. PICK q \in Paths : /\ Len(q) # 1 /\ ParentDir(q) = d /\ Last(q) = Last(p)
                                 /\ Unnoticed(q) => q \in unseen'
          BY <1>4, <4>1, <4>2, ChildTold
        <5>3. q = p
          BY <1>9, <1>12, <3>2, <4>1, <5>2, PathsApart DEF TypeInv, TopInv
        <5>4. Unnoticed(p)
          BY <1>12, <2>1, <4>1, <5>1 DEF Unnoticed
        <5> QED
          BY <5>2, <5>3, <5>4 DEF Excused
      <4> QED
        BY <1>9, <1>10, <3>2, <4>2 DEF Below
    <3> QED
      BY <3>1, <3>2
  <2>2. Front(p) \in todo => fd[Front(p)] = Opened(Front(p))
    BY <1>6, <1>12 DEF Located
  <2>3. Front(p) \in inter => fd[p] = Opened(p) \/ Change(Opened(Front(p))) \in queue
    BY <1>6, <1>12 DEF Located
  <2>4. Front(p) \notin todo \cup inter => Opened(Front(p)) = None /\ fd[p] = None
    BY <1>6, <1>12 DEF Located
  <2>5. Front(p) \in inter => fd[p] = Opened(p)' \/ Change(Opened(Front(p))) \in queue'
    BY <1>2, <2>1, <2>3
  <2>6. Change(Opened(Front(p)))' = Change(Opened(Front(p)))
    BY <1>10 DEF Change
  <2> QED
    BY <1>1, <1>10, <1>12, <2>2, <2>4, <2>5, <2>6 DEF Located
<1> QED
  BY <1>4, <1>11, <1>12

LEMMA InotifyOwes ==
    ASSUME WatchBase, HandleInotify, NEW p \in Groups, WaitOwes(p) PROVE WaitOwes(p)'
<1> DEFINE losses == {t \in Tops : \E e \in queue : e.self /\ label[e.wd] = t}
<1>1. /\ pc = "wait" /\ UNCHANGED <<tree, watched, fd, view>> /\ overflow' = FALSE
      /\ label' = [d \in Dirs |-> IF label[d] \in losses THEN None ELSE label[d]]
  BY DEF HandleInotify, runtime
<1> HIDE DEF losses
<1>2. CASE Asked
  <2>1. pending' = TRUE
    BY <1>2 DEF HandleInotify, Asked, Noticed
  <2> QED
    BY <2>1 DEF WaitOwes, Asked
<1>3. CASE Excused(p)
  <2>1. Next /\ ~Stop /\ ~WatchAndSwap /\ ~Discover
    BY <1>1 DEF Next, Daemon, HandleInotify, Stop, WatchAndSwap, Discover
  <2>2. \A t \in Tops : fd[<<t>>] # None
    BY <1>1, TopsOpen DEF WatchBase
  <2> QED
    BY <1>1, <1>3, <2>1, <2>2, ExcusedStays DEF WaitOwes
<1>4. /\ Opened(p)' = Opened(p) /\ Opened(Front(p))' = Opened(Front(p))
      /\ MembersOf(p)' = MembersOf(p)
  BY <1>1 DEF Opened, Walk, Below, MembersOf, tree
<1>5. \A d \in watched : label'[d] = label[d] \/ label'[d] = None
  BY <1>1 DEF WatchBase, TypeInv, TypeOK
<1>6. \A d : (Heard(d) => Heard(d)' \/ Orphan(d)') /\ (Orphan(d) => Orphan(d)')
  BY <1>1, <1>5 DEF Heard, Orphan
<1>7. /\ Heard(Opened(p)) => Heard(Opened(p))' \/ Orphan(Opened(p))'
      /\ Heard(Opened(Front(p))) => Heard(Opened(Front(p)))' \/ Orphan(Opened(Front(p)))'
      /\ Orphan(Opened(p)) => Orphan(Opened(p))'
      /\ Orphan(Opened(Front(p))) => Orphan(Opened(Front(p)))'
  BY <1>4, <1>6 DEF Heard, Orphan
<1> QED
  BY <1>1, <1>2, <1>3, <1>4, <1>7 DEF WaitOwes

LEMMA DiscoverOwes ==
    ASSUME WatchBase, WatchBase', Discover, NEW p \in SetGroups PROVE LevelOwes(p)'
<1> SUFFICES ASSUME ~Excused(p)', p \notin frozen' PROVE Located(p)'
  BY DEF LevelOwes
<1>1. /\ p \in Paths /\ Len(p) \in 2 .. 3 /\ p \notin TopPaths /\ Front(p) \in Paths
      /\ "root" \in Tops /\ RootPath \in TopPaths /\ RootPath = <<"root">> /\ p[2] \in Names
      /\ Len(p) = 2 => p[2] = Last(p)
      /\ Len(p) = 3 => /\ Front(p) \in Intermediates /\ Front(p)[2] = p[2] /\ Len(Front(p)) = 2
                       /\ Front(p) \notin TopPaths
  BY GroupPath, SetPaths DEF RootPath
<1>2. pc = "discover" /\ UNCHANGED tree
  BY DEF Discover
<1>3. fd[RootPath] # None /\ fd'[RootPath] = fd[RootPath]
  <2>1. RootPath \in Paths
    BY <1>1 DEF Paths
  <2>2. fd'[RootPath] = fd[RootPath]
    BY <1>1, <2>1 DEF Discover
  <2> QED
    BY <1>1, <1>2, <2>2, TopsOpen DEF WatchBase
<1>4. /\ \A q \in Paths : q \notin TopPaths =>
           fd'[q] = IF Len(q) > 2 THEN None ELSE child[fd[RootPath]][q[2]]
      /\ todo' = {q \in Intermediates : fd'[q] # None} /\ inter' = {}
  BY <1>1 DEF Discover
<1>5. /\ Opened(p)' = Below(Opened(Front(p)), Last(p))'
      /\ Len(p) = 2 => Opened(Front(p))' = fd'[RootPath]
      /\ Len(p) = 3 => Opened(Front(p))' = Below(fd[RootPath], p[2])'
  BY LeadsNext DEF GroupLeads
<1>6. Below(fd[RootPath], p[2])' = child[fd[RootPath]][p[2]]
  BY <1>2, <1>3 DEF Below, tree
<1>7. CASE Len(p) = 2
  <2>1. Opened(p)' = Below(fd[RootPath], p[2])'
    BY <1>1, <1>3, <1>5, <1>7 DEF Below
  <2>2. fd'[p] = child[fd[RootPath]][p[2]]
    <3>1. fd'[p] = IF Len(p) > 2 THEN None ELSE child[fd[RootPath]][p[2]]
      BY <1>1, <1>4
    <3> QED
      BY <1>7, <3>1
  <2> QED
    BY <1>6, <1>7, <2>1, <2>2 DEF Located
<1>8. CASE Len(p) = 3
  <2>1. fd'[p] = None
    BY <1>1, <1>4, <1>8
  <2>2. fd'[Front(p)] = child[fd[RootPath]][p[2]]
    BY <1>1, <1>4, <1>8
  <2>3. Opened(Front(p))' = fd'[Front(p)]
    BY <1>5, <1>6, <1>8, <2>2
  <2>4. Front(p) \notin inter' /\ (Front(p) \notin todo' => fd'[Front(p)] = None)
    BY <1>1, <1>4, <1>8
  <2> QED
    BY <1>8, <2>1, <2>3, <2>4 DEF Located
<1> QED
  BY <1>1, <1>7, <1>8

LEMMA DiscoverFrozen ==
    ASSUME Discover, NEW p \in frozen' PROVE GivenUp(p)' \/ <<Head(p)>> \in lost'
<1>1. p \in SetGroups => <<Head(p)>> = RootPath
  BY SetPaths DEF RootPath
<1> QED
  BY <1>1 DEF Discover, GivenUp, loop

LEMMA ScanLevelOwes ==
    ASSUME WatchBase, WatchBase', NEW q \in Paths, ScanLevel(q), NEW p \in SetGroups, LevelOwes(p)
    PROVE  LevelOwes(p)'
<1> USE DEF WatchBase
<1>1. /\ pc = "level" /\ q \in todo /\ q \in Intermediates /\ Report({})
      /\ UNCHANGED <<tree, label, unseen, degraded, frozen>>
      /\ todo' = todo \ {q} /\ inter' = inter \cup {q}
      /\ fd' = [s \in Paths |-> IF s = q THEN None
                                ELSE IF s \in SetGroups /\ Front(s) = q
                                THEN child[fd[q]][Last(s)] ELSE fd[s]]
  BY DEF ScanLevel, watcher, loop, TypeInv, Opens
<1>2. Next /\ ~Stop /\ ~WatchAndSwap /\ ~Discover
  BY <1>1 DEF Next, Daemon, ScanLevel, Stop, WatchAndSwap, Discover
<1>3. \A t \in Tops : fd[<<t>>] # None /\ fd'[<<t>>] = fd[<<t>>]
  BY <1>1, <1>2, TopsOpen, TopsHeld
<1>4. queue \subseteq queue' /\ (overflow => overflow')
  BY <1>1, Reported
<1> SUFFICES ASSUME ~overflow', ~Excused(p)', p \notin frozen', Change(fd[RootPath])' \notin queue'
             PROVE  Located(p)'
  BY DEF LevelOwes
<1>5. /\ Depth = 2 /\ Len(p) = 3 /\ Len(q) = 2
  <2>1. Depth = 2 /\ q \in Levels(1) /\ p \in Levels(2)
    BY <1>1 DEF Intermediates, SetGroups
  <2> QED
    BY <2>1, LevelPaths
<1>6. /\ "root" \in Tops /\ RootPath = <<"root">> /\ p[2] \in Names /\ Last(p) \in Names
      /\ Front(p) \in Intermediates /\ Len(Front(p)) = 2 /\ p \in Groups
      /\ p \in Paths /\ Front(p) \in Paths /\ Front(p) \notin SetGroups /\ None \notin Dirs
  <2>1. \A s \in SetGroups : Len(s) = 3
    BY <1>5, LevelPaths DEF SetGroups
  <2> QED
    BY <1>5, <2>1, GroupPath, WatchAssumption DEF RootPath, Groups
<1>7. Change(fd[RootPath])' = Change(fd[RootPath])
  BY <1>3, <1>6 DEF Change
<1>8. Located(p)
  <2>1. ~Excused(p)
    BY <1>2, <1>3, <1>6, ExcusedStays
  <2> QED
    BY <1>1, <1>4, <1>7, <2>1 DEF LevelOwes
<1>9. /\ Opened(p) = Below(Opened(Front(p)), Last(p))
      /\ Opened(p)' = Opened(p) /\ Opened(Front(p))' = Opened(Front(p))
  <2>1. Head(p) = "root" /\ Head(Front(p)) = "root"
    BY GroupPath
  <2>2. fd'[<<Head(p)>>] = fd[<<Head(p)>>] /\ fd'[<<Head(Front(p))>>] = fd[<<Head(Front(p))>>]
    BY <1>3, <1>6, <2>1
  <2>3. Opened(p)' = Opened(p) /\ Opened(Front(p))' = Opened(Front(p))
    <3>1. child' = child
      BY <1>1 DEF tree
    <3> HIDE <1>1
    <3> QED
      BY <2>2, <3>1 DEF Opened, Walk, Below
  <2> QED
    BY <2>3, Leads DEF GroupLeads
<1>10. /\ Front(p) \in todo => fd[Front(p)] = Opened(Front(p))
       /\ Front(p) \in inter => fd[p] = Opened(p) \/ Change(Opened(Front(p))) \in queue
       /\ Front(p) \notin todo \cup inter => Opened(Front(p)) = None /\ fd[p] = None
  BY <1>5, <1>8 DEF Located
<1>11. CASE Front(p) = q
  <2>1. fd[q] \in Dirs /\ fd[q] = Opened(Front(p))
    BY <1>1, <1>10, <1>11 DEF TypeInv, Opens
  <2>2. fd'[p] = child[fd[q]][Last(p)]
    BY <1>1, <1>5, <1>6, <1>11
  <2>3. fd'[p] = Opened(p)'
    BY <1>6, <1>9, <2>1, <2>2 DEF Below
  <2> QED
    BY <1>1, <1>5, <1>11, <2>3 DEF Located
<1>12. CASE Front(p) # q
  <2>1. fd'[p] = fd[p] /\ fd'[Front(p)] = fd[Front(p)]
    BY <1>1, <1>5, <1>6, <1>12
  <2>2. Change(Opened(Front(p)))' = Change(Opened(Front(p)))
    BY <1>9 DEF Change
  <2> QED
    BY <1>1, <1>4, <1>5, <1>9, <1>10, <1>12, <2>1, <2>2 DEF Located
<1> QED
  BY <1>11, <1>12

LEMMA SyncOwes ==
    ASSUME WatchBase, WatchBase', Sync, NEW p \in Groups, found[p] = None,
           p \in SetGroups => LevelOwes(p)
    PROVE  ScanOwes(p)'
<1> USE DEF WatchBase
<1> DEFINE wanted == {Wanted(s) : s \in DOMAIN setWatch} \ {None}
<1>1. /\ pc = "level" /\ pc' = "scan" /\ todo = {}
      /\ UNCHANGED <<tree, fd, inter, frozen, found, overflow, pending>>
      /\ todo' = {s \in Groups \ frozen : fd[s] # None}
  BY DEF Sync, runtime, loop
<1>2. PICK R \in SUBSET Moved :
        LET removed == {d \in R : label[d] = "set"}
        IN  /\ label' = [d \in Dirs |->
                           IF d \in (removed \ wanted) THEN None
                           ELSE IF d \in wanted /\ label[d] = None THEN "set" ELSE label[d]]
            /\ watched' = (watched \ removed) \cup wanted
            /\ queue' = {e \in queue : e.wd \notin removed}
            /\ unseen' = unseen \cup Forgotten(removed)
  BY DEF Sync
<1> DEFINE removed == {d \in R : label[d] = "set"}
<1>3. /\ watched' = (watched \ removed) \cup wanted
      /\ queue' = {e \in queue : e.wd \notin removed}
      /\ unseen' = unseen \cup Forgotten(removed)
      /\ \A d \in removed : label[d] = "set"
  BY <1>2
<1>4. \A d \in wanted : d \in Dirs => label'[d] # None
  <2>1. None # "set"
    BY WatchAssumption
  <2> QED
    BY <1>2, <2>1
<1> HIDE DEF removed, wanted
<1>5. Next /\ ~Stop /\ ~WatchAndSwap /\ ~Discover
  BY <1>1 DEF Next, Daemon, Stop, WatchAndSwap, Discover
<1>6. \A t \in Tops : fd[<<t>>] # None
  BY <1>1, TopsOpen
<1> SUFFICES ASSUME ~Asked', ~Excused(p)', p \notin frozen
             PROVE  /\ p \in SetGroups => /\ fd[p] = Opened(p)' /\ Heard(Opened(p))'
                                          /\ Heard(Opened(Front(p)))'
                    /\ p \notin todo' => fd[p] = None
  BY <1>1 DEF ScanOwes
<1>7. ~overflow' /\ \A d : label'[d] # None => Change(d) \notin queue'
  BY TellingNext DEF Asked, Noticed
<1>8. p \notin todo' => fd[p] = None
  BY <1>1
<1>9. ASSUME p \in SetGroups
      PROVE  fd[p] = Opened(p)' /\ Heard(Opened(p))' /\ Heard(Opened(Front(p)))'
  <2>1. /\ "root" \in Tops /\ Len(p) \in 2 .. 3 /\ RootPath = <<"root">> /\ None \notin Dirs
        /\ p \in Paths /\ Front(p) \in Paths /\ Head(p) = "root" /\ Head(Front(p)) = "root"
        /\ p \notin Intermediates /\ p \in DOMAIN setWatch
        /\ Len(p) = 3 => Front(p) \in DOMAIN setWatch
    <3>1. p \notin Intermediates
      <4>1. CASE Depth = 2
        BY <1>9, <4>1, LevelPaths DEF SetGroups, Intermediates
      <4> QED
        BY <4>1 DEF Intermediates
    <3> QED
      BY <1>9, <3>1, GroupPath, WatchAssumption DEF RootPath, TypeInv, TypeOK
  <2>2. fd[RootPath] # None /\ fd'[RootPath] = fd[RootPath]
    BY <1>1, <1>6, <2>1
  <2>3. ~Excused(p)
    BY <1>5, <1>6, <1>7, ExcusedStays
  <2>4. RootFacts(p) /\ RootFacts(p)'
    BY <1>9, <2>2, <2>3, RootHeld, RootHeldNext
  <2>5. Change(fd[RootPath]) \notin queue
    <3>1. label[fd[RootPath]] = "root" /\ label'[fd[RootPath]] = "root" /\ None # "root"
      BY <2>2, <2>4, WatchAssumption DEF RootFacts
    <3>2. fd[RootPath] \notin removed /\ Change(fd[RootPath]).wd = fd[RootPath]
      BY <1>3, <3>1 DEF Change
    <3> QED
      BY <1>3, <1>7, <3>1, <3>2
  <2>6. Located(p)
    BY <1>1, <1>7, <1>9, <2>3, <2>5 DEF LevelOwes
  <2>7. /\ Opened(p)' = Opened(p) /\ Opened(Front(p))' = Opened(Front(p))
        /\ Opened(p) = Below(Opened(Front(p)), Last(p))
        /\ Len(p) = 2 => Opened(Front(p)) = fd[RootPath]
        /\ DirAt(p)' = DirAt(p) /\ DirAt(Front(p))' = DirAt(Front(p))
    <3>1. /\ Opened(p)' = Opened(p) /\ Opened(Front(p))' = Opened(Front(p))
          /\ DirAt(p)' = DirAt(p) /\ DirAt(Front(p))' = DirAt(Front(p))
      BY <1>1 DEF Opened, DirAt, Walk, Below, tree
    <3> QED
      BY <1>9, <3>1, Leads DEF GroupLeads
  <2>8. ASSUME NEW d \in Dirs, NEW s \in DOMAIN setWatch, Wanted(s) = d PROVE Heard(d)'
    <3>1. d \in wanted
      BY <2>1, <2>8 DEF wanted
    <3> QED
      BY <1>3, <1>4, <3>1 DEF Heard
  <2>9. ASSUME fd[p] = Opened(p) PROVE Heard(Opened(p))'
    <3>1. CASE Opened(p) = None
      BY <2>7, <3>1 DEF Heard
    <3>2. CASE Opened(p) # None
      <4>1. Opened(p) \in Dirs /\ DirAt(p) = Opened(p)
        BY <2>4, <3>2 DEF RootFacts, TypeInv, TypeOK
      <4>2. Wanted(p) = Opened(p)
        BY <1>9, <2>9, <3>2, <4>1 DEF Wanted
      <4> QED
        BY <2>1, <2>7, <2>8, <4>1, <4>2 DEF Heard
    <3> QED
      BY <3>1, <3>2
  <2>10. CASE Len(p) = 2
    <3>1. fd[p] = Opened(p)
      BY <2>6, <2>10 DEF Located
    <3>2. Heard(fd[RootPath])'
      BY <2>4, WatchAssumption DEF RootFacts, Heard
    <3> QED
      BY <2>2, <2>7, <2>9, <2>10, <3>1, <3>2 DEF Heard
  <2>11. CASE Len(p) = 3 /\ Front(p) \notin inter
    <3>1. Opened(Front(p)) = None /\ fd[p] = None
      BY <1>1, <2>6, <2>11 DEF Located
    <3> QED
      BY <2>7, <3>1 DEF Below, Heard
  <2>12. CASE Len(p) = 3 /\ Front(p) \in inter
    <3>1. fd[p] = Opened(p) \/ Change(Opened(Front(p))) \in queue
      BY <2>6, <2>12 DEF Located
    <3>2. ASSUME Opened(Front(p)) \in Dirs
          PROVE  /\ Heard(Opened(Front(p)))' /\ DirAt(Front(p)) = Opened(Front(p))
                 /\ DirAt(p) = Opened(p)
      <4>1. DirAt(Front(p)) = Opened(Front(p)) /\ DirAt(p) = Opened(p)
        BY <2>1, <2>4, <2>12, <3>2 DEF RootFacts
      <4>2. Wanted(Front(p)) = Opened(Front(p))
        BY <2>12, <4>1 DEF Wanted
      <4> QED
        BY <2>1, <2>7, <2>8, <2>12, <3>2, <4>1, <4>2 DEF Heard
    <3>3. Heard(Opened(Front(p)))'
      BY <2>4, <2>7, <2>12, <3>2 DEF RootFacts, TypeInv, TypeOK, Heard
    <3>4. ASSUME Change(Opened(Front(p))) \in queue, fd[p] # Opened(p) PROVE FALSE
      <4>1. Opened(Front(p)) \in Dirs /\ Change(Opened(Front(p))).wd = Opened(Front(p))
        BY <3>4 DEF TypeInv, TypeOK, Change
      <4>2. label'[Opened(Front(p))] # None
        BY <2>1, <2>7, <3>2, <4>1 DEF Heard
      <4>3. Opened(Front(p)) \in removed
        BY <1>3, <1>7, <3>4, <4>1, <4>2
      <4>4. p \in Forgotten(removed)
        BY <1>9, <2>12, <3>2, <3>4, <4>1, <4>3 DEF Forgotten
      <4> QED
        BY <1>3, <4>4 DEF Excused
    <3> QED
      BY <2>7, <2>9, <3>1, <3>3, <3>4
  <2> QED
    BY <2>1, <2>10, <2>11, <2>12
<1> QED
  BY <1>8, <1>9

\* Nothing that an open debt is about has changed.
LEMMA SameExcused ==
    ASSUME UNCHANGED <<unseen, queue, label, dropped, top, fd>>, degraded \subseteq degraded',
           NEW p, Excused(p)
    PROVE  Excused(p)'
  BY DEF Excused, GivenUp, Losing

LEMMA SameOwes ==
    ASSUME UNCHANGED <<tree, inotify, watcher, loop, fd>>
    PROVE  \A p : /\ WaitOwes(p) => WaitOwes(p)'
                  /\ UNCHANGED pass => LevelOwes(p)' = LevelOwes(p) /\ ScanOwes(p)' = ScanOwes(p)
<1> TAKE p
<1>1. UNCHANGED <<top, child, member, live, watched, queue, overflow, dropped, unseen, label,
                  degraded, pending, view, fd>>
  BY DEF tree, inotify, watcher, loop
<1>2. Opened(p)' = Opened(p) /\ Opened(Front(p))' = Opened(Front(p))
  BY <1>1 DEF Opened, Walk, Below
<1>3. Asked' = Asked /\ Excused(p)' = Excused(p)
  BY <1>1 DEF Asked, Noticed, Excused, GivenUp, Losing
<1>4. \A d : Heard(d)' = Heard(d) /\ Orphan(d)' = Orphan(d)
  BY <1>1 DEF Heard, Orphan
<1>5. /\ Heard(Opened(p))' = Heard(Opened(p)) /\ Orphan(Opened(p))' = Orphan(Opened(p))
      /\ Heard(Opened(Front(p)))' = Heard(Opened(Front(p)))
      /\ Orphan(Opened(Front(p)))' = Orphan(Opened(Front(p)))
  BY <1>1, <1>2 DEF Heard, Orphan
<1>6. MembersOf(p)' = MembersOf(p)
  BY <1>1, <1>2 DEF MembersOf
<1>7. WaitOwes(p) => WaitOwes(p)'
  BY <1>1, <1>3, <1>5, <1>6 DEF WaitOwes
<1>8. ASSUME UNCHANGED pass PROVE LevelOwes(p)' = LevelOwes(p) /\ ScanOwes(p)' = ScanOwes(p)
  <2>1. UNCHANGED <<todo, inter, frozen, found>>
    BY <1>8 DEF pass
  <2>2. Located(p)' = Located(p)
    BY <1>1, <1>2, <2>1 DEF Located, Change
  <2>3. LevelOwes(p)' = LevelOwes(p)
    BY <1>1, <1>3, <2>1, <2>2 DEF LevelOwes, Change
  <2>4. ScanOwes(p)' = ScanOwes(p)
    BY <1>1, <1>2, <1>3, <1>5, <2>1 DEF ScanOwes
  <2> QED
    BY <2>3, <2>4
<1> QED
  BY <1>7, <1>8

LEMMA ScanStepOwes ==
    ASSUME WatchBase, NEW q \in Paths, Scan(q), NEW p \in Groups, ScanOwes(p) PROVE ScanOwes(p)'
<1>1. /\ pc = "scan" /\ q \in todo /\ UNCHANGED <<tree, inotify, fd, label, degraded, pending>>
      /\ todo' = todo \ {q} /\ frozen \subseteq frozen'
  BY DEF Scan, runtime, watcher, loop
<1>2. /\ Asked => Asked'
      /\ Excused(p) => Excused(p)'
      /\ Opened(p)' = Opened(p) /\ Opened(Front(p))' = Opened(Front(p))
  BY <1>1, SameExcused
     DEF Asked, Noticed, Opened, Walk, Below, tree, inotify
<1>3. \A d : Heard(d) => Heard(d)'
  BY <1>1 DEF Heard, inotify
<1>4. /\ Heard(Opened(p)) => Heard(Opened(p))'
      /\ Heard(Opened(Front(p))) => Heard(Opened(Front(p)))'
  BY <1>2, <1>3 DEF Heard
<1>5. CASE p = q
  <2>1. fd[p] \in live => found'[p] = member[fd[p]] /\ fd[p] # None
    BY <1>5, WatchAssumption DEF Scan, WatchBase, TypeInv, TypeOK
  <2>2. fd[p] \notin live => p \in frozen'
    BY <1>5 DEF Scan
  <2> QED
    BY <1>1, <1>2, <1>4, <2>1, <2>2 DEF ScanOwes, tree
<1>6. CASE p # q
  <2>1. found'[p] = found[p]
    BY <1>6 DEF Scan, WatchBase, TypeInv, TypeOK
  <2> QED
    BY <1>1, <1>2, <1>4, <1>6, <2>1 DEF ScanOwes, tree
<1> QED
  BY <1>5, <1>6

LEMMA FinishOwes ==
    ASSUME WatchBase, FrozenInv, Finish, NEW p \in Groups, ScanOwes(p) PROVE WaitOwes(p)'
<1>1. /\ pc = "scan" /\ todo = {} /\ UNCHANGED <<tree, inotify, fd, label, pending>>
      /\ degraded' = degraded \cup lost
      /\ view' = [s \in Groups |-> IF s \in frozen THEN view[s]
                                   ELSE IF found[s] = None THEN {} ELSE found[s]]
  BY DEF Finish, runtime, watcher
<1>2. /\ Asked => Asked'
      /\ Excused(p) => Excused(p)'
      /\ Opened(p)' = Opened(p) /\ Opened(Front(p))' = Opened(Front(p))
      /\ MembersOf(p)' = MembersOf(p)
  BY <1>1, SameExcused
     DEF Asked, Noticed, Opened, Walk, Below, MembersOf, tree, inotify
<1>3. \A d : Heard(d) => Heard(d)'
  BY <1>1 DEF Heard, inotify
<1>4. /\ Heard(Opened(p)) => Heard(Opened(p))'
      /\ Heard(Opened(Front(p))) => Heard(Opened(Front(p)))'
  BY <1>2, <1>3 DEF Heard
<1>5. CASE p \in frozen
  <2>1. GivenUp(p) \/ p \in lost \/ <<Head(p)>> \in lost
    BY <1>1, <1>5 DEF FrozenInv
  <2> QED
    BY <1>1, <2>1 DEF WaitOwes, Excused, GivenUp
<1>6. CASE ~Asked /\ ~Excused(p) /\ p \notin frozen
  <2>1. /\ p \in SetGroups => fd[p] = Opened(p) /\ Heard(Opened(p)) /\ Heard(Opened(Front(p)))
        /\ found[p] = IF fd[p] = None THEN None ELSE member[fd[p]]
    BY <1>1, <1>6 DEF ScanOwes
  <2>2. p \notin SetGroups => fd[p] = Opened(p)
    BY Static, OfTop
  <2>3. fd[p] # None => fd[p] \in Dirs /\ member[fd[p]] \in SUBSET Members
    <3>1. p \in Paths
      BY DEF Groups, Paths
    <3> QED
      BY <3>1 DEF WatchBase, TypeInv, TypeOK
  <2>4. view'[p] = MembersOf(p)
    BY <1>1, <1>6, <2>1, <2>2, <2>3, WatchAssumption DEF MembersOf
  <2> QED
    BY <1>2, <1>4, <2>1, <2>4 DEF WaitOwes
<1> QED
  BY <1>2, <1>5, <1>6 DEF ScanOwes, WaitOwes

\* Steps of others, and a reload that fails.
LEMMA ApartOwes ==
    ASSUME WatchBase, WatchBase', OwedInv, Next \/ UNCHANGED vars, Apart,
           ~Stop, ~WatchAndSwap, ~Discover,
           pc' = pc \/ (pc = "watch" /\ pc' = IF Running THEN "wait" ELSE "start")
    PROVE  OwedInv'
<1>1. /\ UNCHANGED <<frozen, lost, found, degraded, fd>>
      /\ Running' = Running
  BY DEF Apart, pass, Running
<1>2. FrozenInv'
  BY <1>1 DEF OwedInv, FrozenInv, GivenUp
<1>3. pc \in {"level", "scan"} => \A t \in Tops : fd[<<t>>] # None
  BY TopsOpen DEF WatchBase
<1>4. Running => \A t \in Tops : fd[<<t>>] # None
  BY TopsOpen DEF WatchBase
<1>5. pc' = "level" => \A p \in SetGroups : LevelOwes(p)'
  BY LevelStays DEF OwedInv
<1>6. pc' = "scan" => \A p \in Groups : ScanOwes(p)'
  BY <1>3, ScanStays DEF OwedInv
<1>7. ASSUME pc' \in {"wait", "watch"}, Running' PROVE \A p \in Groups : WaitOwes(p)'
  <2>1. \A p \in Groups : WaitOwes(p)
    BY <1>1, <1>7 DEF OwedInv
  <2> QED
    BY <1>1, <1>4, <1>7, <2>1, WaitStays
<1> QED
  BY <1>1, <1>2, <1>5, <1>6, <1>7 DEF OwedInv

LEMMA OwedNext ==
    ASSUME WatchBase, WatchBase', OwedInv, Next \/ UNCHANGED vars PROVE OwedInv'
<1>1. CASE UNCHANGED vars
  <2>1. UNCHANGED <<tree, inotify, runtime, watcher, pass, loop, pc>>
    BY <1>1 DEF vars
  <2> QED
    BY <2>1, SameOwes DEF OwedInv, FrozenInv, GivenUp, Running, runtime, pass, loop
<1>2. CASE Stop
  <2>1. pc' = "start" /\ ~Running'
    BY <1>2 DEF Stop, Running, Paths
  <2> QED
    BY <2>1 DEF OwedInv, FrozenInv
<1> SUFFICES ASSUME ~Stop PROVE OwedInv'
  BY <1>2
<1>3. CASE pc' = "discover"
  BY <1>3 DEF OwedInv, FrozenInv
<1>4. CASE Start \/ Reload
  <2>1. /\ pc' = "watch" /\ UNCHANGED <<tree, inotify, fd, watcher, pass, loop>>
        /\ pc = "start" \/ pc = "wait"
    BY <1>4 DEF Start, Reload, Open
  <2>2. Running' = Running
    BY <2>1 DEF Running
  <2>3. \A p \in Groups : WaitOwes(p) => WaitOwes(p)'
    BY <2>1, SameOwes
  <2> QED
    BY <2>1, <2>2, <2>3 DEF OwedInv, FrozenInv
<1>5. CASE HandleInotify
  <2>1. pc = "wait" /\ pc' = "wait" /\ UNCHANGED fd
    BY <1>5 DEF HandleInotify, runtime
  <2> QED
    BY <1>5, <2>1, InotifyOwes DEF OwedInv, FrozenInv, Running
<1>6. CASE Discover
  <2>1. pc' = "level" /\ \A p \in Groups : found'[p] = None
    BY <1>6 DEF Discover
  <2> QED
    BY <1>6, <2>1, DiscoverOwes, DiscoverFrozen DEF OwedInv, FrozenInv
<1>7. ASSUME NEW q \in Paths, ScanLevel(q) PROVE OwedInv'
  <2>1. pc = "level" /\ pc' = "level" /\ UNCHANGED <<found, frozen, lost, degraded>>
    BY <1>7 DEF ScanLevel, loop
  <2>2. \A p \in SetGroups : LevelOwes(p)'
    BY <1>7, <2>1, ScanLevelOwes DEF OwedInv
  <2> QED
    BY <2>1, <2>2 DEF OwedInv, FrozenInv, GivenUp
<1>8. CASE Sync
  <2>1. pc = "level" /\ pc' = "scan" /\ UNCHANGED <<frozen, lost, degraded>>
    BY <1>8 DEF Sync, loop
  <2>2. \A p \in Groups : ScanOwes(p)'
    BY <1>8, <2>1, SyncOwes DEF OwedInv
  <2> QED
    BY <2>1, <2>2 DEF OwedInv, FrozenInv, GivenUp
<1>9. ASSUME NEW q \in Paths, Scan(q) PROVE OwedInv'
  <2>1. pc = "scan" /\ pc' = "scan" /\ UNCHANGED degraded
    BY <1>9 DEF Scan, loop
  <2>2. \A p \in Groups : ScanOwes(p)'
    BY <1>9, <2>1, ScanStepOwes DEF OwedInv
  <2>3. /\ \A p \in frozen' : p \in frozen \/ p \in lost'
        /\ lost \subseteq lost'
    BY <1>9 DEF Scan
  <2> QED
    BY <2>1, <2>2, <2>3 DEF OwedInv, FrozenInv, GivenUp
<1>10. CASE Finish
  <2>1. pc = "scan" /\ pc' = "wait"
    BY <1>10 DEF Finish
  <2> QED
    BY <1>10, <2>1, FinishOwes DEF OwedInv, FrozenInv
<1>11. CASE WatchFails
  <2>1. Apart /\ pc = "watch" /\ pc' = IF Running THEN "wait" ELSE "start"
    BY <1>11 DEF WatchFails, Apart, ReportStep, watcher, loop
  <2>2. ~WatchAndSwap /\ ~Discover
    BY <1>11, <2>1 DEF WatchAndSwap, Discover
  <2> QED
    BY <2>1, <2>2, ApartOwes
<1>12. CASE PassDue \/ ResyncDue \/ WatchAndSwap
  <2>1. pc' = "discover"
    BY <1>12 DEF PassDue, ResyncDue, WatchAndSwap
  <2> QED
    BY <1>3, <2>1
<1>13. ASSUME Next, Apart, UNCHANGED pc, ~Stop PROVE OwedInv'
  <2>1. ~WatchAndSwap /\ ~Discover
    BY <1>13 DEF WatchAndSwap, Discover
  <2> QED
    BY <1>13, <2>1, ApartOwes
<1>14. ASSUME NEW d \in Dirs, NEW m \in Members, ChangeMember(d, m) PROVE Apart /\ UNCHANGED pc
  BY <1>14 DEF ChangeMember, Others, Apart, ReportStep, runtime, watcher, loop
<1>15. ASSUME NEW p \in Paths, RemoveDir(p) \/ MoveOut(p) PROVE Apart /\ UNCHANGED pc
  BY <1>15 DEF RemoveDir, MoveOut, Others, Apart, ReportStep, runtime, watcher, loop
<1>16. ASSUME NEW p \in Paths, NEW d \in Dirs, MakeDir(p, d) \/ MoveIn(p, d)
       PROVE  Apart /\ UNCHANGED pc
  BY <1>16 DEF MakeDir, MoveIn, Others, Apart, ReportStep, runtime, watcher, loop
<1> QED
  BY <1>1, <1>2, <1>4, <1>5, <1>6, <1>7, <1>8, <1>9, <1>10, <1>11, <1>12, <1>13, <1>14, <1>15, <1>16
  DEF Next, Environment, Daemon

LEMMA OwedInit == Init => OwedInv
  BY DEF Init, OwedInv, FrozenInv, Running, Paths

LEMMA OwedInvariant == Spec => []OwedInv
<1>1. OwedInv /\ WatchBase /\ WatchBase' /\ [Next]_vars => OwedInv'
  BY OwedNext
<1> QED
  BY <1>1, OwedInit, WatchBaseInvariant, PTL DEF Spec

\* A group that is owed nothing, with nothing to read and no pass to come, is up to date.
LEMMA Settled ==
    ASSUME WatchBase, NEW p \in Groups, WaitOwes(p), queue = {}, ~overflow, ~pending
    PROVE  GivenUp(p) \/ Unwatched(p) \/ view[p] = MembersOf(p)
<1>1. ~Asked /\ ~Losing("root")
  BY DEF Asked, Noticed, Losing
<1>2. ASSUME p \in SetGroups, NEW d \in {Opened(p), Opened(Front(p))}, Orphan(d)
      PROVE  Unwatched(p)
  <2>1. PICK t \in Tops : <<t>> \in degraded /\ (fd[<<t>>] = d \/ <<t>> \in unseen)
    BY <1>2 DEF Orphan, WatchBase, TopInv, LabelInv
  <2> QED
    BY <1>2, <2>1 DEF Unwatched, Orphan
<1> QED
  BY <1>1, <1>2 DEF WaitOwes, Excused, Unwatched

\* When the daemon has nothing to do, every group that is not degraded has the views its
\* membership asks for, whatever was made, changed, moved or removed at any point of its
\* passes (Runtime::discover, Watcher::sync, observe; "no change is missed").
THEOREM NoChangeMissedHolds == Spec => []NoChangeMissed
<1>1. WatchBase /\ OwedInv => NoChangeMissed
  <2> SUFFICES ASSUME WatchBase, OwedInv, Quiet, NEW p \in Groups
               PROVE  GivenUp(p) \/ Unwatched(p) \/ view[p] = MembersOf(p)
    BY DEF NoChangeMissed
  <2>1. \A q \in TopPaths : fd[q] \in Dirs
    BY DEF WatchBase, TypeInv, Opens, Quiet
  <2>2. CASE Running
    BY <2>2, Settled DEF OwedInv, Quiet
  <2>3. CASE TopPaths = {}
    BY <2>3, GroupPath DEF Groups
  <2> QED
    BY <2>1, <2>2, <2>3, WatchAssumption DEF Running
<1> QED
  BY <1>1, OwedInvariant, WatchBaseInvariant, PTL

(***************************************************************************)
(* The timers.                                                             *)
(***************************************************************************)

LEMMA TimedStepIsAStep == TimedStep => Next
  BY Zenon DEF TimedStep, TimedInotify, TimedPass, TimedResync, TimedSwap, TimedFinish, TimedStop,
               OtherStep, PassStep, Next, Environment, Daemon

\* The timers only decide when what the loop of daemon.rs may do is done: every behaviour
\* with them is one without.
THEOREM TimedImplements == TimedSpec => Spec
<1>1. TimedInit => Init
  BY Zenon DEF TimedInit
<1>2. [TimedNext]_tvars => [Next]_vars
  <2> SUFFICES ASSUME TimedNext \/ UNCHANGED tvars
               PROVE  Next \/ UNCHANGED vars
    BY Zenon
  <2>1. CASE TimedStep
    BY Zenon, <2>1, TimedStepIsAStep
  <2>2. CASE Tick
    BY Zenon, <2>2 DEF Tick
  <2>3. CASE UNCHANGED tvars
    <3>1. UNCHANGED vars
      BY Zenon, <2>3 DEF tvars
    <3> QED
      BY Zenon, <3>1
  <2> QED
    BY Zenon, <2>1, <2>2, <2>3 DEF TimedNext
<1> QED
  BY <1>1, <1>2, PTL DEF TimedSpec, Spec

(***************************************************************************)
(* A group's views are out of date only while a pass is coming, and what   *)
(* is left of the time to it and what has gone by are no more than         *)
(* MAX_DEBOUNCE together.                                                  *)
(***************************************************************************)

Waited == IF pending THEN age ELSE 0

TimeInv ==
    /\ age \in Nat /\ due \in Nat /\ late \in [Groups -> Nat]
    /\ pending => age + due <= MaxDebounce
    /\ \A p \in Groups : late[p] <= Waited

\* A step of no time makes no group's views older.
LEMMA NoLater ==
    ASSUME TimeInv, Later(0), NEW w \in Nat,
           \A p \in Groups : Current(p)' \/ late[p] <= w
    PROVE  late' \in [Groups -> Nat] /\ \A p \in Groups : late'[p] <= w
<1>1. late' = [p \in Groups |-> IF Current(p)' THEN 0 ELSE late[p] + 0]
  BY DEF Later
<1> SUFFICES ASSUME NEW p \in Groups PROVE late'[p] \in Nat /\ late'[p] <= w
  BY <1>1
<1>2. late[p] \in Nat
  BY DEF TimeInv
<1>3. CASE Current(p)'
  BY <1>1, <1>3
<1>4. CASE late[p] <= w /\ ~Current(p)'
  BY <1>1, <1>2, <1>4
<1> QED
  BY <1>3, <1>4

LEMMA OwedCurrent ==
    ASSUME WatchBase, OwedInv, pc = "wait", queue = {}, ~overflow, ~pending, NEW p \in Groups
    PROVE  Current(p)
<1>1. WaitOwes(p)
  <2>1. \A q \in TopPaths : fd[q] \in Dirs
    BY DEF WatchBase, TypeInv, Opens
  <2>2. TopPaths # {}
    BY GroupPath DEF Groups
  <2> QED
    BY <2>1, <2>2, WatchAssumption DEF OwedInv, Running
<1> QED
  BY <1>1, Settled DEF Current

LEMMA TickInTime == ASSUME WatchBase, OwedInv, TimeInv, Tick PROVE TimeInv'
<1>1. /\ pc = "wait" /\ queue = {} /\ ~overflow /\ UNCHANGED vars
      /\ pending => due > 0
      /\ age' = IF pending THEN age + 1 ELSE 0
      /\ due' = IF pending THEN due - 1 ELSE 0
      /\ late' = [p \in Groups |-> IF Current(p)' THEN 0 ELSE late[p] + 1]
  BY DEF Tick, Later
<1>2. age \in Nat /\ due \in Nat /\ (pending => age + due <= MaxDebounce) /\ MaxDebounce \in Nat
  BY TimedAssumption DEF TimeInv
<1>3. pending' = pending
  BY <1>1 DEF vars, loop
<1>4. age' \in Nat /\ due' \in Nat /\ (pending => age' + due' <= MaxDebounce)
  BY <1>1, <1>2
<1>5. ASSUME NEW p \in Groups PROVE late'[p] \in Nat /\ late'[p] <= Waited'
  <2>1. late[p] \in Nat /\ late[p] <= Waited
    BY DEF TimeInv
  <2>2. CASE pending
    BY <1>1, <1>2, <1>3, <2>1, <2>2 DEF Waited
  <2>3. CASE ~pending
    <3>1. Current(p)
      BY <1>1, <2>3, OwedCurrent
    <3>2. UNCHANGED <<pc, top, child, member, watched, label, dropped, unseen, fd, degraded, view>>
      BY <1>1 DEF vars, tree, inotify, runtime, watcher, loop
    <3>3. Opened(p)' = Opened(p) /\ Opened(Front(p))' = Opened(Front(p))
      BY <3>2 DEF Opened, Walk, Below
    <3>4. MembersOf(p)' = MembersOf(p) /\ GivenUp(p)' = GivenUp(p)
      BY <3>2, <3>3 DEF MembersOf, GivenUp
    <3>5. Unwatched(p)' = Unwatched(p)
      BY <3>2, <3>3 DEF Unwatched
    <3>6. Current(p)'
      BY <3>1, <3>2, <3>4, <3>5 DEF Current
    <3> QED
      BY <1>1, <1>3, <2>3, <3>6 DEF Waited
  <2> QED
    BY <2>2, <2>3
<1>6. late' \in [Groups -> Nat]
  BY <1>1, <1>5
<1> QED
  BY <1>3, <1>4, <1>5, <1>6 DEF TimeInv

LEMMA InotifyInTime ==
    ASSUME pending \in BOOLEAN, TimeInv, TimedInotify, Later(0) PROVE TimeInv'
<1>1. /\ age \in Nat /\ due \in Nat /\ (pending => age + due <= MaxDebounce)
      /\ MaxDebounce \in Nat /\ Debounce \in Nat
  BY TimedAssumption DEF TimeInv
<1>2. pending' = (pending \/ Noticed)
  BY DEF TimedInotify, HandleInotify, Noticed
<1>3. CASE Noticed
  <2>1. age' = Waited /\ due' = DueAfter(Waited) /\ pending'
    BY <1>2, <1>3 DEF TimedInotify, Waited
  <2>2. Waited \in Nat /\ Waited <= MaxDebounce
    BY <1>1 DEF Waited
  <2>3. DueAfter(Waited) \in Nat /\ Waited + DueAfter(Waited) <= MaxDebounce
    BY <1>1, <2>2 DEF DueAfter
  <2>4. Waited' = Waited
    BY <2>1 DEF Waited
  <2>5. late' \in [Groups -> Nat] /\ \A p \in Groups : late'[p] <= Waited
    BY <2>2, NoLater DEF TimeInv
  <2> QED
    BY <2>1, <2>2, <2>3, <2>4, <2>5 DEF TimeInv
<1>4. CASE ~Noticed
  <2>1. UNCHANGED <<age, due, pending>>
    <3>1. (pending \/ Noticed) = pending
      BY <1>2, <1>4
    <3> QED
      BY <1>2, <1>4, <3>1 DEF TimedInotify
  <2>2. Waited \in Nat /\ Waited' = Waited
    BY <1>1, <2>1 DEF Waited
  <2>3. late' \in [Groups -> Nat] /\ \A p \in Groups : late'[p] <= Waited
    BY <2>2, NoLater DEF TimeInv
  <2> QED
    BY <1>1, <2>1, <2>2, <2>3 DEF TimeInv
<1> QED
  BY <1>3, <1>4

\* Steps that begin a pass or end the daemon's work, and those that leave the timers alone.
LEMMA StepsInTime ==
    ASSUME TimeInv, Later(0),
           \/ pc' # "wait" /\ pending' = FALSE /\ age' \in Nat /\ due' \in Nat
           \/ UNCHANGED <<pending, age, due>>
    PROVE  TimeInv'
<1>1. age \in Nat /\ due \in Nat /\ (pending => age + due <= MaxDebounce)
  BY DEF TimeInv
<1>2. CASE pc' # "wait" /\ pending' = FALSE /\ age' \in Nat /\ due' \in Nat
  <2>1. \A p \in Groups : Current(p)'
    BY <1>2 DEF Current
  <2>2. late' \in [Groups -> Nat] /\ \A p \in Groups : late'[p] <= 0
    BY <2>1, NoLater
  <2> QED
    BY <1>2, <2>2 DEF TimeInv, Waited
<1>3. CASE UNCHANGED <<pending, age, due>>
  <2>1. Waited \in Nat /\ Waited' = Waited
    BY <1>1, <1>3 DEF Waited
  <2>2. late' \in [Groups -> Nat] /\ \A p \in Groups : late'[p] <= Waited
    BY <2>1, NoLater DEF TimeInv
  <2> QED
    BY <1>1, <1>3, <2>1, <2>2 DEF TimeInv
<1> QED
  BY <1>2, <1>3

LEMMA TimeNext ==
    ASSUME WatchBase, OwedInv, TimeInv, TimedNext \/ UNCHANGED tvars PROVE TimeInv'
<1>1. CASE UNCHANGED tvars
  <2>1. UNCHANGED <<pending, age, due, late>>
    BY <1>1 DEF tvars, vars, loop, timers
  <2> QED
    BY <2>1 DEF TimeInv, Waited
<1>2. CASE Tick
  BY <1>2, TickInTime
<1>3. ASSUME TimedStep, Later(0) PROVE TimeInv'
  <2>1. CASE TimedInotify
    BY <1>3, <2>1, InotifyInTime DEF WatchBase, TypeInv, TypeOK
  <2>2. CASE TimedPass
    <3>1. pc' = "discover" /\ pending' = FALSE /\ age' = 0 /\ due' = due
      BY <2>2 DEF TimedPass, PassDue
    <3> QED
      BY <1>3, <3>1, StepsInTime DEF TimeInv
  <2>3. CASE TimedResync
    <3>1. pc' = "discover" /\ pending' = FALSE /\ age' = 0 /\ due' = 0
      BY <2>3 DEF TimedResync, ResyncDue
    <3> QED
      BY <1>3, <3>1, StepsInTime
  <2>4. CASE TimedSwap
    <3>1. pc' = "discover" /\ pending' = FALSE /\ age' = 0 /\ due' = 0
      BY <2>4 DEF TimedSwap, WatchAndSwap
    <3> QED
      BY <1>3, <3>1, StepsInTime
  <2>5. CASE TimedStop
    <3>1. pc' = "start" /\ pending' = FALSE /\ age' = 0 /\ due' = 0
      BY <2>5 DEF TimedStop, Stop
    <3> QED
      BY <1>3, <3>1, StepsInTime
  <2>6. CASE TimedFinish
    <3>1. UNCHANGED <<pending, age, due>>
      BY <2>6 DEF TimedFinish, Finish
    <3> QED
      BY <1>3, <3>1, StepsInTime
  <2>7. CASE OtherStep /\ UNCHANGED timers
    <3>1. UNCHANGED pending
      BY <2>7 DEF OtherStep, PassStep, Start, Open, WatchFails, Reload, ChangeMember, RemoveDir,
                  MoveOut, MakeDir, MoveIn, Others, Discover, Sync, ScanLevel, Scan, loop
    <3>2. UNCHANGED <<pending, age, due>>
      BY <2>7, <3>1 DEF timers
    <3> QED
      BY <1>3, <3>2, StepsInTime
  <2> QED
    BY <1>3, <2>1, <2>2, <2>3, <2>4, <2>5, <2>6, <2>7 DEF TimedStep
<1> QED
  BY <1>1, <1>2, <1>3 DEF TimedNext

\* However changes go on, no group's views are out of date for longer than MAX_DEBOUNCE
\* without a pass being run (event_loop, handle_inotify).
THEOREM PassInTimeHolds == TimedSpec => []PassInTime
<1>1. TimedInit => TimeInv
  BY DEF TimedInit, Init, TimeInv, Waited
<1>2. WatchBase /\ OwedInv /\ TimeInv /\ [TimedNext]_tvars => TimeInv'
  BY TimeNext
<1>3. TimeInv => PassInTime
  <2> SUFFICES ASSUME TimeInv, NEW p \in Groups PROVE late[p] <= MaxDebounce
    BY DEF PassInTime
  <2>1. late[p] \in Nat /\ Waited \in Nat /\ Waited <= MaxDebounce /\ MaxDebounce \in Nat
    BY TimedAssumption DEF TimeInv, Waited
  <2> QED
    BY <2>1 DEF TimeInv
<1> QED
  BY <1>1, <1>2, <1>3, TimedImplements, OwedInvariant, WatchBaseInvariant, PTL DEF TimedSpec

=============================================================================
