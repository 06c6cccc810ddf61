------------------------------ MODULE TimedWatch ------------------------------
(***************************************************************************)
(* When byssusd runs its passes (src/src/daemon.rs, event_loop,            *)
(* handle_inotify and the end of pass): MembershipWatch with the timers    *)
(* that MembershipWatch lets fire at any time.  A burst of changes is      *)
(* awaited to its end, but not for ever; passes are repeated at intervals. *)
(*                                                                         *)
(* Time passes while the daemon has nothing to do but wait.                *)
(***************************************************************************)
EXTENDS MembershipWatch

CONSTANTS
    Debounce,     \* DEBOUNCE, in ticks
    MaxDebounce,  \* MAX_DEBOUNCE
    Interval      \* resync_interval

ASSUME TimedAssumption ==
    /\ Debounce \in Nat \ {0} /\ MaxDebounce \in Nat /\ Interval \in Nat \ {0}
    /\ Debounce <= MaxDebounce

VARIABLES
    age,     \* Daemon.pending: the time since the first change it stands for,
    due,     \* and the time to the pass
    resync,  \* next_resync, as the time that is left
    late     \* history: for how long each group's views have been out of date, with no pass

timers == <<age, due, resync>>
tvars == <<vars, timers, late>>

(***************************************************************************)
(* The history.                                                            *)
(***************************************************************************)

\* The daemon owes a group nothing: it is about to look, or the group has the views its
\* membership asks for, is given up, or resyncs are for it.
Current(p) == pc # "wait" \/ view[p] = MembersOf(p) \/ GivenUp(p) \/ Unwatched(p)

Later(ticks) == late' = [p \in Groups |-> IF Current(p)' THEN 0 ELSE late[p] + ticks]

(***************************************************************************)
(* Steps of MembershipWatch, with what they do to the timers.              *)
(***************************************************************************)

\* Mutant of DueAfter: every change starts the quiet period anew.
DueAfterEach(a) == Debounce

\* The time from now to a pass for changes the first of which is as old as a.
DueAfter(a) == IF Debounce <= MaxDebounce - a THEN Debounce ELSE MaxDebounce - a

\* There are events that ask for a pass.
Noticed ==
    overflow \/ \E e \in queue : label[e.wd] # None /\ ~(e.self /\ label[e.wd] \in Tops)

TimedInotify ==
    /\ HandleInotify
    /\ IF Noticed
       THEN age' = (IF pending THEN age ELSE 0) /\ due' = DueAfter(age')
       ELSE UNCHANGED <<age, due>>
    /\ UNCHANGED resync

TimedPass == PassDue /\ due = 0 /\ age' = 0 /\ UNCHANGED <<due, resync>>

TimedResync ==
    /\ ResyncDue /\ resync = 0
    /\ ~(pending /\ due = 0)
    /\ age' = 0 /\ due' = 0
    /\ UNCHANGED resync

TimedSwap == WatchAndSwap /\ age' = 0 /\ due' = 0 /\ UNCHANGED resync

TimedFinish == Finish /\ resync' = Interval /\ UNCHANGED <<age, due>>

TimedStop == Stop /\ age' = 0 /\ due' = 0 /\ resync' = 0

\* The other steps of a pass, of startup and of a reload.
PassStep == Discover \/ Sync \/ \E p \in Paths : ScanLevel(p) \/ Scan(p)
OtherStep ==
    \/ Start \/ WatchFails \/ PassStep
    \/ Reload
    \/ \E d \in Dirs, m \in Members : ChangeMember(d, m)
    \/ \E p \in Paths : \/ RemoveDir(p) \/ MoveOut(p)
                        \/ \E d \in Dirs : MakeDir(p, d) \/ MoveIn(p, d)

\* epoll_wait has no event to return, and no deadline has passed.
Tick ==
    /\ pc = "wait" /\ queue = {} /\ ~overflow
    /\ pending \/ Resyncs
    /\ pending => due > 0
    /\ Resyncs => resync > 0
    /\ age' = IF pending THEN age + 1 ELSE 0
    /\ due' = IF pending THEN due - 1 ELSE 0
    /\ resync' = IF Resyncs THEN resync - 1 ELSE 0
    /\ UNCHANGED vars
    /\ Later(1)

(***************************************************************************)
(* The system.                                                             *)
(***************************************************************************)

TimedInit ==
    /\ Init
    /\ age = 0 /\ due = 0 /\ resync = 0
    /\ late = [p \in Groups |-> 0]

TimedStep ==
    \/ TimedInotify \/ TimedPass \/ TimedResync
    \/ TimedSwap \/ TimedFinish \/ TimedStop
    \/ OtherStep /\ UNCHANGED timers

TimedNext == (TimedStep /\ Later(0)) \/ Tick

TimedSpec == TimedInit /\ [][TimedNext]_tvars

\* The kernel wakes the daemon for what it waits for, a service manager starts it again,
\* and time goes on.
TimedFairness ==
    /\ WF_tvars((Start \/ WatchFails) /\ UNCHANGED timers /\ Later(0))
    /\ WF_tvars(TimedSwap /\ Later(0))
    /\ WF_tvars(TimedInotify /\ Later(0)) /\ WF_tvars(TimedPass /\ Later(0))
    /\ WF_tvars(TimedResync /\ Later(0))
    /\ WF_tvars(PassStep /\ UNCHANGED timers /\ Later(0)) /\ WF_tvars(TimedFinish /\ Later(0))
    /\ WF_tvars(Tick)

TimedFairSpec == TimedSpec /\ TimedFairness

(***************************************************************************)
(* What the timers are for.                                                *)
(***************************************************************************)

\* However changes go on, no group's views are out of date for longer than
\* MAX_DEBOUNCE without a pass being run: continuous changes cannot postpone it for
\* ever, and no change is left to the next resync.
PassInTime == \A p \in Groups : late[p] <= MaxDebounce

=============================================================================
