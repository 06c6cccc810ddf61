------------------------------ MODULE Reconciler ------------------------------
(***************************************************************************)
(* One writer of byssus (byssusd, or byssus reconcile) running             *)
(* reconciliation passes against the kernel's mounts and the state file,   *)
(* while everybody else changes membership, sources and mounts.            *)
(*                                                                         *)
(* A pass (src/src/reconcile/mod.rs, run_pass) reads the membership, then  *)
(* the sources, then the targets; plans (ReconcilePlan); and executes the  *)
(* plan step by step (src/src/reconcile/execute.rs).  The three reads and  *)
(* the steps are separate actions, so anything may change in between.      *)
(* Every mount and every removal writes the whole state file before the    *)
(* next step; a crash may fall on either side of that write.               *)
(***************************************************************************)
EXTENDS ReconcilePlan, Sequences

CONSTANTS
    Configs,          \* configurations: functions from Keys to DesiredMount
    MntIds,           \* the kernel's reusable mount IDs
    UniqueSupported,  \* the kernel reports unique mount IDs (Linux 6.8)
    Foreign,          \* the creator of a mount byssus did not make
    Allowed,          \* bound: the kinds of disturbance considered
    Budget            \* bound: how often the world disturbs the daemon

\* What may go wrong, and what others may do.
Kinds == {"crash", "shutdown", "save", "attach", "identity", "umount",
          "config", "member", "readable", "source", "blocked",
          "foreign", "loosen", "reboot", "statefile"}

ASSUME ReconcilerAssumption ==
    /\ Configs \subseteq [Keys -> DesiredMount] /\ Configs # {}
    /\ MntIds \subseteq Nat
    /\ UniqueSupported \in BOOLEAN
    /\ Allowed \subseteq Kinds
    /\ Foreign \notin Keys
    /\ Budget \in Nat

VARIABLES
    members,     \* keys that have a membership file
    unreadable,  \* groups that are degraded or whose directory cannot be read
    conf,        \* the configuration: what each key asks for
    source,      \* the directory at each source location, or Gone
    blocked,     \* targets whose path cannot be resolved or inspected
    stack,       \* for each target, the mounts stacked there, the top one first
    nextUnique,  \* the kernel's next unique mount ID
    mem,         \* the state in memory
    disk,        \* the state file
    pc,          \* where the writer is in a pass
    seen,        \* what the pass has observed so far
    plan,        \* the plan being executed
    todo,        \* steps of the plan not finished yet
    bad,         \* keys whose removal step failed
    step,        \* the step being executed
    lost,        \* unique IDs of byssus mounts no record describes any more
    calm,        \* nothing has disturbed the pass since it began, or the next one
    covered,     \* history: members the last plan keeps waiting for a view it removes
    budget       \* disturbances left

world == <<members, unreadable, conf, source, blocked>>
kernel == <<stack, nextUnique>>
pass == <<seen, plan, todo, bad>>
meter == <<calm, covered, budget>>
vars == <<world, kernel, mem, disk, pc, pass, step, lost, meter>>

(***************************************************************************)
(* Values.                                                                 *)
(***************************************************************************)

Mount == [mnt_id : MntIds, unique : Nat \ {0}, root : DevInos,
          attrs : SUBSET Restrictions, by : Keys \cup {Foreign}]

PlanStep == [op : {"remove", "mount"}, key : Keys]

NoStep == [op |-> "none"]
NoPlan == [k \in Keys |-> Step(FALSE, "none", FALSE, {}, {})]
NothingSeen == [desired |-> {}, frozen |-> {}, sources |-> [k \in Keys |-> Gone]]
NoRecords == [k \in Keys |-> NoRecord]

\* read_identity: what statx reports of a mount.
ReadIdentity(m) ==
    [mnt_id |-> m.mnt_id, unique |-> IF UniqueSupported THEN m.unique ELSE NoUnique,
     root |-> m.root]

Mounts(t) == {stack[t][i] : i \in DOMAIN stack[t]}
AllMounts == UNION {Mounts(t) : t \in Targets}
Top(t) == Head(stack[t])

\* The kernel hands out a mount ID that is not in use, so one that was.
FreeIds == MntIds \ {m.mnt_id : m \in AllMounts}
NewMountId == CHOOSE i \in FreeIds : TRUE

Push(t, m) == stack' = [stack EXCEPT ![t] = <<m>> \o @]
Pop(t) == stack' = [stack EXCEPT ![t] = Tail(@)]

\* mount::inspect.
Inspect(t) ==
    IF t \in blocked THEN TargetUnavailable
    ELSE IF stack[t] = <<>> THEN NotMounted
    ELSE Mounted(ReadIdentity(Top(t)), TRUE, Top(t).attrs)

\* Mutant of OpenVerified: whatever is on top of the target is taken for ours.
OpenUnverified(t, identity) == t \notin blocked /\ stack[t] # <<>>

\* open_verified: the top mount at t is the one the identity describes.
OpenVerified(t, identity) ==
    /\ t \notin blocked
    /\ stack[t] # <<>>
    /\ Matches(ReadIdentity(Top(t)), identity)

\* Something happens that an undisturbed pass does not meet.
Disturbance(kind) ==
    /\ kind \in Allowed
    /\ budget > 0
    /\ budget' = budget - 1
    /\ calm' = FALSE
    /\ UNCHANGED covered

(***************************************************************************)
(* Observation.                                                            *)
(***************************************************************************)

\* observe: directories that cannot be read freeze their group.
ScanMembership ==
    /\ pc = "idle"
    /\ seen' = [NothingSeen EXCEPT !.desired = {k \in members : GroupOf[k] \notin unreadable},
                                   !.frozen = unreadable]
    /\ pc' = "sources"
    /\ calm' = TRUE
    /\ UNCHANGED <<world, kernel, mem, disk, plan, todo, bad, step, lost, covered, budget>>

ResolveSources ==
    /\ pc = "sources"
    /\ seen' = [seen EXCEPT !.sources = [k \in Keys |-> source[conf[k].source]]]
    /\ pc' = "targets"
    /\ UNCHANGED <<world, kernel, mem, disk, plan, todo, bad, step, lost, meter>>

PlanInput(observed) ==
    [desired |-> [k \in observed.desired |-> conf[k]],
     records |-> mem,
     frozen  |-> observed.frozen,
     sources |-> observed.sources,
     targets |-> [t \in Targets |-> Inspect(t)]]

StepsOf(p) ==
    {[op |-> "remove", key |-> k] : k \in {j \in Keys : p[j].removal # "none"}}
      \cup {[op |-> "mount", key |-> k] : k \in {j \in Keys : p[j].mount}}

\* Recorded members whose target is under the view of another key, as the plan p
\* reports (row 7), although it removes that view.
CoveredBy(in, p) ==
    {k \in Keys : /\ "TargetReplaced" \in p[k].findings
                  /\ FreedBy(in, in.desired[k].target) # {}}

\* Targets are inspected last; planning itself reads nothing more.
InspectAndPlan ==
    /\ pc = "targets"
    /\ LET in == PlanInput(seen)
           p == Plan(in)
       IN  /\ todo' = StepsOf(p)
           /\ plan' = IF IsNoop(p) THEN NoPlan ELSE p
           /\ pc' = IF IsNoop(p) THEN "idle" ELSE "run"
           /\ covered' = CoveredBy(in, p)
    /\ bad' = {}
    /\ seen' = NothingSeen
    /\ UNCHANGED <<world, kernel, mem, disk, step, lost, calm, budget>>

(***************************************************************************)
(* Execution.  Removals run before mounts, those of phase A first, each in *)
(* the order of keys.                                                      *)
(***************************************************************************)

Rank(s) == IF s.op = "mount" THEN 2 ELSE IF plan[s.key].departing THEN 0 ELSE 1

Due(s) ==
    /\ pc = "run"
    /\ s \in todo
    /\ \A r \in todo : Rank(s) < Rank(r) \/ (Rank(s) = Rank(r) /\ s.key <= r.key)

\* The step is over, and with the last one the pass.
Finish(s, done) ==
    /\ todo' = todo \ {s}
    /\ bad' = IF todo = {s} THEN {}
              ELSE IF done \/ s.op = "mount" THEN bad ELSE bad \cup {s.key}
    /\ step' = NoStep
    /\ pc' = IF todo = {s} THEN "idle" ELSE "run"
    /\ plan' = IF todo = {s} THEN NoPlan ELSE plan
    /\ UNCHANGED seen

\* A step whose dependency did not succeed is skipped.
SkipMount(k) ==
    LET s == [op |-> "mount", key |-> k]
    IN  /\ Due(s)
        /\ plan[k].after \cap bad # {}
        /\ Finish(s, FALSE)
        /\ UNCHANGED <<world, kernel, mem, disk, lost, meter>>

\* Mutant of ResolveMount: the target is trusted to be free, as planned, even
\* if the removal that should have freed it failed.
ResolveMountTrustingPlan(k) ==
    LET s == [op |-> "mount", key |-> k]
        d == conf[k]
    IN  /\ Due(s)
        /\ IF source[d.source] = Gone \/ d.target \in blocked
             THEN Finish(s, FALSE)
             ELSE /\ step' = [op |-> "attach", key |-> k, root |-> source[d.source]]
                  /\ pc' = "attach"
                  /\ UNCHANGED pass
        /\ UNCHANGED <<world, kernel, mem, disk, lost, meter>>

\* try_mount up to create_bind: the source is resolved again, the target must
\* resolve and must not be a mount root now.
ResolveMount(k) ==
    LET s == [op |-> "mount", key |-> k]
        d == conf[k]
    IN  /\ Due(s)
        /\ plan[k].after \cap bad = {}
        /\ IF source[d.source] = Gone \/ d.target \in blocked \/ stack[d.target] # <<>>
             THEN Finish(s, FALSE)
             ELSE /\ step' = [op |-> "attach", key |-> k, root |-> source[d.source]]
                  /\ pc' = "attach"
                  /\ UNCHANGED pass
        /\ UNCHANGED <<world, kernel, mem, disk, lost, meter>>

\* The mount create_bind attaches: restricted before it becomes visible.
NewMount(k, root) ==
    [mnt_id |-> NewMountId, unique |-> nextUnique, root |-> root,
     attrs |-> conf[k].attrs \cup AlwaysOn, by |-> k]

\* Mutant of RecordOf: the record remembers what the mount enforces instead of
\* what the member asked for.
RecordOfEnforced(k, m) ==
    [source |-> conf[k].source, target |-> conf[k].target, attrs |-> m.attrs,
     identity |-> ReadIdentity(m)]

RecordOf(k, m) ==
    [source |-> conf[k].source, target |-> conf[k].target, attrs |-> conf[k].attrs,
     identity |-> ReadIdentity(m)]

\* Mutant of AttachMount: the identity is read through the target's path, before
\* the new mount is there.
AttachMountReadingPath(k) ==
    LET m == NewMount(k, step.root)
        t == conf[k].target
        identity == ReadIdentity(IF stack[t] = <<>> THEN m ELSE Top(t))
    IN  /\ pc = "attach" /\ step.key = k
        /\ FreeIds # {}
        /\ Push(t, m)
        /\ nextUnique' = nextUnique + 1
        /\ mem' = [mem EXCEPT ![k] = [RecordOf(k, m) EXCEPT !.identity = identity]]
        /\ step' = [op |-> "mount", key |-> k, previous |-> mem[k],
                    identity |-> identity, unique |-> m.unique]
        /\ pc' = "save"
        /\ UNCHANGED <<world, disk, pass, lost, meter>>

\* create_bind succeeds; the record goes into memory and is about to be saved.
AttachMount(k) ==
    LET m == NewMount(k, step.root)
    IN  /\ pc = "attach" /\ step.key = k
        /\ FreeIds # {}
        /\ Push(conf[k].target, m)
        /\ nextUnique' = nextUnique + 1
        /\ mem' = [mem EXCEPT ![k] = RecordOf(k, m)]
        /\ step' = [op |-> "mount", key |-> k, previous |-> mem[k],
                    identity |-> ReadIdentity(m), unique |-> m.unique]
        /\ pc' = "save"
        /\ UNCHANGED <<world, disk, pass, lost, meter>>

\* create_bind fails once the mount is attached: read_identity of the new mount
\* returns an error, which try_mount passes on without undoing the mount.
AttachUnidentified(k) ==
    LET m == NewMount(k, step.root)
    IN  /\ pc = "attach" /\ step.key = k
        /\ FreeIds # {}
        /\ Disturbance("identity")
        /\ Push(conf[k].target, m)
        /\ nextUnique' = nextUnique + 1
        /\ lost' = lost \cup {m.unique}
        /\ Finish([op |-> "mount", key |-> k], FALSE)
        /\ UNCHANGED <<world, mem, disk>>

\* A system call of create_bind fails before anything is attached.
AttachFails(k) ==
    /\ pc = "attach" /\ step.key = k
    /\ Disturbance("attach")
    /\ Finish([op |-> "mount", key |-> k], FALSE)
    /\ UNCHANGED <<world, kernel, mem, disk, lost>>

\* try_unmount up to umount2: the target is opened, which pins the mount on top of it,
\* and the mount must be the recorded one.
VerifyRemoval(k) ==
    LET s == [op |-> "remove", key |-> k]
        t == mem[k].target
    IN  /\ Due(s) /\ plan[k].removal = "unmount"
        /\ IF OpenVerified(t, mem[k].identity)
             THEN /\ step' = [op |-> "unmount", key |-> k, pinned |-> Top(t).unique]
                  /\ pc' = "umount"
                  /\ UNCHANGED pass
             ELSE Finish(s, FALSE)
        /\ UNCHANGED <<world, kernel, mem, disk, lost, meter>>

\* The pinned mount is still where it was found, perhaps under others.
Attached(t) == \E m \in Mounts(t) : m.unique = step.pinned

\* What becomes of an own mount that umount2 was to take away: it is gone, or it was not
\* on top any more and stays.
Missed(t, unique) == {unique} \ {Top(t).unique}

\* umount2 of the descriptor's link: the kernel goes from the pinned mount to whatever
\* has been stacked on it since, and takes that away; then the record goes.  If others
\* have unmounted the pinned mount, the call fails.
Unmount(k) ==
    LET s == [op |-> "remove", key |-> k]
        t == mem[k].target
    IN  /\ pc = "umount" /\ step.op = "unmount" /\ step.key = k
        /\ IF Attached(t)
             THEN /\ Pop(t)
                  /\ mem' = [mem EXCEPT ![k] = NoRecord]
                  /\ lost' = lost \cup Missed(t, step.pinned)
                  /\ step' = s
                  /\ pc' = "save"
                  /\ UNCHANGED pass
             ELSE Finish(s, FALSE) /\ UNCHANGED <<stack, mem, lost>>
        /\ UNCHANGED <<world, nextUnique, disk, meter>>

\* umount2, or the check of the link before it, fails.
UnmountFails(k) ==
    /\ pc = "umount" /\ step.op = "unmount" /\ step.key = k
    /\ Disturbance("umount")
    /\ Finish([op |-> "remove", key |-> k], FALSE)
    /\ UNCHANGED <<world, kernel, mem, disk, lost>>

\* Live mounts of byssus that the record of k is the claim to.
ClaimedBy(k) ==
    {m \in AllMounts : m.by # Foreign /\ Matches(ReadIdentity(m), mem[k].identity)}

\* drop_record: the target is not looked at again.
Drop(k) ==
    LET s == [op |-> "remove", key |-> k]
    IN  /\ Due(s) /\ plan[k].removal = "drop"
        /\ lost' = lost \cup {m.unique : m \in ClaimedBy(k)}
        /\ mem' = [mem EXCEPT ![k] = NoRecord]
        /\ step' = s
        /\ pc' = "save"
        /\ UNCHANGED <<world, kernel, disk, pass, meter>>

SavedStep == [op |-> step.op, key |-> step.key]

\* try_mount has made a mount and is not done with it.
Making == step.op \in {"mount", "rollback", "undo"}

\* StateStore::save: the whole state replaces the file.
SaveSucceeds ==
    /\ pc = "save"
    /\ disk' = mem
    /\ Finish(SavedStep, TRUE)
    /\ UNCHANGED <<world, kernel, mem, lost, meter>>

\* Mutant of SaveFails: the record is put back but the new mount stays.
SaveFailsKeepingMount(late) ==
    /\ pc = "save"
    /\ Disturbance("save")
    /\ disk' = IF late THEN mem ELSE disk
    /\ mem' = IF step.op = "remove" THEN mem ELSE [mem EXCEPT ![step.key] = step.previous]
    /\ Finish(SavedStep, FALSE)
    /\ UNCHANGED <<world, kernel, lost>>

\* Mutant of SaveFails: no rollback; mount and record stay, in memory only.
SaveFailsWithoutRollback(late) ==
    /\ pc = "save"
    /\ Disturbance("save")
    /\ disk' = IF late THEN mem ELSE disk
    /\ Finish(SavedStep, FALSE)
    /\ UNCHANGED <<world, kernel, mem, lost>>

\* The save fails before the rename (late = FALSE) or after it, syncing the
\* directory.  A mount is then to be undone, record first; a removal is not.
SaveFails(late) ==
    /\ pc = "save"
    /\ Disturbance("save")
    /\ disk' = IF late THEN mem ELSE disk
    /\ IF step.op = "remove"
         THEN Finish(SavedStep, FALSE) /\ UNCHANGED mem
         ELSE /\ mem' = [mem EXCEPT ![step.key] = step.previous]
              /\ step' = [op |-> "rollback", key |-> step.key,
                          identity |-> step.identity, unique |-> step.unique]
              /\ pc' = "rollback"
              /\ UNCHANGED pass
    /\ UNCHANGED <<world, kernel, lost>>

\* The rollback of try_mount verifies the new mount like a recorded one.
VerifyRollback ==
    LET t == conf[step.key].target
    IN  /\ pc = "rollback"
        /\ IF OpenVerified(t, step.identity)
             THEN /\ step' = [op |-> "undo", key |-> step.key, unique |-> step.unique,
                              pinned |-> Top(t).unique]
                  /\ pc' = "umount"
                  /\ UNCHANGED <<pass, lost>>
             ELSE /\ lost' = lost \cup {step.unique}
                  /\ Finish([op |-> "mount", key |-> step.key], FALSE)
        /\ UNCHANGED <<world, kernel, mem, disk, meter>>

\* The same umount2, for the rollback.
Rollback ==
    LET t == conf[step.key].target
    IN  /\ pc = "umount" /\ step.op = "undo"
        /\ IF Attached(t)
             THEN Pop(t) /\ lost' = lost \cup Missed(t, step.unique)
             ELSE lost' = lost \cup {step.unique} /\ UNCHANGED stack
        /\ Finish([op |-> "mount", key |-> step.key], FALSE)
        /\ UNCHANGED <<world, nextUnique, mem, disk, meter>>

RollbackFails ==
    /\ pc = "umount" /\ step.op = "undo"
    /\ Disturbance("umount")
    /\ lost' = lost \cup {step.unique}
    /\ Finish([op |-> "mount", key |-> step.key], FALSE)
    /\ UNCHANGED <<world, kernel, mem, disk>>

(***************************************************************************)
(* Life of the process.                                                    *)
(***************************************************************************)

\* The process ends: what it had in memory and in hand is gone.
Dies ==
    /\ pc' = "down"
    /\ mem' = NoRecords
    /\ seen' = NothingSeen
    /\ plan' = NoPlan
    /\ todo' = {}
    /\ bad' = {}
    /\ step' = NoStep

\* A crash at any point.  With a mount attached and not yet saved, nobody will
\* know the mount for one of byssus.
Crash ==
    /\ pc # "down"
    /\ Disturbance("crash")
    /\ lost' = IF Making THEN lost \cup {step.unique} ELSE lost
    /\ Dies
    /\ UNCHANGED <<world, kernel, disk>>

\* SIGTERM: the state is written once more, mounts stay.
Shutdown(saved) ==
    /\ pc = "idle"
    /\ Disturbance("shutdown")
    /\ disk' = IF saved THEN mem ELSE disk
    /\ Dies
    /\ UNCHANGED <<world, kernel, lost>>

\* Mutant of Restart: the writer starts with an empty state.
RestartEmpty ==
    /\ pc = "down"
    /\ mem' = NoRecords
    /\ pc' = "idle"
    /\ UNCHANGED <<world, kernel, disk, pass, step, lost, meter>>

\* open_state_for_write: the state is what the file holds.
Restart ==
    /\ pc = "down"
    /\ mem' = disk
    /\ pc' = "idle"
    /\ UNCHANGED <<world, kernel, disk, pass, step, lost, meter>>

\* A reload, or a restart with another configuration, between two passes.
Reconfigure(c) ==
    /\ pc \in {"idle", "down"}
    /\ Disturbance("config")
    /\ c # conf
    /\ conf' = c
    /\ UNCHANGED <<members, unreadable, source, blocked, kernel, mem, disk, pc, pass, step, lost>>

(***************************************************************************)
(* Everybody else.                                                         *)
(***************************************************************************)

Others == <<mem, disk, pc, pass, step, lost>>

\* An empty file appears in, or disappears from, a membership directory.
ToggleMember(k) ==
    /\ Disturbance("member")
    /\ members' = IF k \in members THEN members \ {k} ELSE members \cup {k}
    /\ UNCHANGED <<unreadable, conf, source, blocked, kernel, Others>>

\* A group's directory is lost or cannot be read, or is back (after a reload).
ToggleReadable(g) ==
    /\ Disturbance("readable")
    /\ unreadable' = IF g \in unreadable THEN unreadable \ {g} ELSE unreadable \cup {g}
    /\ UNCHANGED <<members, conf, source, blocked, kernel, Others>>

\* A source directory is deleted, created or replaced.
ChangeSource(s, d) ==
    /\ Disturbance("source")
    /\ source[s] # d
    /\ source' = [source EXCEPT ![s] = d]
    /\ UNCHANGED <<members, unreadable, conf, blocked, kernel, Others>>

\* A target's path stops resolving (a symlink, permissions, an I/O error), or
\* resolves again.
ToggleBlocked(t) ==
    /\ Disturbance("blocked")
    /\ blocked' = IF t \in blocked THEN blocked \ {t} ELSE blocked \cup {t}
    /\ UNCHANGED <<members, unreadable, conf, source, kernel, Others>>

\* Somebody mounts a directory over the target.
ForeignMount(t, d) ==
    /\ Disturbance("foreign")
    /\ FreeIds # {}
    /\ Push(t, [mnt_id |-> NewMountId, unique |-> nextUnique, root |-> d,
                attrs |-> {}, by |-> Foreign])
    /\ nextUnique' = nextUnique + 1
    /\ UNCHANGED <<world, Others>>

\* Somebody unmounts whatever is on top.
ForeignUnmount(t) ==
    /\ Disturbance("foreign")
    /\ stack[t] # <<>>
    /\ Pop(t)
    /\ UNCHANGED <<world, nextUnique, Others>>

\* Somebody remounts the top mount with no restriction at all.
LoosenMount(t) ==
    /\ Disturbance("loosen")
    /\ stack[t] # <<>> /\ Top(t).attrs # {}
    /\ stack' = [stack EXCEPT ![t] = <<[Top(t) EXCEPT !.attrs = {}]>> \o Tail(@)]
    /\ UNCHANGED <<world, nextUnique, Others>>

\* The host reboots: bind mounts do not survive, the state file does.  The
\* kernel numbers mounts afresh, unique mount IDs too.
Reboot ==
    /\ pc = "down"
    /\ Disturbance("reboot")
    /\ stack' = [t \in Targets |-> <<>>]
    /\ nextUnique' = 1
    /\ lost' = {}
    /\ UNCHANGED <<world, mem, disk, pc, pass, step>>

\* The state file is deleted or found corrupt: the next start begins with an
\* empty state, and what the file claimed is nobody's.
LoseStateFile ==
    /\ pc = "down"
    /\ Disturbance("statefile")
    /\ disk' = NoRecords
    /\ lost' = lost \cup {m.unique : m \in {n \in AllMounts : n.by # Foreign}}
    /\ UNCHANGED <<world, kernel, mem, pc, pass, step>>

(***************************************************************************)
(* The system.                                                             *)
(***************************************************************************)

Init ==
    /\ members \in SUBSET Keys
    /\ unreadable = {}
    /\ conf \in Configs
    /\ source \in [Sources -> DevInos]
    /\ blocked = {}
    /\ stack = [t \in Targets |-> <<>>]
    /\ nextUnique = 1
    /\ mem = NoRecords
    /\ disk = NoRecords
    /\ pc = "down"
    /\ seen = NothingSeen
    /\ plan = NoPlan
    /\ todo = {}
    /\ bad = {}
    /\ step = NoStep
    /\ lost = {}
    /\ calm = FALSE
    /\ covered = {}
    /\ budget = Budget

\* What the writer does when nothing fails: the steps it never stops taking.
Daemon ==
    \/ Restart
    \/ ScanMembership
    \/ ResolveSources
    \/ InspectAndPlan
    \/ \E k \in Keys : SkipMount(k) \/ ResolveMount(k) \/ AttachMount(k)
                         \/ VerifyRemoval(k) \/ Unmount(k) \/ Drop(k)
    \/ SaveSucceeds
    \/ VerifyRollback
    \/ Rollback

Failure ==
    \/ \E k \in Keys : AttachUnidentified(k) \/ AttachFails(k) \/ UnmountFails(k)
    \/ \E late \in BOOLEAN : SaveFails(late)
    \/ RollbackFails
    \/ Crash
    \/ \E saved \in BOOLEAN : Shutdown(saved)

Environment ==
    \/ \E c \in Configs : Reconfigure(c)
    \/ \E k \in Keys : ToggleMember(k)
    \/ \E g \in Groups : ToggleReadable(g)
    \/ \E s \in Sources, d \in DevInos \cup {Gone} : ChangeSource(s, d)
    \/ \E t \in Targets : ToggleBlocked(t) \/ ForeignUnmount(t) \/ LoosenMount(t)
    \/ \E t \in Targets, d \in DevInos : ForeignMount(t, d)
    \/ Reboot
    \/ LoseStateFile

Next == Daemon \/ Failure \/ Environment

Spec == Init /\ [][Next]_vars

\* The event loop runs a pass at least at every resync and never blocks on a
\* step; systemd starts the daemon again.
FairSpec == Spec /\ WF_vars(Daemon)

(***************************************************************************)
(* Properties.                                                             *)
(***************************************************************************)

StepType ==
    {NoStep}
      \cup [op : {"attach"}, key : Keys, root : DevInos]
      \cup [op : {"mount"}, key : Keys, previous : MountRecord \cup {NoRecord},
            identity : Identity, unique : Nat \ {0}]
      \cup [op : {"rollback"}, key : Keys, identity : Identity, unique : Nat \ {0}]
      \cup [op : {"undo"}, key : Keys, unique : Nat \ {0}, pinned : Nat \ {0}]
      \cup [op : {"remove"}, key : Keys]
      \cup [op : {"unmount"}, key : Keys, pinned : Nat \ {0}]

WorldOK ==
    /\ members \subseteq Keys
    /\ unreadable \subseteq Groups
    /\ conf \in Configs
    /\ source \in [Sources -> DevInos \cup {Gone}]
    /\ blocked \subseteq Targets

KernelOK ==
    /\ stack \in [Targets -> Seq(Mount)]
    /\ nextUnique \in Nat \ {0}

StateOK ==
    /\ mem \in [Keys -> MountRecord \cup {NoRecord}]
    /\ disk \in [Keys -> MountRecord \cup {NoRecord}]

PassOK ==
    /\ seen \in [desired : SUBSET Keys, frozen : SUBSET Groups,
                 sources : [Keys -> DevInos \cup {Gone}]]
    /\ plan \in [Keys -> KeyPlan]
    /\ todo \subseteq PlanStep
    /\ bad \subseteq Keys

\* The step in hand fits the place in the pass.
StepOK ==
    /\ pc \in {"down", "idle", "sources", "targets", "run", "attach", "save", "rollback",
               "umount"}
    /\ step \in StepType
    /\ step.op = "none" <=> pc \in {"down", "idle", "sources", "targets", "run"}
    /\ step.op = "attach" <=> pc = "attach"
    /\ step.op \in {"mount", "remove"} <=> pc = "save"
    /\ step.op = "rollback" <=> pc = "rollback"
    /\ step.op \in {"unmount", "undo"} <=> pc = "umount"

MeterOK ==
    /\ lost \subseteq Nat \ {0}
    /\ calm \in BOOLEAN
    /\ covered \subseteq Keys
    /\ budget \in 0..Budget

\* Every variable has its type, and what the executor has in hand fits the place
\* in the pass: no step attaches a source that did not resolve.
TypeOK == WorldOK /\ KernelOK /\ StateOK /\ PassOK /\ StepOK /\ MeterOK

\* A pass takes views down before it puts views up, and each record to be removed
\* is there until its turn: while a mount is made no removal is outstanding, and
\* outside a pass nothing is (Plan::finish, execute).
RemovalsComeFirst ==
    /\ pc \in {"down", "idle", "sources", "targets"} => todo = {}
    /\ pc = "attach" \/ Making => \A s \in todo : s.op = "mount"
    /\ step.op = "unmount" => [op |-> "remove", key |-> step.key] \in todo
    /\ \A s \in todo :
         s.op = "remove" => mem[s.key] # NoRecord \/ (pc = "save" /\ step = s)

\* The identity is that of a mount there has been, and not of a foreign one.
Own(identity) ==
    /\ identity.unique \in 1..(nextUnique - 1)
    /\ \A m \in AllMounts : m.by = Foreign => m.unique # identity.unique

\* No record, in memory, in the state file or about to be restored by a rollback,
\* carries the identity of a foreign mount, now or ever: with unique mount IDs that
\* are never handed out twice, a match means the mount is byssus's.
RecordsNameOwnMounts ==
    /\ \A m \in AllMounts : m.unique < nextUnique
    /\ \A k \in Keys : /\ mem[k] # NoRecord => Own(mem[k].identity)
                       /\ disk[k] # NoRecord => Own(disk[k].identity)
    /\ step.op \in {"mount", "rollback"} => Own(step.identity)
    /\ step.op = "mount" /\ step.previous # NoRecord => Own(step.previous.identity)

\* The writer's own steps, as opposed to those of others, move the pass on.
WriterMoves == <<pc, todo>>' # <<pc, todo>>

\* Somebody has stacked a mount on the one of byssus that is about to be unmounted, after
\* it was verified.
StackedSince(t) ==
    /\ pc = "umount" /\ Top(t).unique # step.pinned
    /\ \E m \in Mounts(t) : m.unique = step.pinned /\ m.by # Foreign

\* Whatever others mount, unmount or remount and wherever it crashed, byssus unmounts
\* only mounts it made and, instead of such a mount, what was stacked on it between
\* the check and umount2 (execute.rs try_unmount and the rollback of try_mount, mount.rs
\* unmount_verified).
OnlyOwnMountsRemoved ==
    [][\A t \in Targets :
          WriterMoves /\ stack[t] # <<>> /\ stack'[t] = Tail(stack[t])
            => Top(t).by # Foreign \/ StackedSince(t)]_vars

Claims(records, t, m) ==
    \E k \in Keys : /\ records[k] # NoRecord
                    /\ records[k].target = t
                    /\ Matches(ReadIdentity(m), records[k].identity)

InHand(m) == Making /\ step.unique = m.unique

\* The record of the mount in hand is gone, the mount is to follow.
Undone(m) == InHand(m) /\ pc # "save"

\* Every mount byssus made is claimed by a record in memory and by one in the
\* state file, so that the next pass and the next start know it for byssus's own.
\* The exceptions are the mount in hand and the mounts in `lost': those a crash or
\* a failed rollback stranded, those whose identity could not be read, those whose
\* record was dropped under another mount, those spared because umount2 met a mount
\* stacked on them since they were verified, and those the state file no longer names
\* because it was lost.
MountsAccountedFor ==
    \A t \in Targets : \A m \in Mounts(t) :
        m.by # Foreign /\ m.unique \notin lost
          => /\ pc # "down" => Claims(mem, t, m) \/ Undone(m)
             /\ Claims(disk, t, m) \/ InHand(m)

\* At most one mount of byssus on a target, stacked or not: create_bind is not
\* called on a mount root, even if the plan saw the target free.
OneViewPerTarget ==
    \A t \in Targets : \A i, j \in DOMAIN stack[t] :
        stack[t][i].by # Foreign /\ stack[t][j].by # Foreign => i = j

\* Membership as a scan would find it now.
Wanted0 == {k \in members : GroupOf[k] \notin unreadable}

\* k's view is up: its directory, its restrictions, its record.
InPlace(k) ==
    LET t == conf[k].target
    IN  /\ stack[t] # <<>>
        /\ Top(t).by = k
        /\ Top(t).root = source[conf[k].source]
        /\ Enforces(Top(t).attrs, conf[k].attrs)
        /\ mem[k] # NoRecord
        /\ mem[k] = RecordOf(k, Top(t))

\* Somebody byssus may not touch is on top of the target: a foreign mount, a
\* mount byssus has lost, or the mount of a frozen group.
Occupied(t) ==
    /\ stack[t] # <<>>
    /\ \/ Top(t).by = Foreign
       \/ Top(t).unique \in lost
       \/ GroupOf[Top(t).by] \in unreadable

Contested(k) == \E j \in Wanted0 \ {k} : conf[j].target = conf[k].target

\* Where a key is left by a pass nobody disturbed: its view is up; or there is no
\* record, and the reason is one the decision table names; or the record stays
\* because its target cannot be inspected, or is hidden under another mount.
Settled(k) ==
    \/ k \in Wanted0 /\ InPlace(k)
    \/ /\ mem[k] = NoRecord
       /\ \/ k \notin Wanted0
          \/ Contested(k)
          \/ source[conf[k].source] = Gone
          \/ conf[k].target \in blocked
          \/ Occupied(conf[k].target)
    \/ /\ mem[k] # NoRecord
       /\ \/ mem[k].target \in blocked
          \/ /\ k \in Wanted0
             /\ mem[k].target = conf[k].target /\ mem[k].source = conf[k].source
             /\ Occupied(conf[k].target)

\* The next pass is due for k: the plan of this one kept its record because of a view on
\* its target, and took that view away (README, disagreements).
Waits(k) ==
    /\ k \in covered \cap Wanted0
    /\ mem[k] # NoRecord /\ mem[k].target = conf[k].target
    /\ stack[conf[k].target] = <<>>

\* One undisturbed pass is enough: when it ends, every key whose group can be
\* read is where membership, configuration and sources want it.
CalmPassSettles ==
    calm /\ pc = "idle" =>
        \A k \in Keys : GroupOf[k] \notin unreadable => Settled(k) \/ Waits(k)

\* What a pass would find now, and what it would plan.
InputNow ==
    PlanInput([desired |-> Wanted0, frozen |-> unreadable,
               sources |-> [k \in Keys |-> source[conf[k].source]]])

PlanNow == Plan(InputNow)

\* A pass that nobody disturbed leaves the next one nothing to do: byssus never
\* removes and re-creates the same view over and over.
CalmPassIsFinal ==
    calm /\ pc = "idle" =>
        \A k \in Keys : Waits(k) \/ (PlanNow[k].removal = "none" /\ ~PlanNow[k].mount)

\* When the disturbances end, and nothing fails, the views converge and the
\* daemon stops acting.
Converges ==
    <>[](todo = {} /\ (pc = "idle" =>
            \A k \in Keys : GroupOf[k] \notin unreadable => Settled(k)))

\* Outside a step in hand, a mount byssus made has a record.
NeverUnrecorded ==
    pc = "idle" => \A t \in Targets : \A m \in Mounts(t) :
                       m.by # Foreign => Claims(mem, t, m)

(***************************************************************************)
(* The promise about mounts.                                               *)
(***************************************************************************)

\* Whose a mount is: a mount of byssus is named by the state file, or it is the one just
\* made, or nothing names it.
Standing(t, m) ==
    IF m.by = Foreign THEN "foreign"
    ELSE IF InHand(m) THEN "hand"
    ELSE IF Claims(disk, t, m) THEN "kept"
    ELSE "stray"

Standings(s) ==
    UNION {{m.unique : m \in {n \in Mounts(t) : Standing(t, n) = s}} : t \in Targets}

\* The target whose mount is pinned.
AimTarget == IF step.op = "unmount" THEN mem[step.key].target ELSE conf[step.key].target

\* The pinned mount, while it is there, and what lies on top of it.
Aim == IF pc = "umount" /\ Attached(AimTarget) THEN {step.pinned} ELSE {}

Over ==
    IF pc # "umount" THEN {}
    ELSE LET st == stack[AimTarget]
         IN  {st[i].unique : i \in {j \in DOMAIN st : \E l \in DOMAIN st : j < l /\ st[l].unique = step.pinned}}

Ledger == INSTANCE MountLedger WITH
    foreign <- Standings("foreign"),
    hand    <- Standings("hand"),
    kept    <- Standings("kept"),
    stray   <- Standings("stray"),
    aim     <- Aim,
    over    <- Over,
    next    <- nextUnique,
    turn    <- <<pc, todo>>

\* Whatever fails and whoever interferes, the writer unmounts only mounts it made and the
\* state file names, or the one it has just made, or what others have stacked on such a
\* mount since it was verified; once no record names a mount it is never named again and
\* never touched (execute.rs, try_mount with its rollback, try_unmount, drop_record;
\* mount.rs, unmount_verified).
LedgerSpec == Ledger!Spec

=============================================================================
