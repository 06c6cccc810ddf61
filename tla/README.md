# Byssus: a TLA+ verification project

Byssus keeps *views*: for every member of a group (an empty file in a membership
directory) it bind-mounts the member's source directory beneath the group's target
root, with restrictions, and removes the mount when the file goes. `byssusd` does
this continuously; `byssus reconcile` does one pass. This directory holds TLA+
modules of its core logic, TLC configurations that check them on small instances,
and TLAPS proofs of what matters most for every instance. All paths below are
relative to the repository; `src/docs/DESIGN.md` is the design document the code
comments refer to.

## The system

| Part | Source | State it keeps | Operations | Interacts with |
|------|--------|----------------|------------|----------------|
| Planner | `reconcile/plan.rs`, `identity.rs` | none (pure) | `plan` | is given what a pass observed, returns steps and findings |
| Pass and executor | `reconcile/mod.rs`, `observe.rs`, `execute.rs`, `mount.rs` | the in-memory `State` | `run_pass`: observe, plan, execute | kernel mounts, state file, membership directories |
| State file | `state.rs`, `lock.rs`, `app.rs` (`open_state_for_write`) | `state.json`, `state.json.tmp`, `lock` | load, save, lock | daemon, `byssus reconcile`, read-only commands |
| Daemon | `daemon.rs`, `watcher.rs`, `signals.rs`, `notify.rs` | pending pass, resync timer, degraded groups, watches | event loop, inotify, SIGHUP reload, SIGTERM | inotify, signals, systemd, the pass |
| Discovery | `runtime.rs`, `fsops.rs`, `membership.rs`, `name.rs` | open directories, groups of group sets | open, discover, scan | file system |
| Configuration | `config.rs`, `template.rs` | none | load its files, parse, validate | all of the above |
| Privileges | `privileges/plan.rs`, `apply.rs`, `users.rs` | process credentials | plan, apply, verify | kernel |
| Probes | `probe.rs`, `mountinfo.rs`, `sys.rs` | none | probe, propagation check | kernel |
| Notes | `reconcile/mod.rs` (`NoteLog`), `logging.rs` | the notes already logged | update, report | passes |
| Reports | `report.rs`, `bin/byssus.rs` | none | `status`, `check`, `dry-run` | planner, state file, discovery |

Three sources of truth meet in a pass: membership (what should be), the state file
(what byssus claims) and the kernel (what is). Nothing locks the three against each
other. The outside world may change each of them between any two system calls of a
pass; a pass may fail at any step and the process may die at any point. What makes
the reconciler correct is therefore a protocol: verify before removing, remove
before mounting, record before the next step, roll back what cannot be recorded,
freeze what cannot be read.

What makes each part correct:

- **Planner**: one member per target; a mount waits for the removal of exactly what
  is in its way; nothing is removed without proof that it is byssus's own; no member
  is left without a view in silence.
- **Executor**: only own mounts are ever unmounted (but for one window, see the
  disagreements); every own mount has a record, in
  memory and on file, except in the windows a crash or a failing rollback opens;
  at most one view per target; one undisturbed pass repairs everything, and the next
  has nothing to do.
- **State file**: whatever fails or crashes, a reader gets a whole state that some
  writer saved; an acknowledged save survives a power failure; one writer at a time.
- **Daemon**: no membership change is missed between scan, watch and wait; a burst is
  awaited to its end but not for ever; a lost directory freezes its group.
- **Discovery**: a directory that cannot be opened or read, even half way, freezes the
  records beneath it; a directory known to be gone does not.
- **Notes**: a problem is logged when it appears and when it goes, not at every pass.
- **Privileges**: from every permitted starting state the planned operations succeed
  and end in the intended credentials.
- **Configuration, templates, names**: what is accepted keeps members, groups and
  membership directories apart, whatever names applications choose.
- **Reports**: what `status` says agrees with what the planner would do; `status`,
  `dry-run` and `check` exit with an error when, and only when, there is one.

## Modules

| Module | Models | Checked by | Proofs |
|--------|--------|-----------|--------|
| `ReconcilePlan` | `reconcile/plan.rs`, the pure planner | through the two below | `PlanLemmas` |
| `PlanCheck`, `MCPlanCheck` | the planner over every input of a bounded set | `plan_inputs` | `PlanProofs` |
| `Reconciler`, `MCReconciler` | passes, executor, kernel, state file, process life, outside world | `reconcile_*` | `ReconcilerProofs` |
| `StateFile`, `MCStateFile` | the lock, loading, the system calls of a save, readers, power failure | `state_file` | `StateFileProofs` |
| `ClaimRegister` | what the state file promises: an atomic, durable register | as `RegisterSpec` in `state_file` | `RegisterImplemented` |
| `MountLedger` | what byssus promises about mounts: a keeper takes aim only at what it made and has not disowned | as `LedgerSpec` in `reconcile_safety` | `LedgerImplemented` |
| `StatusReport` | what `status` and dry runs say of a planned pass (`report.rs`) | through `PlanCheck` in `plan_inputs` | `PlanProofs` |
| `MembershipWatch`, `MCMembershipWatch` | event loop, inotify watches, discovery, the reading half of a pass | `watch_safety`, `watch_deleted_group` | `WatchProofs` |
| `TimedWatch`, `MCTimedWatch` | `MembershipWatch` with the quiet period, its cap and the resync timer | `watch_liveness` | `WatchProofs` |
| `GroupSets`, `MCGroupSets` | directories that are missing, wrong or unreadable: what a pass freezes, unmounts and logs | `group_sets` | `GroupSetsProofs` |
| `ConfigFiles` | loading a configuration from a main file and fragments, with or without changes to them | through `Commands` in `group_sets` | `GroupSetsProofs` |
| `Commands` | `status`, `dry-run`, `check` and what a reload accepts, over the trees of `GroupSets` | `group_sets` | `GroupSetsProofs` |
| `Privileges`, `MCPrivileges` | the privilege plan, its operations against the kernel's rules, the verification | `privileges` | `PrivilegesProofs` |
| `Placement`, `MCPlacement` | names, templates, configuration rules, the groups and mounts they lead to | `placement*` | `PlacementProofs` |

`Reconciler` EXTENDS `ReconcilePlan`, so the executor runs exactly the planner that
`PlanCheck` examines on its own. `Reconciler` takes the state file as a variable that
a save replaces at once or not at all, and possibly late; that this is what the
system calls of `state.rs` amount to is what `StateFile` shows (it implements
`ClaimRegister`). In turn it implements `MountLedger`, the protocol of a keeper among
others who mount and unmount what they like. It takes what a pass reads of the membership as given at the
moment of the scan; that scans happen when they must is what `MembershipWatch` shows, and which groups it
must leave alone because they cannot be read is what `GroupSets` shows. `TimedWatch`
EXTENDS `MembershipWatch` and takes its steps with timers; `Commands` EXTENDS
`GroupSets`, looks at the same trees, and loads its configuration with `ConfigFiles`.
Where sources and targets come from, and which of them can be equal, is `Placement`;
the planner and the reconciler take targets as equal or different. `PlanCheck` EXTENDS
`StatusReport`, so that the report is held against the plan it describes. `Privileges`
stands alone: it runs once, after the configuration is read and before the first pass.

### ReconcilePlan

A plan has at most one removal and one mount for a key, so it is a function from
keys to `[departing, removal, mount, after, findings]`. `Accepted` is
`resolve_collisions`; `Departing`, `DepartingRemoval` and `FreedBy` are phase A
(`plan_departing_records`, `Departures`); `UnrecordedMember` is rows 1-3 of the
decision table, `RecordedMember` rows 4-9. `after` holds the keys whose removal a
mount depends on (`Step::depends_on`); the order of steps (`Builder::finish`) is
`Rank` and `Due` in `Reconciler`. Locations are values; attributes are sets of
restrictions, so `enforce` is set inclusion; a device and inode is one value
(`DevInos`). Reasons and error texts are left out, findings are kept by kind.

### Reconciler

| Variable | Code |
|----------|------|
| `members`, `unreadable`, `conf`, `source`, `blocked` | what a scan, the configuration and path resolution would give now |
| `stack`, `nextUnique` | the kernel's mounts at each target, the top one first; its counter of unique mount IDs |
| `mem`, `disk` | `State` in memory; the records in `state.json` |
| `pc`, `seen`, `plan`, `todo`, `bad`, `step` | where `run_pass` is, what it has observed, the plan, the steps not finished, the keys whose removal failed, the step in hand |
| `lost` | history: mounts of byssus that no record describes any more, and why is known |
| `calm`, `budget` | nothing has disturbed the pass since it began; disturbances left |
| `covered` | history: recorded members whose target was, when the last plan was made, under a view that this plan removes |

A pass is `ScanMembership`, `ResolveSources`, `InspectAndPlan`, then for each step in
order `SkipMount`, `ResolveMount` + `AttachMount` + save, `VerifyRemoval` + `Unmount` +
save or `Drop` + save. What one action does, nobody else can see half done or disturb.
`ResolveMount` and `AttachMount` are two, because somebody may mount on the target after
`is_mount_root` said no. `VerifyRemoval` and `Unmount` are two, because `unmount_verified`
checks the pinned mount (`mount.rs:192-201`) and then calls `umount2` on the descriptor's
link (202): the link leads to the pinned mount, and from there the kernel goes on to
whatever has been stacked on it in the meantime, as it does for every path it is to
unmount. So `Unmount` takes the top mount as long as the pinned one is there, and fails
when others have unmounted that. A mount of byssus passed over in this way goes into
`lost`, for its record goes all the same. A save that fails after a mount (`SaveFails(late)`,
before or after the rename took effect) puts the record back and leads to the rollback,
`VerifyRollback` and `Rollback`, which are the same two calls. The other failures are
actions of their own: `AttachFails`, `AttachUnidentified` (the mount is there, its identity
is not), `UnmountFails` and `RollbackFails` (the check of the link or `umount2` reports an
error), `Crash` anywhere, `Shutdown`. The rest of the world creates and deletes membership files,
loses and regains directories, replaces sources, blocks targets, mounts, unmounts and
remounts what it likes, reboots the host, loses the state file.

Target directories (created before a mount, removed after it when empty) are not a
variable: a target that cannot be created or resolved is `blocked`. What a frozen
group's membership would be is left to `unreadable`, whatever the reason.

### MountLedger

The abstract specification knows mounts by their unique IDs, and of each mount only its
standing: `foreign`, `hand` (just made, and the keeper is not done with it), `kept` (the state
file names it), `stray` (byssus made it and nothing names it any more). The keeper may make
a mount, take aim at one (`aim`) that is in hand or, with nothing in hand, kept, take down
what it aimed at or else what others have stacked on that since (`over`), and settle the
one in hand, which ends as kept, stray or taken down. The others may mount and unmount
anything, and may make the keeper forget. `Standing`, `Aim` and `Over` in `Reconciler` read
this off the detailed state, `next` is the counter of unique IDs, and `turn` is `pc` with
the steps that remain, which only the keeper's steps change.

| `MountLedger` | `Reconciler` |
|---------------|--------------|
| `Make`, `MakeUnknown` | `AttachMount`, `AttachUnidentified` |
| `TakeAim` | `VerifyRemoval`, `VerifyRollback` |
| `TakeDown` | `Unmount`, `Rollback` |
| `Retract` | `SaveFails` of a mount |
| `SettleHand` | the other saves, a rollback that fails, `Crash`, `Shutdown` |
| `Consider` | every other step of a pass, also the failing ones and the restart |
| `OthersMount`, `OthersUnmount`, `Forget` | the foreign mounts and unmounts, the loss of the state file |

What else others do (membership, configuration, sources) is a stutter.

### StateFile

| Variable | Code |
|----------|------|
| `dir` | the names `state.json` and `state.json.tmp`, and the corrupt files moved aside |
| `possible` | the directories a power failure may leave: all since the last `fsync` of the directory |
| `content`, `synced` | what each inode holds, and whether a power failure spares it |
| `lock` | the `flock` of `lock.rs`, released by the kernel when its holder ends |
| `pc`, `fd`, `mem` | each process: where it is in `load_for_write` or `write_atomically`, its open file, its state |
| `settled`, `known`, `damaged` | history the properties speak about |

Each system call of a save is an action (`OpenTmp`, `WriteAll`, `SyncFile`, `Rename`,
`SyncDir`), and `SaveFails` may take the place of any of them. A file being written
is `Malformed` until all of it is there; a file not synced is `Malformed` after a
power failure. A reader opens and reads in two steps, without the lock. JSON is
abstracted to whether a document decodes, does not, or is of another version; the
random suffix of a file moved aside to a set of such files.

### MembershipWatch

| Variable | Code |
|----------|------|
| `top`, `child`, `member`, `live` | directories as inodes, the names that lead to them, their membership files |
| `watched`, `queue`, `overflow` | the kernel's side of inotify |
| `dropped`, `unseen` | history: whether it ever dropped an event; the paths at which a directory came or went without notice |
| `fd`, `fresh` | the directories `Runtime` holds open; those of a startup or reload in progress |
| `label`, `setWatch` | `Watcher.watches`, `Watcher.set_groups` |
| `degraded`, `pending` | `Daemon.degraded`; whether a pass is due |
| `pc`, `todo`, `inter`, `frozen`, `lost`, `found` | where a pass is and what it has found |
| `view` | the members each group has views for, in place of the rest of the pass |

A pass is `Discover` (the root of the set), `ScanLevel` for each first-level
directory, `Sync` of the watches, `Scan` for each group, `Finish`; others may act
between any two of them, and between `Open` and `WatchAndSwap` when `Races` is TRUE.
inotify is modelled as the kernel behaves: a removed directory reports
`IN_DELETE_SELF` only when its last descriptor is closed, and removing a watch leaves
its unread events behind under a descriptor nobody knows any more. `Released` is
what `Watcher::release` must drop, and `Sync` allows also the watches it may drop
and add again, depending on the order in which a map is walked.
When a pass runs is left open here (`PassDue` whenever one is pending, `ResyncDue` at
any time); the timers are in `TimedWatch`. Directories that exist and cannot be read
are in `GroupSets`.

### TimedWatch

`age` and `due` are the two instants of `Daemon.pending`, as the time since the first
change and the time that is left; `resync` is `next_resync`. Each step of
`MembershipWatch` gets what the loop does to them (`TimedInotify`, `TimedPass`, ...,
`DueAfter` is `(now + DEBOUNCE).min(first + MAX_DEBOUNCE)`), and `Tick` is time going by
while `epoll_wait` has nothing to return: what the daemon does in between takes no
time. `late` is the history that the property speaks about.

### GroupSets

| Variable | Code |
|----------|------|
| `dir`, `file` | what is at the place of each directory (ok, gone, replaced, no directory, unknown to `statx`, cannot be opened, cannot be read) and of each membership file |
| `records` | the members mounted; every step of a plan succeeds here |
| `degraded`, `active` | `Daemon.degraded`; `NoteLog.active` |
| `pc`, `found`, `scanned`, `notes`, `frozen` | where a pass is, the groups discovered, the sets whose root was read, the notes to report, the groups left alone |
| `calm`, `missing`, `shut`, `standing` | history: what was there, or could not be read, since the pass began, and which logged problems have been there ever since |

A pass is `Discover` (`discover_set` and `scan_level` for every level; `seen` is what a
directory that fails half way lists before it does) and `Reconcile` (`observe`, the plan,
the log), with others acting between the two; `away` are groups whose directory was
moved between the two and can still be read. `FrozenBy` is the prefix test of
`discover_and_observe`, `Kept` and `SameKey` are `NoteLog::update`. Directories are
places here, not inodes; what depends on which directory is at a place is
`MembershipWatch`.

### ConfigFiles

`load` without state: a file is whether it can be read, whether it and its directory
are trusted, and which groups it defines. `Remaining` and `Sources` are the files that are read,
candidates of `check --add` in place of installed fragments of their name; `BadChanges`,
`ReadErrors`, `Untrusted` and `Invalid` are the issues with the severity of an error, the
third only under `OwnershipPolicy::Enforce`. The order in which fragments are read decides
which of two definitions of a group is reported, not whether the configuration is
rejected, so sources are a set. Which groups clash is `Placement`'s concern; here a file
names them. `Installed` is what an operator does with changes that have been checked
(`docs/INTEGRATION.md:274-297`).

### Commands

An environment (`Envs`) is what a command finds besides the tree: configuration files,
what `check` is told to add and remove, user, kernel, state directory, roots, the optional fields in `mountinfo` of the target roots.
The commands have no state: `Looked` instantiates `GroupSets` with what a command
opens, like a fresh daemon, so they use the daemon's own discovery. `UnavailableIn` and
`StatusFails` are `status`, `EnvironmentErrors`, `SetErrors` and `GroupErrors` the checks
of `dry-run`, `CheckFails` and `ReloadFails` the checks of `check` and of
`prepare_reload`, which are written twice in the code; `check` loads with the changes,
the reload after they have been made. What the reports say of single
members is `StatusReport`.

### StatusReport

`member_statuses` writes states into a map in three rounds (what is desired or frozen,
the steps, the findings), a later one over an earlier one: `ListedState`, `StepState`,
`FindingState`. `Level` is what the exit status of the commands follows. Rejected
entries, which have rows of their own, are left out.

### Privileges

| Variable | Code |
|----------|------|
| `cred` | the credentials of the process, as the kernel holds them (`ProcessState`) |
| `start` | those the plan is made from (`Credentials`) |
| `request` | `Request`, with a service user that may not be in the password file |
| `todo`, `pc` | the operations of `apply` still to be done; refused, failed or done |

`Launches` are all credentials `execve` can give: root, the service user or others,
set-user-ID, capabilities by file or ambient, a bounding set of what is permitted or
of everything, securebits of a few kinds. `Plan` is the sequence of operations,
`Permits` and `AfterOp` what the kernel makes of each (external: capabilities(7)),
`ApplyOp` one of them, `Verify` the comparison at the end. The check for one thread,
reading `/proc` and the password file are left out.

### Placement

A character is a value, a name a sequence of characters, a template a sequence of
components of characters and placeholders; so `/`, NUL, and the joining of literals do
not occur. `Load` is `assemble` with `validate_group`, `validate_group_set` and
`check_cross_group`; `Discover` is `scan_level`, with a template bound for each group
found (`bind_levels`) or a note; `Observe` is the membership scan with interpolation.
`tree` has the same entries in every directory, so that any two names meet in any two
places. TOML is left out; ownership and duplicate names are in `ConfigFiles`.

## What the runs check

All instances of `Reconciler` have two members of two groups, two sources, two targets and two
directories. Two members are what collisions, swaps and freed targets need; two
groups, so that one can be frozen while the other is not; the configurations are:
each its own target, targets swapped, both the same target, restrictions relaxed.
Five mount IDs are enough for the mounts three disturbances and two members can
make, and few enough that IDs are reused. `Budget` bounds how many disturbances and
failures a behaviour contains (each disturbance may come at any point, and any
number of undisturbed passes lie between them). Three is what the interesting cases
take: a member appears, a foreign mount hides it, the configuration changes; or a
save fails late, a crash, another mount.

| Run | Question |
|-----|----------|
| `reconcile_safety` | every kind of disturbance but a reboot, unique mount IDs: the safety properties, and every behaviour is one of `MountLedger`; `Budget` 3; the two directories are interchangeable, so states that differ in them only are taken as one |
| `reconcile_liveness` | without unique mount IDs and with reboots: no mount without a record, and convergence under fairness; `Budget` 2 |
| `plan_inputs` | every plan over 700,000 inputs, also records of a state file nobody of this version would write; what the reports say of each |
| `state_file` | two writers, a reader, three states, three inodes: crashes, failing calls, power failures, damage at any step |
| `watch_safety` | a static group and a set with two levels, four directories, five acts of others at any point, resyncs, overflow, races at startup |
| `watch_liveness` | the same directories with the timers, four acts of others, races at startup; quiet period 1, cap 2, resync 3 ticks |
| `group_sets` | a set with two groups in one first-level directory and a group by itself, two acts of others; some fifty environments for the commands |
| `privileges` | every launch with five capabilities (one byssus never uses), three users, six kinds of securebits; every request |
| `placement` | 26,000 configurations and trees: all templates of two components from a list of sixteen, and of three from five; two areas in any places of five directories |

`state_file` has no bound on what happens, only on how many there are of everything:
three inodes are the state file, the temporary file and one set aside (a second one
would wait for a free inode, as on a full disk), and two states besides the empty one
tell a lost save from one that came back. In the `watch_*` runs `Budget` bounds how
often others act (a reload or a crash counts as well): five are enough to make a
group, fill it, move it away, make another in its place and fill that.
`CHECK_DEADLOCK FALSE` is set for the `watch_*` runs, where a daemon with nothing to
do waits, and for `privileges` and `placement*`, which end.

Four gaps of the code, described under disagreements, are named in the properties of
the `watch_*` runs rather than left out of the instance: `Unwatched` excuses a group of
a two-level set made or moved while its first-level directory is not watched (yet, or
for a moment), a directory replaced between being opened and being watched, a directory
of a set that shares its watch with a configured one that was given up, and (after an
overflow only) a root that was moved. Without any of these excuses the run fails.
`watch_liveness` has no overflow: an overflow that drops the one notice of a move is
excused in `Follows` by nothing but a reload. Cap and quiet period differ by one tick,
so that one change in a burst may postpone the pass and the next may not; the resync
is longer than both.

In `group_sets` two acts are what it takes to make a directory unreadable and change
what is above or beneath it, or make it readable again, with passes before, between
and after; what longer behaviours do to the log and to mounts is proved. Every directory
has one membership file, since nothing relates two files of one group. The initial
trees are those with nothing but readable directories, some of them missing. An
environment has one thing wrong or nothing: the commands' checks are a disjunction. The
configuration has a fragment for each of the two and room for a third; changes add,
replace, move or remove one with every fault a file can have, or remove one with a fault.
Commands are run between passes, also after the last act; of the states that differ in
what the daemon has given up, on which nothing they say depends, the one in which it has
given up nothing.

In `privileges` three users are root, the one to switch to and another, and one
capability beyond the four that have rules stands for all others. In `placement` the
longest name is 3 and the longest path 6: names of one to four characters and
components put together from two of them lie on both sides of either limit; two names
of one character and one of two give every way in which texts put together coincide.

The properties (each is stated in words above its definition):

- `OnlyOwnMountsRemoved`: byssus never unmounts what it did not make, wherever it
  crashed and whatever others stacked, with one exception, `StackedSince`: a mount that
  others stack on the one being unmounted between its verification and `umount2`
  (disagreements). Without the exception the run fails. The property rests on `RecordsNameOwnMounts`: no record,
  in memory, on file or about to be restored by a rollback, ever carries the identity
  of a foreign mount.
- `LedgerSpec`: every step is one that `MountLedger` permits. This says more than
  `OnlyOwnMountsRemoved`: what byssus aims at is named by the state file or was made by
  the step before, and what it takes down is that or was stacked on that by others after
  it took aim; a mount nothing names is never named or aimed at again, though byssus
  made it; one mount at a time is in hand, and its save, its rollback or the death of
  the process settles it before the next step.
- `MountsAccountedFor`: every mount of byssus is claimed by a record in memory and by
  one on file; the exceptions are the mount in hand and those in `lost`, and each is put
  there by the action that explains it: among them the mount that stays, and loses its
  record, because `umount2` met another one on top of it.
- `OneViewPerTarget`, `RemovalsComeFirst`: the order of a pass, checked where it bites.
- `CalmPassSettles`, `CalmPassIsFinal`: one pass nobody disturbs leaves every readable
  key where membership, configuration and sources want it, or for a reason the
  decision table names; and a second pass has nothing to do, so views are not removed
  and re-created over and over. `Waits` names the one case in which the next pass has
  work left (disagreements).
- `Converges`: once disturbances end, that state is reached and kept.
- `OneMemberPerTarget`, `MountsWaitForRemovals`, `RemovalsAreProved`, `NothingSilent`:
  the same ideas for one plan and arbitrary inputs.
- `StatusTruthful`: what a report says of a member (mounted, would mount, would
  remount) is what the pass would do, and no wanted member is left without a view at
  level ok, but for the two reasons it names.
- `RegisterSpec`: the state file implements an atomic register; `AcknowledgedSurvives`
  is what its clients rely on, `NoBlindReplace` that no writer overwrites what it has
  not seen (a second writer's state, a newer version's document), `CorruptKept` that
  damage is kept for the operator, `ReadersWhole` that status never sees half a file.
- `NoChangeMissed`: whenever the daemon has nothing to do, its views are those of the
  membership, although watches, discovery and scans interleave with changes.
- `LossNoticed`, `DegradedKept`: a directory lost by accident degrades its group, and
  a degraded group keeps its views until a reload.
- `WatchesNeeded`: watches do not accumulate as groups come and go.
- `FailuresExplained`: the order of the privilege plan is right: each operation still
  has what it needs, the kernel carries out every plan, and the verification accepts
  the outcome, but for three launches that no order helps.
- `NotRootByAccident`, `LockedDown`: where the process ends: root only on request,
  otherwise the service user in every ID and group; nothing more than it keeps, and
  nothing it could raise.
- `NoTraversal`, `MembersApart`, `ViewsApart`: no combination of templates and names
  yields `.` or `..`, another member's source or view, or (where placeholders have
  components of their own) another group's view.
- `OneGroupPerDirectory`, `MembershipUncovered`: what `check_cross_group` is for; the
  second names what it does not compare.
- `LimitsExact`: two stages of length checks are as exact as one.
- `Follows`: with resync on, views agree with membership in the end, even after a race
  that `NoChangeMissed` excuses.
- `PassInTime`: however changes go on, no group's views are out of date for longer than
  `MAX_DEBOUNCE` with no pass being run, and no change waits for the resync.
- `UnmountedOnlyIfGone`: a directory that cannot be opened or read, at any level, even
  half way, removes no mount; `CalmPassExact`: what can be read is mounted exactly.
- `LogAgrees`, `LoggedOnce`: the log's open problems are the problems there are; and a
  problem that lasts is neither logged again nor logged as fixed.
- `StatusTells`, `DryRunTells`: the exit status says whether there is a group nobody can
  look into, and `status` lists each of them; `CheckPredictsReload`: `check --add --remove`
  accepts what a reload accepts once the fragments have been installed and deleted, but
  for the differences it names: changes that cannot be made as they stand (a candidate
  the daemon would ignore, a fragment that is not there, a drop-in directory still
  missing), the service user, unreadable set roots, and the running `state_dir`.

**Fairness.** `FairSpec` of `Reconciler` assumes weak fairness of `Daemon`, the writer's own steps
when nothing fails, restart included: the event loop runs a pass at startup and at
every resync, a pass takes its steps one after the other and waits for nobody, and
the systemd unit restarts the daemon. No fairness is assumed of the environment or
of failures. With `resync_interval` switched off the daemon does not retry what was
unavailable, so convergence is a claim about a daemon that resyncs (the default).
A pass of `byssus reconcile` is the same pass without repetition.

`TimedFairness` assumes weak fairness of starting, of handling events, of a pass that
is due, of the resync that is due, of the steps of a pass and of time: the kernel wakes
`epoll_wait` for a readable descriptor and an expired timeout, the loop handles one
after the other and waits for nothing else, and systemd restarts the service. None of
others, who may stop acting at any time. Time passes only while the daemon has nothing
to do, and not past a deadline: a pass is taken to need no time. `Follows` excuses
`pc = "start"`: a daemon whose configured directory is missing cannot start.

### Disagreements between code and documentation

Three runs expect a violation; the traces are short.

- `reconcile_unrecorded` (`NeverUnrecorded`): `create_bind` reads the identity of the
  mount after attaching it (`mount.rs:145`); if that fails the mount stays and nobody
  records it, against the comment at `execute.rs:181`.
- `watch_deleted_group` (`DeletedGroupGoes`): a set's group directory deleted between
  discovery and `observe` is degraded by `daemon.rs:170` like a statically configured
  one, and its views stay, against `DESIGN.md:289`.
- `placement_groups` (`GroupsNeverShareAView`): the target `{group}{subgroup}/{name}`
  uses every level and still gives the groups `a/aa` and `aa/a` one directory of
  views (with `{group}-{subgroup}` names that contain `-`), against `DESIGN.md:301`
  and `DECISIONS.md:57-60`.

Shown by a change of a run's constants:

- `OnlyOwnMountsRemoved` with `"reboot"` in `Allowed` of `reconcile_safety`: unique
  mount IDs restart at a reboot, records carry no boot ID, so a foreign mount can match
  a record and is unmounted, against `DESIGN.md:398` and `identity.rs:22`.

Shown by a change of a property:

- `OnlyOwnMountsRemoved` without `StackedSince`: byssus verifies the mount it is about to
  remove and then calls `umount2` by path, which takes away what has been stacked on that
  mount in between. `DESIGN.md:429` ("The kernel resolves the descriptor's magic link to
  the mount that was verified", also `mount.rs:183-185`) overlooks that the kernel does not
  stop there, and `DESIGN.md:782` ("Byssus never unmounts or modifies a mount unless its
  kernel identity matches a record Byssus wrote") does not hold of the foreign mount; the
  comment at `mount.rs:194-196` knows of the window and points out who can use it. The
  shortest trace is that of a rollback: a view is made, its save fails, the rollback
  verifies the view, somebody mounts on it, `umount2` removes that mount. With an ordinary
  removal it goes the same way, and `execute.rs:246` then drops the record of the view, which
  is still there and from then on foreign to byssus (`MountsAccountedFor` and `LedgerSpec`
  name the case, too).
- `NoChangeMissed` without `unseen` in `Unwatched`: a first-level directory is read
  during discovery (`runtime.rs:360`) and watched afterwards (`watcher.rs:136`), so a
  group made in it between the two goes unnoticed until something else happens, against
  `reconcile/mod.rs:78-80`. (With one level there is no gap: the root is watched from the
  start.) The same gap opens again when a first-level directory has been moved to another
  name: `Watcher::sync` releases its watch under the old name and may add it again under
  the new one (`watcher.rs:123-133`, `166-176`), and the events that were unread in between
  are lost with the watch. The attempt to prove `NoChangeMissed` found this one.
- `LossNoticed` without `unseen`: a directory is opened by `Runtime::open` and its path
  watched by `Watcher::new` later; if it is replaced in between, the daemon reads one
  directory and watches another, against the comment at `daemon.rs:88-89`.
- `NoChangeMissed` without the last case of `Unwatched`: a statically configured
  directory moved into a set, to a place that is not watched yet, has one watch for
  both uses; when the static group is degraded the watch loses its label
  (`watcher.rs:179-220`), and changes to the set's group wait for a resync. It is the same
  with the directory that had taken the place of the configured one before that place was
  watched (found by the proof, too).
- `CalmPassSettles` and `CalmPassIsFinal` without `Waits`: a member may mount where the
  same pass removes another's view only if it has no record (`plan.rs:542-547`). One that
  has a record for this target meets row 7 instead, whatever the mount there is
  (`plan.rs:639`), and stays without a view until something starts another pass, against
  `DESIGN.md:549`. It takes five disturbances, so the run with three does not meet it: a
  group becomes unreadable with a view up, somebody removes the view, a reload swaps the
  targets of the two members (the other one is mounted there), a second reload swaps them
  back, the group becomes readable. The attempt to prove `CalmPassSettles` found it; TLC
  shows it with `Budget` 5.
- `DryRunTells` without its last case: `dry-run` exits 0 when a set's group or
  first-level directory cannot be opened (a warning there), where `status` exits 1,
  against `OPERATIONS.md:240` and `REFERENCE.md:253`.

Met while modelling, without a run of their own:

- A relocation whose old view is hidden under another mount drops the record (row 11)
  and mounts the new view, so two views of the member are up and one is nobody's,
  against `DESIGN.md:520` and `547-549`. (`lost` names the case for
  `MountsAccountedFor`.)
- Targets of frozen groups do not count for collisions (`plan.rs:345`), against
  `DESIGN.md:556`. `OneMemberPerTarget` is about the members that the planner looks at and
  leaves them out; that no second view is stacked on theirs is `OneViewPerTarget`.
- `IN_MOVE_SELF` is the only notice of a move; when an overflow drops it, the full pass
  that follows looks at the link count only, and the group goes on with the moved
  directory, against `DESIGN.md:603-608`. `LossNoticed` therefore excepts `dropped`.
- `REFERENCE.md:152` keeps every membership directory from lying at or beneath a
  `target_root`; `check_cross_group` compares configured directories only, so a set's
  group may be such a directory if the target root lies inside the set's root.
  `MembershipUncovered` excepts the case.
- A set-user-ID-root start with `--allow-root` plans no change of user and then fails
  its own verification (real and effective ID differ, `apply.rs:232`), where `DESIGN.md`
  describes staying UID 0 with a warning. `FailuresExplained` names the case.
- Row 6 of the table says `warn`; the code reports the unmount at `info` and has no
  finding for it; the next pass warns (row 2).
- The note on an unreadable first-level directory is kept under its own path, which is
  never among what a pass examines: once logged it is neither cleared when the
  directory becomes readable nor logged when it fails again (`mod.rs:227-257`). In the
  same way, notes on a group that has vanished stay open. `LogAgrees` therefore
  speaks of groups and sets that are there.
- When a group's directory becomes unreadable, its rejected entries are logged as
  cleared, and again as rejected when it can be read (`mod.rs:243-257` with
  `observe.rs:115-124`), against `DESIGN.md:246-251`. `Lasting` leaves out what lies in an
  unreadable directory.
- A first-level directory that fails half way is frozen for groups with records only; a
  group listed before the error is reconciled, a new one mounted, where `DESIGN.md:290`
  says "no changes".
- If `statx` fails on a group's directory, the entry counts as rejected (`runtime.rs:287`),
  its group as gone, and its mounts are removed, where `DESIGN.md:290` freezes what cannot
  be read. `Shut` leaves the case out.
- `status` looks as a fresh daemon would; what the running daemon has degraded it cannot
  tell.
- A fragment that is a dangling link, or is renamed between being listed and being read, is
  passed over without a word (`config.rs:526-527`): a reload then runs without its groups
  and removes their mounts, where `INTEGRATION.md:271` rejects a reload "if **any** fragment
  is invalid". `Configures` has no group of such a file, and no property says that it must.
- `check --add` rejects a candidate for a drop-in directory that does not exist yet
  (`config.rs:532`); the reload after making the directory accepts it. `Improper` names the
  case.
- A resync that is due in the middle of a burst runs its pass at once, although the
  quiet period is there to see a burst "as a whole" (`daemon.rs:39-42`).

## What is proved

TLAPS checks the following for every set of keys, groups, targets, configurations and
any budget, of every set of writers, readers, states and inodes, of every tree of
sets, groups and names, and any timers. The assumptions are on the constants only:
`PlanAssumption`, `ReconcilerAssumption`, `StateFileAssumption`, `PrivilegesAssumption`,
`SecureStartsAssumption`, `PlacementAssumption`, `WatchAssumption`, `TimedAssumption`,
`GroupSetsAssumption`, `ConfigFilesAssumption`, `CommandsAssumption`, `LimitsAssumption` and
`NameCharsAssumption` (types; the absent record is no record; `Foreign` is no key; no
inode is `None`; a reader is no writer; no ID is `NoId`; a set has at most two levels, and
a group lies beneath at most one directory of its set; no character of a name is a
placeholder). Theorems about mounts that must be told apart for ever assume
`UniqueSupported` and `"reboot" \notin Allowed` as well, and say so.

- `PlanProofs`: each of the five plan properties holds of every complete input.
  `PlanCases` splits a plan by the operator that made it; `AcceptedTargetsDiffer` says
  two accepted members never share a target; `DepartingRemovals`, `RemovalsHaveRecords`
  and `FreedKeys` say what a removal step means. `StatusTruthfulHolds` goes case by
  case over the state reported, from `FindingFacts` (which findings go with which
  steps), `RemovalsProved` and `SilentNever`.
- `TypeCorrect` and `RemovalsFirst` (`ReconcilerProofs`): `TypeOK` is inductive only
  together with `RemovalsComeFirst`, because the unmount step reads the record of its
  key and must know there is one.
- `RecordsOwn`: with `UniqueSupported` and `"reboot" \notin Allowed`, no record ever
  names a foreign mount. The argument is `Grows`: every step adds at most mounts with
  unused unique IDs and never changes whose mount an ID is; so an identity that is
  byssus's own stays so (`OwnGrows`), and every record of the next state is one of this
  state or that of a mount just made (`RecordsFrom`, `NewIsOwn`).
- `OnlyOwnMounts`: under the same assumptions byssus unmounts only its own mounts, or what
  was stacked on one after its verification: a verified mount matches the unique ID of an
  own identity (`MatchIsOwn`), so whatever is pinned until `umount2` is byssus's
  (`PinnedOwn`, inductive with `Grows`); pushes and the rest remove nothing.
- `MountsAccounted` and `OneView`, on any kernel and across reboots. The invariant
  `Bookkeeping` is about places where the two assumptions above are not needed: no two
  mounts in different places, and no two of byssus on one stack, are alike
  (`StacksApart`); before a mount is made there is none of byssus on its target and its
  key has no record of another one (`AttachFree`, `PendingFits`: the record's removal
  comes first, and if it failed the mount is skipped); the mount in hand is where it was
  made (`HandKnown`), and so is the mount pinned until `umount2` (`PinnedKnown`). With these
  a removal or a rollback takes away one mount and one claim (`OneMatch`, `OtherClaims`),
  and every other action keeps or loses both together, or puts the mount into `lost`;
  where `umount2` meets a mount stacked since, only the claim of the pinned mount goes, and
  that mount is lost.
- `LedgerImplemented`: the reconciler implements `MountLedger`, under the two assumptions. Four
  invariants are needed beyond `Bookkeeping` and `KeysNamed`. `MemListed`: what a record in
  memory claims, the state file names as well, unless it is in hand; without it a removal could take
  down what the file no longer names. `PreviousOld`: the record that a rollback
  would restore is about an older mount than the one in hand, on the same target; without
  it a failed save could bring back a claim that the file lacks. `HandNew`: no other record is
  about the mount in hand. `PinnedOwn`: what is pinned is byssus's. A step changes one stack
  or the file: `StandingsPush`, `StandingsPop` and `StandingsStay` say what that does to the
  standings, `AimPushed`, `AimPopped` and `AimSame` what it does to the mount aimed at and to
  what lies over that, `HandSettles` covers all ways in which a save, a failed rollback or a
  crash ends, and `LedgerKeeper` and `LedgerOthers` map the actions one by one.
- `CalmPassSettlesHolds` and `CalmPassIsFinalHolds`, under the two assumptions. The idea is
  that in a pass nobody disturbs every step leaves of the plan exactly what has not been
  done yet: if a pass began now it would plan the steps that remain. In `PlanLemmas` this
  is a fact about two inputs of the planner (`StepOf`: before and after a step for one key;
  `Leaves`: what becomes of the plan), proved for a removal (`RemovalLeaves`) and a mount
  (`MountLeaves`) through the decision table. In `ReconcilerProofs`, `DropLeaves`,
  `UnmountLeaves` and `AttachLeaves` show that the actions are such steps; they need that
  every record names its own key's mounts (`KeysNamed`, inductive), so that what comes to
  light under a view is taken for nobody's. The invariant is `Calm`: what was observed is
  still so (`CalmSeen`), the remaining steps are those of a new plan (`CalmTodo`), the
  target about to be mounted on is free (`CalmAttach`). At the end no steps remain
  (`NothingLeft`), and a case analysis of the decision table says where that leaves a key
  (`SettledIf`).

`PrivilegesProofs`: `CredentialsTyped`, `NotRootByAccidentHolds` and `LockedDownHolds`. The invariant is
small (`PlannedFromStart`): the plan was made from the credentials at the start and was
not refused, and a process that is done was verified; the rest is what the verification
compares. So they hold whatever the kernel makes of the operations. `FailuresExplainedHolds`
does depend on the kernel: `PlanUnfolds` says that a plan is one of a few sequences of
operations, and the invariant has one `Stage` for each place in them, with what the
process has by then: the capabilities that the rest needs (`Equipped`), a bounding set and
securebits already locked (`Locked`), `KEEPCAPS` set (`Keeping`), the user and groups
switched (`Switched`), the rest given up (`Reduced`). Each stage permits its operation and
leads to the next, but for the three causes that the property names (`Contradicted`,
`KeepingLocked`, `StaysSetUid`), which are traced back to the launch (`Launched`).

`PlacementProofs`: `OneGroupPerDirectoryHolds`, `MembershipUncoveredHolds`,
`TypeCorrect`, `NoTraversalHolds`, `MembersApartHolds`, `ViewsApartHolds` and
`LimitsExactHolds`, for every configuration and tree. `check_cross_group` compares only what
is configured; the groups of a set are found later. What carries the rule over is that
two prefixes of one path are comparable (`PrefixesComparable`, `RootsOverlap`) and that
two groups of one set are equally deep (`SiblingsApart`); the invariant says that every
group is what its area and its directory below it make of it (`OfItsArea`), every mount
one of a group's.
What interpolation does to names is proved by induction over the characters of a
component: `FlattenSeq` joins what they are filled with (`FlattenIs`, `FlattenAppend`), so
filling can be taken in two parts (`FilledJoin`) or in two stages (`FilledTwice`), gives
plain names from plain ones (`PlainFilled`), longer ones from longer ones
(`FilledLonger`), and tells apart what it was given (`FilledInjective`, `FilledFront`).
`NoTraversal` follows with `NotesPlain`; `MembersApart` and `ViewsApart` with what the
configuration rules say of a template (`TemplateFacts`, `NamesTold`, `LevelsTold`).
`LimitsExact` needs that nothing is left out (`AllFound`, `AllPlaced`) and that the fold of
`PathLen` is the length of the flattened path (`PathLenIs`). The library's induction
theorems cannot be instantiated here; the inductions go over sets of naturals instead,
by the smallest counterexample (`SmallestOf`, from `WFMin`; `AllNaturals`, `AllSequences`,
`AllNames`).

`GroupSetsProofs`: `GroupSetsTypes`, `LoggedOnceHolds`, `UnmountedOnlyIfGoneHolds`,
`CalmPassExactHolds`, `LogAgreesHolds`, `StatusTellsHolds` and `DryRunTellsHolds`. A
directory that is not configured lies beneath the root of its set or beneath a
first-level directory (`Beneath`), which gives two readings of `Entered`. For the log
(`LogInv`): what discovery examined is settled when the pass observes, so a logged
problem whose directory is examined is either reported again in the same words or not
there any more. For the mounts (`ExcuseInv`, with `TreeInv` about what is beneath a
directory that is gone): a recorded member that is neither frozen nor found again was
missing at some time of the pass, and nothing on the way to it was shut all through it.
In a pass during which nothing changes (`CalmInv`), what discovery found is what there is,
so records and log end up as `CalmPassExact` and `LogAgrees` say.
For the commands, `FreshHidden` and `LookedScans` put what the instance of `GroupSets` sees
into a formula over the tree; then every blind directory is listed, by itself
(`BlindListed`), and whatever is listed has a blind directory on its way
(`ListedBlind`).
`CheckPredictsReloadHolds` is about any files and any changes: every file that `check` reads has
one `Twin` among those a reload reads afterwards, the same but for the directory a candidate
lies in (`Twins`, `TwinAlike`), so the same is wrong with both (`ChangesForeseen`); changes
that cannot be made are refused (`ImproperRefused`); and a set whose root is open and not
readable is one whose reading fails (`RootsKept`).

`WatchProofs`: `WatchTypes`, `DegradedKeptHolds`, `WatchesNeededHolds`, `LossNoticedHolds`,
`NoChangeMissedHolds`, `PassInTimeHolds` and `TimedImplements`. Types hold together
with what is open when (`Opens`): the daemon holds all the configured directories or
none, a pass only reads what it has opened; where a path leads is a directory or nothing
(`WalkType`). What is degraded when a pass begins is frozen all through it
(`GivenUpFrozen`). `TimedImplements` is the refinement: each step of the timed loop is a
step of `MembershipWatch` or time going by.
`WatchInv` says whose each watch is: a set's watch is that of a path of the set, and the
others are no more than the configured directories (`WatchesNeeded`). `Tree` says what a
file system grants: a directory is in one place, a removed one is empty. `LabelInv` and
`LossInv` follow a configured directory from being moved or removed to the event that says
so. `NoChangeMissed` is about events in flight: `OwedInv` says for each group and each place
in a pass what is owed, the pass having found what is there, an event that is unread, or a
pass that is due (`LevelOwes`, `ScanOwes`, `WaitOwes`); what is `Excused` stays so until the next
pass. `PassInTime` is `TimeInv` on top of it: no group is out of date for longer than the
pending change is old, and its age and what is left of the quiet period are together no
more than `MAX_DEBOUNCE`.

`StateFileProofs` proves all properties of `state_file`: `StateTypeCorrect`,
`AcknowledgedIsSafe`, `WritersKnowTheFile`, `DamageIsKept`, `ReadersGetWholeStates` and
the refinement `RegisterImplemented`. None is inductive alone; `IInv` adds what the
code relies on without saying so: only the holder of the lock is beyond "out"
(`OneWriter`), the temporary file is in no other place of any possible directory
(`TmpApart`, so that truncating it harms nothing; also, every state file a power
failure may bring back is synced), the file about to be renamed is
whole and synced (`Pipeline`), a state file that does not decode was damaged by
others (`Damage`), a reader's open file never becomes the
temporary file (`Reading`), and a settled register has one possible directory's
content (`Settled`). There is one lemma per action that it keeps `IInv`, and the
refinement maps every action to one of the register's or to a stutter.

Both assumptions of `OnlyOwnMounts`, `LedgerImplemented`, `CalmPassSettlesHolds` and
`CalmPassIsFinalHolds` are needed: the first is the documented limitation for kernels before 6.8, the second the
disagreement about reboots above.

Model-checked only: `Converges` and `Follows`, because liveness under fairness and ENABLED
are outside what the prover does; and the three properties that the runs for
disagreements refute. Every other property of a run is a theorem.

## Not modelled, and the plan

The event loop, the watcher, discovery, the planner, the state file, templates and
names are modelled. Of the other parts the following is missing, in the order in which
it would add most:

1. Views inside each other: targets of different groups are not compared by the
   configuration, and the planner compares them for equality only
   (`docs/INTEGRATION.md:219` leaves the rest to the operator); targets as paths in
   `Reconciler` would show what happens then.
2. Target directories, made before a mount and removed after it (`execute.rs`), which
   `Reconciler` takes as part of the mount.
3. A watch that cannot be added for any reason but that its directory is gone, such as
   `fs.inotify.max_user_watches` (`watcher.rs:144`, a warning): the group's changes are then
   found by resyncs only.
4. The counts of the reports, and the warnings about a configuration.
5. Proofs: safety is proved for what the modules describe; next are the safety halves of
   `Converges` and `Follows` (that a settled state is kept, that each pass makes progress),
   which do not need fairness, and `RegisterImplemented` joined to `Reconciler`.

Left out for good: text formats (TOML and JSON syntax, log lines, `mountinfo`
unescaping), systemd notification datagrams and the reading of a signalfd, which
decide nothing, command-line parsing, and the kernel probes, which are single system
calls whose answers are inputs of the models.
