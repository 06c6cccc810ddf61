------------------------------- MODULE Commands -------------------------------
(***************************************************************************)
(* What the read-only commands (src/src/bin/byssus.rs) and a reload        *)
(* (src/src/daemon.rs) make of the directories of GroupSets, of the        *)
(* configuration files and of the rest of the environment: `status' and    *)
(* `dry-run' look as a fresh daemon would and report; `check' predicts     *)
(* whether a reload is accepted once changed fragments are installed.      *)
(* A command sees the tree as it is at one moment.  What reports say of    *)
(* members whose groups can be read is StatusReport's concern.             *)
(***************************************************************************)
EXTENDS GroupSets, ConfigFiles

CONSTANT Envs   \* environments: what a command finds besides the tree

(***************************************************************************)
(* The environment.                                                        *)
(*   etc         the configuration files                                   *)
(*   changes     what `check' is told to add and remove                    *)
(*   running     the state directory of the running daemon                 *)
(*   user        the service user can be switched to                       *)
(*   kernel      every required feature and procfs are there               *)
(*   stateDir    the state directory exists                                *)
(*   known       the state file can be read                                *)
(*   root        the source and target root of each group and set          *)
(*   fields      the optional fields of the mount of each target root      *)
(*   watches     inotify watches are left                                  *)
(*   allowSlave  --allow-slave-namespace                                   *)
(***************************************************************************)
RootStates == {"ok", "missing", "denied"}
Fields == SUBSET {"shared", "master", "unbindable"} \cup {{"not found"}}

EnvType ==
    [etc : Etcs, changes : Changes, running : {"default", "moved"}, user : BOOLEAN,
     kernel : BOOLEAN, stateDir : BOOLEAN, known : BOOLEAN, root : [Configured -> RootStates],
     fields : [Configured -> Fields], watches : BOOLEAN, allowSlave : BOOLEAN]

ASSUME CommandsAssumption == Envs \subseteq EnvType /\ Labels = Configured

\* classify_propagation and check_propagation.
Propagation(fields) ==
    CASE fields = {"not found"}                      -> "Unknown"
      [] "unbindable" \in fields                     -> "Unbindable"
      [] fields = {"shared", "master"}               -> "SharedAndSlave"
      [] fields = {"shared"}                         -> "Shared"
      [] fields = {"master"}                         -> "SlaveOnly"
      [] OTHER                                       -> "Private"

Slaves(env) == {p \in Configured : Propagation(env.fields[p]) \in {"SlaveOnly", "SharedAndSlave"}}

\* check_paths: what is missing is an error, what cannot be looked at a warning.
MissingPaths(env) ==
    {p \in Configured : env.root[p] = "missing" \/ dir[p] = "gone"}

\* Runtime::open and open_lenient: every configured directory, by its path.
NotOpened(env) == {p \in Configured : env.root[p] # "ok" \/ dir[p] \in {"gone", "closed"}}

(***************************************************************************)
(* Looking as a fresh daemon would: what could not be opened is left out   *)
(* like what is degraded.                                                  *)
(***************************************************************************)

AsOpened == [p \in Dirs |-> IF dir[p] = "new" THEN "ok" ELSE dir[p]]
Recorded(env) == IF env.known THEN records ELSE {}

Fresh(env) == INSTANCE GroupSets WITH
    dir <- AsOpened, degraded <- NotOpened(env), records <- Recorded(env), pc <- "idle"

Looked(env, seen) == INSTANCE GroupSets WITH
    dir <- AsOpened, degraded <- NotOpened(env), records <- Recorded(env), pc <- "observe",
    found <- Fresh(env)!Found(seen),
    frozen <- Fresh(env)!FrozenBy(Fresh(env)!HiddenBy(seen))

\* discover_and_observe, with nothing happening in between.
NotesOf(env, seen) == Fresh(env)!DiscoveryNotes(seen) \cup Looked(env, seen)!MembershipNotes({})

\* Mutant of UnavailableIn: only what cannot be read, not what cannot be opened.
UnavailableRead(env, seen) == {n.on : n \in {o \in NotesOf(env, seen) : o.about = Self}}

\* The groups and sets status lists as unavailable.
UnavailableIn(env, seen) == NotOpened(env) \cup {n.on : n \in {o \in NotesOf(env, seen) : o.about = Self}}

StatusFails(env, seen) ==
    \/ LoadFails(env.etc, NoChanges, "Warn")
    \/ UnavailableIn(env, seen) # {}

(***************************************************************************)
(* dry-run.                                                                *)
(***************************************************************************)

\* Checks of the environment and the configuration.
EnvironmentErrors(env) ==
    \/ LoadFails(env.etc, NoChanges, "Warn")
    \/ ~env.user \/ ~env.kernel \/ ~env.stateDir
    \/ MissingPaths(env) # {}

\* A check or summary per set, per group of the configuration and per group found.
SetErrors(env) == {s \in Sets : s \in NotOpened(env) \cup Slaves(env) \cup Fresh(env)!UnavailableSets}

\* Mutant of GroupErrors: a group that was opened counts as readable.
GroupErrorsOpened(env, seen) ==
    {g \in (Configured \cap Groups) \cup Fresh(env)!Found(seen) : g \in NotOpened(env) \cup Slaves(env)}

GroupErrors(env, seen) ==
    LET read == Looked(env, seen)!Scanned({})
    IN  {g \in (Configured \cap Groups) \cup Fresh(env)!Found(seen) :
            g \in NotOpened(env) \cup Slaves(env) \/ g \notin read}

DryRunFails(env, seen) ==
    EnvironmentErrors(env) \/ SetErrors(env) # {} \/ GroupErrors(env, seen) # {}

(***************************************************************************)
(* check, and what it predicts.                                            *)
(***************************************************************************)

PathErrors(env, labels) == ~env.stateDir \/ MissingPaths(env) \cap labels # {}

SlaveError(env, labels) == Slaves(env) \cap labels # {} /\ ~env.allowSlave

CheckFails(env) ==
    LET labels == Configures(env.etc, env.changes)
    IN  \/ LoadFails(env.etc, env.changes, "Enforce") \/ ~env.user
        \/ PathErrors(env, labels) \/ NotOpened(env) \cap labels # {}
        \/ labels # {} /\ ~env.watches
        \/ Fresh(env)!UnavailableSets \cap labels # {}
        \/ SlaveError(env, labels)

\* prepare_reload, after the changes have been made.
ReloadFails(env) ==
    LET etc == Installed(env.etc, env.changes)
        labels == Configures(etc, NoChanges)
    IN  \/ LoadFails(etc, NoChanges, "Enforce") \/ StateDirIn(etc) # env.running
        \/ PathErrors(env, labels) \/ NotOpened(env) \cap labels # {}
        \/ SlaveError(env, labels) \/ (labels # {} /\ ~env.watches)

(***************************************************************************)
(* What the commands promise.                                              *)
(***************************************************************************)

\* Bound: commands are run between passes.  What they say does not depend on what the
\* daemon has given up; of the states that differ only in that, one is examined.
Examined == pc = "idle" /\ degraded = {}

\* A directory of groups that nobody can look into: a configured one that cannot be
\* opened or read, or one of a set that cannot, where the way to it can be read.
Blind(env) ==
    NotOpened(env)
      \cup {p \in Dirs : AsOpened[p] \in Unreadable /\ Path(p) \cap NotOpened(env) = {}
                           /\ \A q \in Above[p] : AsOpened[q] = "ok"}

\* Environments whose files are those the daemon runs with, and can be loaded.
Unedited ==
    {env \in Envs : /\ env.changes = NoChanges /\ ~LoadFails(env.etc, NoChanges, "Warn")
                    /\ Configures(env.etc, NoChanges) = Configured}

\* status exits 1 exactly if there is a group it cannot say anything about, and every
\* such group is listed, itself or with a directory above it.
StatusTells ==
    Examined =>
        \A env \in Unedited : \A seen \in Fresh(env)!Readings :
            LET blind == Blind(env)
            IN  /\ StatusFails(env, seen) <=> blind # {}
                /\ blind \subseteq UnavailableIn(env, seen)

\* dry-run and status agree, where nothing else is wrong: dry-run exits 1 only if status
\* does; status exits 1 only if dry-run does, or for directories of a set that cannot be
\* opened, or have no groups, which dry-run reports as warnings (README, disagreements).
DryRunTells ==
    Examined =>
        \A env \in {e \in Unedited : ~EnvironmentErrors(e) /\ Slaves(e) = {}} :
            \A seen \in Fresh(env)!Readings :
                LET dry == DryRunFails(env, seen)
                    status == StatusFails(env, seen)
                IN  /\ dry => status
                    /\ status =>
                         \/ dry
                         \/ \A p \in Blind(env) :
                              p \notin Configured /\ (p \in Groups => dir[p] = "closed")

\* check, told which fragments are to be added and removed, accepts exactly what a reload
\* accepts after they have been, but that it asks for changes that can be made, readable
\* membership roots and the service user, and does not know the running daemon's
\* state_dir (docs/REFERENCE.md, "check").
CheckPredictsReload ==
    Examined =>
        \A env \in Envs :
            LET check  == CheckFails(env)
                reload == ReloadFails(env)
            IN  /\ check =>
                     \/ reload \/ ~env.user \/ Improper(env.etc, env.changes)
                     \/ \E s \in Sets \cap Configures(env.etc, env.changes) : dir[s] = "broken"
                /\ reload => check \/ StateDirIn(env.etc) # env.running

=============================================================================
