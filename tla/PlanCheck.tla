------------------------------ MODULE PlanCheck ------------------------------
(***************************************************************************)
(* The planner of ReconcilePlan on its own, over every input of a bounded  *)
(* set: also over those a reconciler of this version would not produce,    *)
(* such as the records a state file written by another version holds.  What *)
(* the reports say of the plan is checked with it.                         *)
(*                                                                         *)
(* The input is chosen in three steps so that TLC spreads the work; the    *)
(* properties are about the plan of a complete input.                      *)
(***************************************************************************)
EXTENDS StatusReport

CONSTANTS
    DesiredOf(_),   \* the mounts a key may ask for
    RecordsOf(_),   \* the records the state may hold for a key
    SourceStates,   \* what a source may resolve to
    TargetStates,   \* what may be found at a target
    FrozenSets      \* the groups that may be frozen

VARIABLES phase, in

vars == <<phase, in>>

Unchosen == [desired |-> <<>>, records |-> [k \in Keys |-> NoRecord], frozen |-> {},
             sources |-> <<>>, targets |-> [t \in Targets |-> NotMounted]]

ChooseDesired ==
    /\ phase = "desired"
    /\ \E D \in SUBSET Keys, f \in FrozenSets :
         \E d \in [D -> UNION {DesiredOf(k) : k \in D}] :
           /\ \A k \in D : d[k] \in DesiredOf(k)
           /\ in' = [in EXCEPT !.desired = d, !.frozen = f]
    /\ phase' = "records"

ChooseRecords ==
    /\ phase = "records"
    /\ \E r \in [Keys -> UNION {RecordsOf(k) : k \in Keys}] :
         /\ \A k \in Keys : r[k] \in RecordsOf(k)
         /\ in' = [in EXCEPT !.records = r]
    /\ phase' = "observed"

\* A mount is seen at one target at most.
ChooseObserved ==
    /\ phase = "observed"
    /\ \E s \in [DOMAIN in.desired -> SourceStates], t \in [Targets -> TargetStates] :
         /\ \A a, b \in Targets :
              t[a].kind = "Mounted" /\ t[b].kind = "Mounted"
                /\ t[a].identity = t[b].identity => a = b
         /\ in' = [in EXCEPT !.sources = s, !.targets = t]
    /\ phase' = "complete"

Init == phase = "desired" /\ in = Unchosen

Next == ChooseDesired \/ ChooseRecords \/ ChooseObserved

Spec == Init /\ [][Next]_vars

(***************************************************************************)
(* Properties of a plan.                                                   *)
(***************************************************************************)

\* The input is complete when it is planned for: members are keys.
InputOK ==
    /\ phase \in {"desired", "records", "observed", "complete"}
    /\ DOMAIN in = {"desired", "records", "frozen", "sources", "targets"}
    /\ DOMAIN in.desired \subseteq Keys

\* A view of k that is there and stays.
Stays(p, k) ==
    /\ k \in Accepted(in)
    /\ RecordMatchesDesired(in, k) /\ Verified(in, k)
    /\ p[k].removal = "none"

\* The pass leaves at most one member with a view at a target: what is mounted
\* and what stays never share one (resolve_collisions and the two phases).
OneMemberPerTarget ==
    phase = "complete" =>
        LET p == Plan(in)
        IN  \A j, k \in Keys :
               /\ p[j].mount \/ Stays(p, j)
               /\ p[k].mount \/ Stays(p, k)
               /\ in.desired[j].target = in.desired[k].target
               => j = k

\* A mount planned at a target where something is mounted waits for the removal
\* of exactly that mount, which a record proves to be byssus's own; and a mount
\* that replaces a view of its member waits until that view is gone (freed
\* targets, relocation and rows 4 and 5 with their depends_on).
MountsWaitForRemovals ==
    phase = "complete" =>
        LET p == Plan(in)
        IN  \A k \in Keys : p[k].mount =>
               /\ in.targets[in.desired[k].target].kind = "Mounted" =>
                    \E j \in p[k].after :
                        /\ p[j].removal = "unmount" /\ Verified(in, j)
                        /\ in.records[j].target = in.desired[k].target
               /\ in.records[k] # NoRecord /\ p[k].removal # "none" => k \in p[k].after
               /\ \A j \in p[k].after : p[j].removal # "none"

\* The plan removes no evidence: only a verified mount is unmounted, a record is
\* dropped only after a look at its target that did not show its mount, and no
\* record is given a new mount while the mount it stands for may still be there.
RemovalsAreProved ==
    phase = "complete" =>
        LET p == Plan(in)
            Seen(k) == in.targets[in.records[k].target].kind # "Unavailable"
        IN  \A k \in Keys :
               /\ p[k].removal = "unmount" => in.records[k] # NoRecord /\ Verified(in, k)
               /\ p[k].removal = "drop" =>
                    in.records[k] # NoRecord /\ Seen(k) /\ ~Verified(in, k)
               /\ p[k].mount /\ in.records[k] # NoRecord /\ p[k].removal = "none" =>
                    in.targets[in.records[k].target].kind = "NotMounted"

\* No member is left without a view in silence: it is mounted, or its view is
\* there and as wanted, or a finding says why not; or its view goes because its
\* source is gone, which the removal's log line says.
NothingSilent ==
    phase = "complete" =>
        LET p == Plan(in)
        IN  \A k \in Wanted(in) :
               \/ p[k].mount
               \/ Stays(p, k) /\ UpToDate(in, k)
               \/ p[k].findings # {}
               \/ p[k].removal = "unmount" /\ in.sources[k] = Gone

\* What the reports promise of a member is what the pass would do: "mounted" is
\* said of a view that is there, is byssus's and is as wanted, "would_remount" of
\* one that is there and would be replaced, "would_mount" of one that is not; and
\* the level is ok for no wanted member that would be left without its view, save
\* that its source is gone or that the state file, which would tell, is unreadable
\* (then it holds no records for the plan).
StatusTruthful ==
    phase = "complete" =>
        LET p == Plan(in)
            Own(k) == in.records[k] # NoRecord /\ Verified(in, k)
        IN  \A known \in BOOLEAN, k \in Keys :
               LET state == StateOf(in, known, k)
               IN  (known \/ \A j \in Keys : in.records[j] = NoRecord) /\ ~Frozen(in, k) =>
                      /\ state = "mounted" => Stays(p, k) /\ UpToDate(in, k)
                      /\ state = "would_remount" <=> p[k].mount /\ Own(k)
                      /\ state = "would_mount" <=> p[k].mount /\ ~Own(k)
                      /\ state = "mounted_ownership_unknown" => ~known
                      /\ k \in Wanted(in) /\ Level(state) = "ok" =>
                            \/ p[k].mount \/ Stays(p, k)
                            \/ Own(k) /\ in.sources[k] = Gone
                            \/ ~known /\ in.targets[in.desired[k].target].kind = "Mounted"

=============================================================================
