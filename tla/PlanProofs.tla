----------------------------- MODULE PlanProofs -----------------------------
(***************************************************************************)
(* Proofs about the planner, for every set of keys, targets, records and   *)
(* observations.  The planner's properties hold of the plan of any input   *)
(* whose members are keys, so the only invariant they need is InputOK.     *)
(***************************************************************************)
EXTENDS PlanCheck, PlanLemmas

(***************************************************************************)
(* The input.                                                              *)
(***************************************************************************)

\* The members of the input are keys, however the input was chosen.
THEOREM InputOKHolds == Spec => []InputOK
<1>1. Init => InputOK
  BY DEF Init, Unchosen, InputOK
<1>2. InputOK /\ [Next]_vars => InputOK'
  <2> SUFFICES ASSUME InputOK, [Next]_vars PROVE InputOK'
    OBVIOUS
  <2>1. CASE ChooseDesired
    BY <2>1 DEF ChooseDesired, InputOK
  <2>2. CASE ChooseRecords
    BY <2>2 DEF ChooseRecords, InputOK
  <2>3. CASE ChooseObserved
    BY <2>3 DEF ChooseObserved, InputOK
  <2>4. CASE UNCHANGED vars
    BY <2>4 DEF vars, InputOK
  <2> QED
    BY <2>1, <2>2, <2>3, <2>4 DEF Next
<1> QED
  BY <1>1, <1>2, PTL DEF Spec

(***************************************************************************)
(* The properties of a plan.                                               *)
(***************************************************************************)

\* Two members never end up with a view at one target, whatever the records, the
\* mounts and the configuration (resolve_collisions).
THEOREM OneMemberPerTargetHolds == Spec => []OneMemberPerTarget
<1>1. OneMemberPerTarget
  <2> SUFFICES ASSUME NEW j \in Keys, NEW k \in Keys,
                      Plan(in)[j].mount \/ Stays(Plan(in), j),
                      Plan(in)[k].mount \/ Stays(Plan(in), k),
                      in.desired[j].target = in.desired[k].target
               PROVE  j = k
    BY DEF OneMemberPerTarget
  <2>1. j \in Accepted(in) /\ k \in Accepted(in)
    BY MountedIsAccepted DEF Stays
  <2> QED
    BY <2>1, AcceptedTargetsDiffer
<1> QED
  BY <1>1, PTL

\* A mount never goes onto a mount point that the same pass does not free first,
\* nor ahead of the removal of what its member had (freed_targets, depends_on).
THEOREM MountsWaitForRemovalsHolds == Spec => []MountsWaitForRemovals
<1>1. MountsWaitForRemovals
  <2> DEFINE p == Plan(in)
             target(k) == in.targets[in.desired[k].target]
  <2> SUFFICES ASSUME NEW k \in Keys, p[k].mount
               PROVE  /\ target(k).kind = "Mounted" =>
                           \E j \in p[k].after :
                               /\ p[j].removal = "unmount" /\ Verified(in, j)
                               /\ in.records[j].target = in.desired[k].target
                      /\ in.records[k] # NoRecord /\ p[k].removal # "none" => k \in p[k].after
                      /\ \A j \in p[k].after : p[j].removal # "none"
    BY DEF MountsWaitForRemovals
  <2>1. k \in Accepted(in)
    BY MountedIsAccepted
  <2>2. CASE RecordMatchesDesired(in, k)
    <3>1. p[k] = RecordedMember(in, k)
      BY <2>1, <2>2, PlanCases
    <3>2. in.records[k].target = in.desired[k].target
      BY <2>2 DEF RecordMatchesDesired
    <3> DEFINE q == RecordedMember(in, k)
    <3>3. q.mount => \/ target(k).kind = "NotMounted" /\ q.removal = "none" /\ q.after = {}
                     \/ Verified(in, k) /\ q.removal = "unmount" /\ q.after = {k}
      BY RecordedFields, Zenon
    <3>4. \/ target(k).kind = "NotMounted" /\ p[k].removal = "none" /\ p[k].after = {}
          \/ Verified(in, k) /\ p[k].removal = "unmount" /\ p[k].after = {k}
      BY <3>1, <3>3
    <3> QED
      BY <3>2, <3>4
  <2>3. CASE ~RecordMatchesDesired(in, k)
    <3>1. p[k] = UnrecordedMember(in, k)
      BY <2>1, <2>3, PlanCases
    <3>2. /\ target(k).kind = "Mounted" => FreedBy(in, in.desired[k].target) # {}
          /\ p[k].after = (IF k \in Departing(in) THEN {k} ELSE {})
                            \cup AtTarget(in, in.desired[k].target)
          /\ k \in Departing(in) => p[k].removal # "none"
      BY <3>1, UnrecordedFields
    <3>3. ASSUME NEW j \in FreedBy(in, in.desired[k].target)
          PROVE  /\ p[j].removal = "unmount" /\ Verified(in, j)
                 /\ in.records[j].target = in.desired[k].target
      <4>1. /\ j \in Keys /\ j \in Departing(in)
            /\ in.records[j].target = in.desired[k].target
            /\ DepartingRemoval(in, j) = "unmount"
        BY <3>3 DEF FreedBy, Freeing, Departing
      <4> QED
        BY <4>1, DepartingIsRemoved, DepartingRemovals
    <3>4. in.records[k] # NoRecord /\ p[k].removal # "none" => k \in p[k].after
      BY <2>1, <2>3, <3>2, AcceptedRecords
    <3>5. target(k).kind = "Mounted" => \E j \in p[k].after : j \in FreedBy(in, in.desired[k].target)
      BY <3>2 DEF AtTarget
    <3>6. \A j \in p[k].after : p[j].removal # "none"
      BY <3>2, <3>3 DEF AtTarget
    <3> QED
      BY <3>3, <3>4, <3>5, <3>6
  <2> QED
    BY <2>2, <2>3
<1> QED
  BY <1>1, PTL

\* What the plan removes is proved by a record and by what is at the target.
LEMMA RemovalsProved == RemovalsAreProved
<1> DEFINE p == Plan(in)
           kind(k) == in.targets[in.records[k].target].kind
<1> SUFFICES ASSUME NEW k \in Keys
             PROVE  /\ p[k].removal = "unmount" => in.records[k] # NoRecord /\ Verified(in, k)
                    /\ p[k].removal = "drop" =>
                         /\ in.records[k] # NoRecord
                         /\ kind(k) # "Unavailable" /\ ~Verified(in, k)
                    /\ p[k].mount /\ in.records[k] # NoRecord /\ p[k].removal = "none" =>
                         kind(k) = "NotMounted"
  BY Zenon DEF RemovalsAreProved
<1>1. CASE k \in Departing(in)
  <2>1. in.records[k] # NoRecord
    BY <1>1 DEF Departing
  <2>2. p[k].removal = DepartingRemoval(in, k)
    BY <1>1, DepartingIsRemoved
  <2>3. p[k].mount => p[k].removal # "none"
    <3>1. ASSUME p[k].mount PROVE p[k].removal # "none"
      <4>1. k \in Accepted(in) /\ ~RecordMatchesDesired(in, k)
        BY <1>1, <2>1, <3>1, MountedIsAccepted, AcceptedRecords
      <4>2. p[k] = UnrecordedMember(in, k)
        BY <4>1, PlanCases
      <4> QED
        BY <1>1, <3>1, <4>2, UnrecordedFields
    <3> QED
      BY <3>1
  <2> QED
    BY <2>1, <2>2, <2>3, DepartingRemovals
<1>2. CASE k \notin Departing(in) /\ k \in Accepted(in) /\ RecordMatchesDesired(in, k)
  <2>1. p[k] = RecordedMember(in, k)
    BY <1>2, PlanCases
  <2>2. in.records[k] # NoRecord /\ in.records[k].target = in.desired[k].target
    BY <1>2 DEF RecordMatchesDesired
  <2>3. kind(k) = "NotMounted" => ~Verified(in, k)
    BY DEF Verified
  <2> QED
    BY <2>1, <2>2, <2>3, RecordedFields
<1>3. CASE k \notin Departing(in) /\ k \in Accepted(in) /\ ~RecordMatchesDesired(in, k)
  <2>1. p[k] = UnrecordedMember(in, k)
    BY <1>3, PlanCases
  <2>2. in.records[k] = NoRecord
    BY <1>3, AcceptedRecords
  <2>3. p[k].removal = "none"
    BY <1>3, <2>1, UnrecordedFields
  <2> QED
    BY <2>2, <2>3
<1>4. CASE k \notin Departing(in) /\ k \notin Accepted(in)
  <2>1. p[k].removal = "none"
    <3>1. p[k] = NonMember(in, k)
      BY <1>4, PlanCases
    <3>2. NonMember(in, k).removal = "none"
      BY <1>4, NonMemberFields
    <3> QED
      BY <3>1, <3>2
  <2>2. ~p[k].mount
    BY <1>4, MountedIsAccepted
  <2> QED
    BY <2>1, <2>2
<1> QED
  BY <1>1, <1>2, <1>3, <1>4

\* The plan never unmounts what a record does not prove to be byssus's, never
\* forgets a record whose mount it saw or could not look for, and never gives a
\* key a second mount while the first may be up (decision table, rows 4 to 12).
THEOREM RemovalsAreProvedHolds == Spec => []RemovalsAreProved
BY RemovalsProved, PTL

\* A member without a view has a finding, or its source is gone.
LEMMA SilentNever == ASSUME InputOK PROVE NothingSilent
<1> DEFINE p == Plan(in)
<1> SUFFICES ASSUME NEW k \in Wanted(in)
             PROVE  \/ p[k].mount
                    \/ Stays(p, k) /\ UpToDate(in, k)
                    \/ p[k].findings # {}
                    \/ p[k].removal = "unmount" /\ in.sources[k] = Gone
  BY DEF NothingSilent
<1>1. k \in Keys
  BY DEF Wanted, InputOK
<1>2. CASE k \notin Accepted(in)
  BY <1>1, <1>2, PlanCases, NonMemberFields
<1>3. CASE k \in Accepted(in) /\ ~RecordMatchesDesired(in, k)
  <2>1. p[k] = UnrecordedMember(in, k)
    BY <1>1, <1>3, PlanCases
  <2> QED
    BY <1>1, <2>1, UnrecordedFields
<1>4. CASE k \in Accepted(in) /\ RecordMatchesDesired(in, k)
  <2>1. p[k] = RecordedMember(in, k)
    BY <1>1, <1>4, PlanCases
  <2> DEFINE q == RecordedMember(in, k)
  <2>2. \/ q.mount
        \/ q.findings # {}
        \/ q.removal = "unmount" /\ in.sources[k] = Gone
        \/ Verified(in, k) /\ UpToDate(in, k) /\ q.removal = "none"
    BY <1>1, RecordedFields, Zenon
  <2> QED
    BY <1>4, <2>1, <2>2, Zenon DEF Stays
<1> QED
  BY <1>2, <1>3, <1>4

\* Whatever keeps a member from having its view, the plan says so: no combination
\* of records, sources and targets makes a member disappear without a finding.
THEOREM NothingSilentHolds == Spec => []NothingSilent
<1>1. InputOK => NothingSilent
  BY SilentNever
<1> QED
  BY <1>1, InputOKHolds, PTL

\* The reports say of every member what the pass would do with it, and hide no
\* member that would be left without its view (member_statuses).
THEOREM StatusTruthfulHolds == Spec => []StatusTruthful
<1>1. InputOK => StatusTruthful
  <2> DEFINE p == Plan(in)
             Own(k) == in.records[k] # NoRecord /\ Verified(in, k)
  <2> SUFFICES ASSUME InputOK, phase = "complete", NEW known \in BOOLEAN, NEW k \in Keys,
                      ~Frozen(in, k)
               PROVE  LET state == StateOf(in, known, k)
                      IN  /\ state = "mounted" => Stays(p, k) /\ UpToDate(in, k)
                          /\ state = "would_remount" <=> p[k].mount /\ Own(k)
                          /\ state = "would_mount" <=> p[k].mount /\ ~Own(k)
                          /\ state = "mounted_ownership_unknown" => ~known
                          /\ k \in Wanted(in) /\ Level(state) = "ok" =>
                                \/ p[k].mount \/ Stays(p, k)
                                \/ Own(k) /\ in.sources[k] = Gone
                                \/ ~known /\ in.targets[in.desired[k].target].kind = "Mounted"
    BY Zenon DEF StatusTruthful
  <2> DEFINE state == StateOf(in, known, k)
  <2>1. k \in Wanted(in) =>
           \/ p[k].mount
           \/ Stays(p, k) /\ UpToDate(in, k)
           \/ p[k].findings # {}
           \/ p[k].removal = "unmount" /\ in.sources[k] = Gone
    BY SilentNever DEF NothingSilent
  <2>2. /\ p[k].removal = "unmount" => Own(k)
        /\ p[k].removal = "drop" => ~Own(k)
        /\ p[k].mount /\ p[k].removal = "none" => ~Own(k)
    BY RemovalsProved DEF RemovalsAreProved, Verified
  <2>3. p[k].removal \in {"none", "unmount", "drop"}
    BY PlanType DEF KeyPlan
  <2>4. CASE p[k].findings # {}
    <3>1. state = FindingState(p[k].findings, known)
      BY <2>4 DEF StateOf
    <3>2. ~p[k].mount
      BY <2>4, FindingFacts
    <3>3. state \notin {"mounted", "would_remount", "would_mount"}
      BY <3>1 DEF FindingState
    <3>4. state = "mounted_ownership_unknown" => ~known /\ p[k].findings = {"ForeignMount"}
      BY <3>1 DEF FindingState
    <3>5. Level(state) = "ok" => state = "mounted_ownership_unknown"
      BY <3>1 DEF FindingState, Level, OkStates, WarnStates
    <3> QED
      BY <3>2, <3>3, <3>4, <3>5, FindingFacts
  <2>5. CASE p[k].findings = {}
    <3>1. state = StepState(in, k)
      BY <2>5 DEF StateOf
    <3>2. CASE p[k].mount
      <4>1. state = IF p[k].removal = "unmount" THEN "would_remount" ELSE "would_mount"
        BY <3>1, <3>2 DEF StepState
      <4> QED
        BY <2>2, <2>3, <3>2, <4>1
    <3>3. CASE ~p[k].mount
      <4>1. /\ state \notin {"would_remount", "would_mount", "mounted_ownership_unknown"}
            /\ state = "mounted" => p[k].removal = "none" /\ k \in Wanted(in)
        BY <2>3, <3>1, <3>3 DEF StepState, ListedState, Wanted
      <4> QED
        BY <2>1, <2>2, <2>5, <3>3, <4>1 DEF Stays
    <3> QED
      BY <3>2, <3>3
  <2> QED
    BY <2>4, <2>5
<1> QED
  BY <1>1, InputOKHolds, PTL

=============================================================================
