----------------------------- MODULE PlanLemmas -----------------------------
(***************************************************************************)
(* Lemmas about the planner's operators, for any input: what each case of  *)
(* the decision table plans, and which case applies.  The proofs about the *)
(* planner (PlanProofs) and about the reconciler (ReconcilerProofs) rest   *)
(* on them.                                                                *)
(***************************************************************************)
EXTENDS ReconcilePlan, TLAPS

(***************************************************************************)
(* What the planner plans.                                                 *)
(***************************************************************************)

\* Which of the three cases plans for a key.
LEMMA PlanCases ==
    ASSUME NEW in, NEW k \in Keys
    PROVE  /\ k \notin Accepted(in) => Plan(in)[k] = NonMember(in, k)
           /\ k \in Accepted(in) /\ RecordMatchesDesired(in, k)
                => Plan(in)[k] = RecordedMember(in, k)
           /\ k \in Accepted(in) /\ ~RecordMatchesDesired(in, k)
                => Plan(in)[k] = UnrecordedMember(in, k)
<1>1. k \notin Accepted(in) => Plan(in)[k] = NonMember(in, k)
  BY Zenon DEF Plan
<1>2. k \in Accepted(in) /\ RecordMatchesDesired(in, k)
        => Plan(in)[k] = RecordedMember(in, k)
  BY Zenon DEF Plan
<1>3. k \in Accepted(in) /\ ~RecordMatchesDesired(in, k)
        => Plan(in)[k] = UnrecordedMember(in, k)
  BY Zenon DEF Plan
<1> QED
  BY <1>1, <1>2, <1>3

\* A key that is not accepted is not mounted.
LEMMA NonMemberFields ==
    ASSUME NEW in, NEW k \in Keys
    PROVE  /\ NonMember(in, k).mount = FALSE
           /\ NonMember(in, k).removal =
                IF k \in Departing(in) THEN DepartingRemoval(in, k) ELSE "none"
           /\ k \in Wanted(in) => "TargetCollision" \in NonMember(in, k).findings
<1>1. NonMember(in, k).mount = FALSE
  BY DEF NonMember, Step
<1>2. NonMember(in, k).removal =
        IF k \in Departing(in) THEN DepartingRemoval(in, k) ELSE "none"
  BY DEF NonMember, Step
<1>3. k \in Wanted(in) => "TargetCollision" \in NonMember(in, k).findings
  BY DEF NonMember, Step
<1> QED
  BY <1>1, <1>2, <1>3

\* Only accepted members are mounted.
LEMMA MountedIsAccepted ==
    ASSUME NEW in, NEW k \in Keys, Plan(in)[k].mount
    PROVE  k \in Accepted(in)
<1>1. ASSUME k \notin Accepted(in) PROVE FALSE
  BY <1>1, PlanCases, NonMemberFields, Zenon
<1> QED
  BY <1>1

\* Of the members that claim one target the planner accepts one at most.
LEMMA AcceptedTargetsDiffer ==
    ASSUME NEW in, NEW j \in Keys, NEW k \in Keys, j \in Accepted(in), k \in Accepted(in),
           in.desired[j].target = in.desired[k].target
    PROVE  j = k
<1>1. j \in Claimants(in, k) /\ k \in Claimants(in, j)
  BY DEF Accepted, Claimants
<1>2. Claimants(in, j) = Claimants(in, k)
  BY DEF Claimants
<1>3. CASE Claimants(in, k) = {k} \/ Claimants(in, j) = {j}
  BY <1>1, <1>2, <1>3
<1>4. CASE Kept(in, j) /\ Kept(in, k)
  <2>1. Holders(in, j) = Holders(in, k)
    BY <1>2 DEF Holders
  <2>2. j <= k /\ k <= j
    BY <1>4, <2>1 DEF Kept
  <2> QED
    BY <2>2, PlanAssumption
<1> QED
  BY <1>3, <1>4 DEF Accepted

\* What phase A leaves to do at the target t.
AtTarget(in, t) == IF in.targets[t].kind = "Mounted" THEN FreedBy(in, t) ELSE {}

\* What the plan does with an unrecorded member.
LEMMA UnrecordedFields ==
    ASSUME NEW in, NEW k \in Keys
    PROVE  LET p == UnrecordedMember(in, k)
               t == in.desired[k].target
           IN  /\ p.removal = IF k \in Departing(in) THEN DepartingRemoval(in, k) ELSE "none"
               /\ \/ /\ p.mount = TRUE
                     /\ in.targets[t].kind = "Mounted" => FreedBy(in, t) # {}
                     /\ p.after = (IF k \in Departing(in) THEN {k} ELSE {}) \cup AtTarget(in, t)
                     /\ k \in Departing(in) => DepartingRemoval(in, k) # "none"
                  \/ p.mount = FALSE /\ p.findings # {}
<1> DEFINE t == in.desired[k].target
<1>1. UnrecordedMember(in, k).removal =
        IF k \in Departing(in) THEN DepartingRemoval(in, k) ELSE "none"
  BY DEF UnrecordedMember, Step
<1>2. CASE k \in Departing(in) /\ DepartingRemoval(in, k) = "none"
  <2>1. UnrecordedMember(in, k).mount = FALSE /\ UnrecordedMember(in, k).findings # {}
    BY <1>2 DEF UnrecordedMember, Step
  <2> QED
    BY <1>1, <2>1
<1>3. CASE ~(k \in Departing(in) /\ DepartingRemoval(in, k) = "none")
  <2>1. CASE \/ in.targets[t].kind = "Mounted" /\ FreedBy(in, t) = {}
             \/ in.targets[t].kind = "Unavailable"
             \/ in.sources[k] = Gone
    <3>1. UnrecordedMember(in, k).mount = FALSE /\ UnrecordedMember(in, k).findings # {}
      BY <1>3, <2>1 DEF UnrecordedMember, Step
    <3> QED
      BY <1>1, <3>1
  <2>2. CASE ~(\/ in.targets[t].kind = "Mounted" /\ FreedBy(in, t) = {}
               \/ in.targets[t].kind = "Unavailable"
               \/ in.sources[k] = Gone)
    <3>1. UnrecordedMember(in, k).mount = TRUE
      BY <1>3, <2>2 DEF UnrecordedMember, Step
    <3>2. UnrecordedMember(in, k).after =
            (IF k \in Departing(in) THEN {k} ELSE {}) \cup AtTarget(in, t)
      BY <1>3, <2>2 DEF UnrecordedMember, Step, AtTarget
    <3> QED
      BY <1>1, <1>3, <2>2, <3>1, <3>2
  <2> QED
    BY <2>1, <2>2
<1> QED
  BY <1>2, <1>3

\* What the plan does with a member recorded where it is desired.
LEMMA RecordedFields ==
    ASSUME NEW in, NEW k \in Keys
    PROVE  LET p == RecordedMember(in, k)
               kind == in.targets[in.desired[k].target].kind
           IN  \/ p.mount = FALSE /\ p.removal = "none" /\ p.findings # {}
               \/ /\ kind = "NotMounted" /\ in.sources[k] = Gone
                  /\ p.mount = FALSE /\ p.removal = "drop" /\ p.findings # {}
               \/ /\ kind = "NotMounted"
                  /\ p.mount = TRUE /\ p.removal = "none" /\ p.after = {}
               \/ /\ Verified(in, k) /\ in.sources[k] = Gone
                  /\ p.mount = FALSE /\ p.removal = "unmount"
               \/ /\ Verified(in, k) /\ UpToDate(in, k)
                  /\ p.mount = FALSE /\ p.removal = "none"
               \/ /\ Verified(in, k) /\ p.mount = TRUE
                  /\ p.removal = "unmount" /\ p.after = {k}
<1> DEFINE kind == in.targets[in.desired[k].target].kind
           p == RecordedMember(in, k)
<1>1. CASE kind = "Mounted" /\ Verified(in, k)
  <2>1. p = VerifiedMember(in, k)
    BY <1>1, Zenon DEF RecordedMember
  <2>2. CASE in.sources[k] = Gone
    <3>1. p.mount = FALSE /\ p.removal = "unmount"
      BY <2>1, <2>2 DEF VerifiedMember, Step
    <3> QED
      BY <1>1, <2>2, <3>1
  <2>3. CASE in.sources[k] # Gone /\ UpToDate(in, k)
    <3>1. p.mount = FALSE /\ p.removal = "none"
      BY <2>1, <2>3 DEF VerifiedMember, Step
    <3> QED
      BY <1>1, <2>3, <3>1
  <2>4. CASE in.sources[k] # Gone /\ ~UpToDate(in, k)
    <3>1. p.mount = TRUE /\ p.removal = "unmount" /\ p.after = {k}
      BY <2>1, <2>4 DEF VerifiedMember, Step
    <3> QED
      BY <1>1, <3>1
  <2> QED
    BY <2>2, <2>3, <2>4
<1>2. CASE kind = "NotMounted"
  <2>1. p = UnmountedMember(in, k)
    BY <1>2 DEF RecordedMember
  <2>2. CASE in.sources[k] = Gone
    <3>1. p.mount = FALSE /\ p.removal = "drop" /\ p.findings # {}
      BY <2>1, <2>2 DEF UnmountedMember, Step
    <3> QED
      BY <1>2, <2>2, <3>1
  <2>3. CASE in.sources[k] # Gone
    <3>1. p.mount = TRUE /\ p.removal = "none" /\ p.after = {}
      BY <2>1, <2>3 DEF UnmountedMember, Step
    <3> QED
      BY <1>2, <3>1
  <2> QED
    BY <2>2, <2>3
<1>3. CASE kind # "NotMounted" /\ ~(kind = "Mounted" /\ Verified(in, k))
  <2>1. p.mount = FALSE /\ p.removal = "none" /\ p.findings # {}
    BY <1>3 DEF RecordedMember, Step
  <2> QED
    BY <2>1
<1> QED
  BY <1>1, <1>2, <1>3

\* A key with a departing record has the removal that phase A plans for it.
LEMMA DepartingIsRemoved ==
    ASSUME NEW in, NEW k \in Keys, k \in Departing(in)
    PROVE  Plan(in)[k].removal = DepartingRemoval(in, k)
<1>1. ~(k \in Accepted(in) /\ RecordMatchesDesired(in, k))
  BY Zenon DEF Departing
<1> QED
  BY <1>1, PlanCases, NonMemberFields, UnrecordedFields

\* An accepted member's record that is not where the member is desired departs.
LEMMA AcceptedRecords ==
    ASSUME NEW in, NEW k \in Keys, k \in Accepted(in), in.records[k] # NoRecord
    PROVE  RecordMatchesDesired(in, k) <=> k \notin Departing(in)
BY Zenon DEF Accepted, Wanted, Departing

\* A record that departs and is not unmounted was seen, and not found, if it is
\* dropped.
LEMMA DepartingRemovals ==
    ASSUME NEW in, NEW k \in Keys
    PROVE  LET kind == in.targets[in.records[k].target].kind
           IN  \/ kind = "Unavailable" /\ DepartingRemoval(in, k) = "none"
               \/ Verified(in, k) /\ DepartingRemoval(in, k) = "unmount"
               \/ /\ kind # "Unavailable" /\ ~Verified(in, k)
                  /\ DepartingRemoval(in, k) = "drop"
BY DEF DepartingRemoval, Verified

\* Only what is recorded is removed.
LEMMA RemovalsHaveRecords ==
    ASSUME NEW in, NEW k \in Keys, Plan(in)[k].removal # "none"
    PROVE  in.records[k] # NoRecord
<1>1. CASE k \in Departing(in)
  BY <1>1 DEF Departing
<1>2. CASE k \notin Departing(in) /\ k \in Accepted(in) /\ RecordMatchesDesired(in, k)
  BY <1>2 DEF RecordMatchesDesired
<1>3. CASE k \notin Departing(in) /\ k \in Accepted(in) /\ ~RecordMatchesDesired(in, k)
  <2>1. Plan(in)[k] = UnrecordedMember(in, k)
    BY <1>3, PlanCases
  <2>2. UnrecordedMember(in, k).removal = "none"
    BY <1>3, UnrecordedFields
  <2> QED
    BY <2>1, <2>2
<1>4. CASE k \notin Departing(in) /\ k \notin Accepted(in)
  <2>1. Plan(in)[k] = NonMember(in, k)
    BY <1>4, PlanCases
  <2>2. NonMember(in, k).removal = "none"
    BY <1>4, NonMemberFields
  <2> QED
    BY <2>1, <2>2
<1> QED
  BY <1>1, <1>2, <1>3, <1>4

\* A member that is mounted has no finding, and a foreign mount is there.
LEMMA FindingFacts ==
    ASSUME NEW in, NEW k \in Keys
    PROVE  /\ Plan(in)[k].mount => Plan(in)[k].findings = {}
           /\ Plan(in)[k].findings = {"ForeignMount"} =>
                in.targets[in.desired[k].target].kind = "Mounted"
<1>1. CASE k \notin Accepted(in)
  <2>1. /\ NonMember(in, k).mount = FALSE
        /\ NonMember(in, k).findings # {"ForeignMount"}
    BY DEF NonMember, Step
  <2> QED
    BY <1>1, <2>1, PlanCases
<1>2. CASE k \in Accepted(in) /\ RecordMatchesDesired(in, k)
  <2>1. /\ VerifiedMember(in, k).findings = {}
        /\ UnmountedMember(in, k).mount => UnmountedMember(in, k).findings = {}
        /\ UnmountedMember(in, k).findings # {"ForeignMount"}
    BY DEF VerifiedMember, UnmountedMember, Step
  <2>2. /\ RecordedMember(in, k).mount => RecordedMember(in, k).findings = {}
        /\ RecordedMember(in, k).findings # {"ForeignMount"}
    BY <2>1 DEF RecordedMember, Step
  <2> QED
    BY <1>2, <2>2, PlanCases
<1>3. CASE k \in Accepted(in) /\ ~RecordMatchesDesired(in, k)
  <2>1. /\ UnrecordedMember(in, k).mount => UnrecordedMember(in, k).findings = {}
        /\ UnrecordedMember(in, k).findings = {"ForeignMount"} =>
             in.targets[in.desired[k].target].kind = "Mounted"
    BY DEF UnrecordedMember, Step
  <2> QED
    BY <1>3, <2>1, PlanCases
<1> QED
  BY <1>1, <1>2, <1>3

\* Where a mount is wanted, its key has no record, or one for the same target, or the
\* mount waits for the record to be removed.
LEMMA MountFits ==
    ASSUME NEW in, NEW k \in Keys, Plan(in)[k].mount
    PROVE  /\ k \in DOMAIN in.desired
           /\ \/ in.records[k] = NoRecord
              \/ in.records[k].target = in.desired[k].target
              \/ k \in Plan(in)[k].after /\ Plan(in)[k].removal # "none"
<1>1. k \in Accepted(in)
  BY MountedIsAccepted
<1>2. k \in DOMAIN in.desired
  BY <1>1, Zenon DEF Accepted, Wanted
<1>3. CASE RecordMatchesDesired(in, k)
  BY <1>2, <1>3 DEF RecordMatchesDesired
<1>4. CASE in.records[k] # NoRecord /\ ~RecordMatchesDesired(in, k)
  <2>1. k \in Departing(in)
    BY <1>1, <1>4, AcceptedRecords
  <2>2. Plan(in)[k] = UnrecordedMember(in, k)
    BY <1>1, <1>4, PlanCases
  <2>3. k \in Plan(in)[k].after /\ Plan(in)[k].removal # "none"
    BY <2>1, <2>2, UnrecordedFields
  <2> QED
    BY <1>2, <2>3
<1> QED
  BY <1>2, <1>3, <1>4

(***************************************************************************)
(* Types.                                                                  *)
(***************************************************************************)

\* The keys that free a target are keys.
LEMMA FreedKeys ==
    ASSUME NEW in, NEW t
    PROVE  FreedBy(in, t) \subseteq Keys
BY DEF FreedBy, Freeing, Departing

\* What phase A plans is a removal.
LEMMA RemovalType ==
    ASSUME NEW in, NEW k
    PROVE  DepartingRemoval(in, k) \in {"none", "unmount", "drop"}
BY DEF DepartingRemoval

\* A step put together from parts of the right types is one of the plan's.
LEMMA StepIsKeyPlan ==
    ASSUME NEW departing \in BOOLEAN, NEW removal \in {"none", "unmount", "drop"},
           NEW mount \in BOOLEAN, NEW after \in SUBSET Keys, NEW findings \in SUBSET FindingKind
    PROVE  Step(departing, removal, mount, after, findings) \in KeyPlan
BY DEF Step, KeyPlan

\* Every key gets a plan of the right type.
LEMMA PlanType ==
    ASSUME NEW in
    PROVE  Plan(in) \in [Keys -> KeyPlan]
<1> SUFFICES ASSUME NEW k \in Keys
             PROVE  /\ NonMember(in, k) \in KeyPlan
                    /\ RecordedMember(in, k) \in KeyPlan
                    /\ UnrecordedMember(in, k) \in KeyPlan
  BY DEF Plan
<1>1. NonMember(in, k) \in KeyPlan
  BY RemovalType DEF NonMember, Step, KeyPlan, FindingKind
<1>2. RecordedMember(in, k) \in KeyPlan
  <2>1. VerifiedMember(in, k) \in KeyPlan
    BY DEF VerifiedMember, Step, KeyPlan, FindingKind
  <2>2. UnmountedMember(in, k) \in KeyPlan
    BY DEF UnmountedMember, Step, KeyPlan, FindingKind
  <2> QED
    BY <2>1, <2>2 DEF RecordedMember, Step, KeyPlan, FindingKind
<1>3. UnrecordedMember(in, k) \in KeyPlan
  <2> DEFINE departing == k \in Departing(in)
             removal == IF departing THEN DepartingRemoval(in, k) ELSE "none"
             freed == FreedBy(in, in.desired[k].target)
  <2>1. departing \in BOOLEAN /\ removal \in {"none", "unmount", "drop"}
    BY RemovalType
  <2>2. freed \in SUBSET Keys
    BY FreedKeys
  <2>3. \A b \in BOOLEAN, after \in SUBSET Keys, findings \in SUBSET FindingKind :
          Step(departing, removal, b, after, findings) \in KeyPlan
    BY <2>1, StepIsKeyPlan
  <2>4. \/ \E findings \in SUBSET FindingKind :
             UnrecordedMember(in, k) = Step(departing, removal, FALSE, {}, findings)
        \/ \E after \in SUBSET Keys :
             UnrecordedMember(in, k) = Step(departing, removal, TRUE, after, {})
    BY <2>2 DEF UnrecordedMember, FindingKind
  <2> QED
    BY <2>3, <2>4
<1> QED
  BY <1>1, <1>2, <1>3

(***************************************************************************)
(* What one step of a plan leaves of it.                                   *)
(***************************************************************************)

\* Two records never describe one mount.
OneVerified(in) ==
    \A i, j \in Keys :
        /\ in.records[i] # NoRecord /\ in.records[j] # NoRecord
        /\ in.records[i].target = in.records[j].target
        /\ Verified(in, i) /\ Verified(in, j)
        => i = j

\* What a pass would find before and after a step for k: the members are the same, and
\* what it takes the other records for.
StepOf(k, in, out) ==
    /\ out.desired = in.desired /\ out.frozen = in.frozen /\ out.sources = in.sources
    /\ DOMAIN in.desired \subseteq Keys
    /\ \A j \in DOMAIN in.desired : in.desired[j].target \in Targets
    /\ OneVerified(in) /\ OneVerified(out)
    /\ \A j \in Keys \ {k} :
         /\ out.records[j] = in.records[j]
         /\ in.records[j] # NoRecord =>
              /\ Verified(out, j) <=> Verified(in, j)
              /\ out.targets[in.records[j].target].kind = "Unavailable"
                   <=> in.targets[in.records[j].target].kind = "Unavailable"

\* A target that looks the same is verified, or not, for the same records.
LEMMA VerifiedStays ==
    ASSUME NEW j, NEW in, NEW out, out.records[j] = in.records[j],
           out.targets[in.records[j].target] = in.targets[in.records[j].target]
    PROVE  Verified(out, j) <=> Verified(in, j)
BY DEF Verified

\* A step keeps the records to different mounts, if that of k does not name one of others.
LEMMA OneVerifiedStays ==
    ASSUME NEW k \in Keys, NEW in, NEW out, OneVerified(in),
           \A j \in Keys \ {k} :
              /\ out.records[j] = in.records[j]
              /\ in.records[j] # NoRecord => (Verified(out, j) <=> Verified(in, j))
              /\ /\ out.records[k] # NoRecord /\ in.records[j] # NoRecord
                 /\ in.records[j].target = out.records[k].target
                 => ~Verified(in, j)
    PROVE  OneVerified(out)
BY DEF OneVerified

\* If records name different mounts, the member mounted at a target is its only holder.
LEMMA AcceptedIf ==
    ASSUME NEW in, DOMAIN in.desired \subseteq Keys, OneVerified(in), NEW j \in Keys
    PROVE  j \in Accepted(in) <=>
              /\ j \in Wanted(in)
              /\ Claimants(in, j) = {j} \/ (RecordMatchesDesired(in, j) /\ Verified(in, j))
<1>1. ASSUME j \in Wanted(in), RecordMatchesDesired(in, j), Verified(in, j)
      PROVE  Kept(in, j)
  <2>1. j \in Holders(in, j)
    BY <1>1 DEF Holders, Claimants
  <2>2. ASSUME NEW h \in Holders(in, j) PROVE j <= h
    <3>1. /\ h \in Keys /\ RecordMatchesDesired(in, h) /\ Verified(in, h)
          /\ in.desired[h].target = in.desired[j].target
      BY DEF Holders, Claimants, Wanted
    <3>2. h = j
      BY <1>1, <3>1 DEF OneVerified, RecordMatchesDesired
    <3> QED
      BY <3>2, PlanAssumption
  <2> QED
    BY <2>1, <2>2 DEF Kept
<1>2. Kept(in, j) => RecordMatchesDesired(in, j) /\ Verified(in, j)
  BY Zenon DEF Kept, Holders
<1> QED
  BY <1>1, <1>2 DEF Accepted

\* And the key whose mount is removed from it the only one that frees it.
LEMMA FreedIf ==
    ASSUME NEW in, OneVerified(in), NEW t
    PROVE  FreedBy(in, t) = Freeing(in, t)
<1>1. ASSUME NEW i \in Freeing(in, t), NEW j \in Freeing(in, t) PROVE j <= i
  <2>1. \A h \in Freeing(in, t) : /\ h \in Keys /\ in.records[h] # NoRecord
                                  /\ in.records[h].target = t /\ Verified(in, h)
    BY DepartingRemovals DEF Freeing, Departing
  <2>2. i = j /\ i \in Nat
    BY <2>1, PlanAssumption DEF OneVerified
  <2> QED
    BY <2>2
<1> QED
  BY <1>1 DEF FreedBy

\* The removal planned for a key is that of its departing record, or of its view.
LEMMA RemovalIs ==
    ASSUME NEW in, NEW k \in Keys
    PROVE  Plan(in)[k].removal =
             IF k \in Departing(in) THEN DepartingRemoval(in, k)
             ELSE IF k \in Accepted(in) /\ RecordMatchesDesired(in, k)
               THEN RecordedMember(in, k).removal
             ELSE "none"
<1>1. CASE k \in Departing(in)
  BY <1>1, DepartingIsRemoved
<1>2. CASE k \notin Departing(in) /\ k \notin Accepted(in)
  <2>1. NonMember(in, k).removal = "none"
    BY <1>2, NonMemberFields
  <2> QED
    BY <1>2, <2>1, PlanCases
<1>3. CASE k \notin Departing(in) /\ k \in Accepted(in) /\ RecordMatchesDesired(in, k)
  BY <1>3, PlanCases
<1>4. CASE k \notin Departing(in) /\ k \in Accepted(in) /\ ~RecordMatchesDesired(in, k)
  <2>1. UnrecordedMember(in, k).removal = "none"
    BY <1>4, UnrecordedFields
  <2> QED
    BY <1>4, <2>1, PlanCases
<1> QED
  BY <1>1, <1>2, <1>3, <1>4

\* A view is unmounted if it is found in its place; if not, its record is dropped.
LEMMA RemovalMeans ==
    ASSUME NEW in, NEW k \in Keys
    PROVE  /\ Plan(in)[k].removal = "unmount" => Verified(in, k)
           /\ Plan(in)[k].removal = "drop" => ~Verified(in, k)
           /\ Plan(in)[k].removal = "drop" /\ k \notin Departing(in) => in.sources[k] = Gone
<1>1. CASE k \in Departing(in)
  BY <1>1, RemovalIs, DepartingRemovals
<1>2. CASE k \notin Departing(in) /\ k \in Accepted(in) /\ RecordMatchesDesired(in, k)
  <2>1. in.targets[in.desired[k].target].kind = "NotMounted" => ~Verified(in, k)
    BY <1>2 DEF RecordMatchesDesired, Verified
  <2>2. Plan(in)[k].removal = RecordedMember(in, k).removal
    BY <1>2, RemovalIs
  <2>3. /\ RecordedMember(in, k).removal = "unmount" => Verified(in, k)
        /\ RecordedMember(in, k).removal = "drop" =>
             in.targets[in.desired[k].target].kind = "NotMounted" /\ in.sources[k] = Gone
    BY RecordedFields
  <2> QED
    BY <2>1, <2>2, <2>3
<1>3. CASE k \notin Departing(in) /\ ~(k \in Accepted(in) /\ RecordMatchesDesired(in, k))
  BY <1>3, RemovalIs
<1> QED
  BY <1>1, <1>2, <1>3

\* What a step for k leaves as it is.
LEMMA OthersStay ==
    ASSUME NEW k, NEW in, NEW out, StepOf(k, in, out), NEW j \in Keys \ {k}
    PROVE  /\ j \in Accepted(out) <=> j \in Accepted(in)
           /\ RecordMatchesDesired(out, j) <=> RecordMatchesDesired(in, j)
           /\ j \in Departing(out) <=> j \in Departing(in)
           /\ j \in Departing(in) => DepartingRemoval(out, j) = DepartingRemoval(in, j)
<1>1. /\ out.desired = in.desired /\ out.frozen = in.frozen
      /\ OneVerified(in) /\ OneVerified(out) /\ DOMAIN in.desired \subseteq Keys
      /\ out.records[j] = in.records[j]
      /\ in.records[j] # NoRecord =>
           /\ Verified(out, j) <=> Verified(in, j)
           /\ out.targets[in.records[j].target].kind = "Unavailable"
                <=> in.targets[in.records[j].target].kind = "Unavailable"
  BY DEF StepOf
<1>2. RecordMatchesDesired(out, j) <=> RecordMatchesDesired(in, j)
  BY <1>1 DEF RecordMatchesDesired
<1>3. Wanted(out) = Wanted(in) /\ Claimants(out, j) = Claimants(in, j)
  BY <1>1 DEF Wanted, Claimants, Frozen
<1>4. RecordMatchesDesired(in, j) => in.records[j] # NoRecord
  BY DEF RecordMatchesDesired
<1>5. j \in Accepted(out) <=> j \in Accepted(in)
  BY <1>1, <1>2, <1>3, <1>4, AcceptedIf
<1>6. j \in Departing(out) <=> j \in Departing(in)
  BY <1>1, <1>2, <1>5 DEF Departing, Frozen
<1>7. j \in Departing(in) => in.records[j] # NoRecord
  BY DEF Departing
<1>8. j \in Departing(in) => DepartingRemoval(out, j) = DepartingRemoval(in, j)
  BY <1>1, <1>7 DEF DepartingRemoval
<1> QED
  BY <1>2, <1>5, <1>6, <1>8

\* Targets are freed by the same keys, but for k.
LEMMA FreeingStays ==
    ASSUME NEW k, NEW in, NEW out, StepOf(k, in, out), NEW t
    PROVE  Freeing(out, t) \ {k} = Freeing(in, t) \ {k}
<1>1. \A j \in Keys \ {k} : out.records[j] = in.records[j]
  BY DEF StepOf
<1>2. \A j \in Keys \ {k} : j \in Freeing(out, t) <=> j \in Freeing(in, t)
  BY <1>1, OthersStay DEF Freeing
<1>3. Freeing(out, t) \subseteq Keys /\ Freeing(in, t) \subseteq Keys
  BY DEF Freeing, Departing
<1> QED
  BY <1>2, <1>3

\* The plan for a key whose target looks the same is the same.
LEMMA PlanStays ==
    ASSUME NEW k, NEW in, NEW out, StepOf(k, in, out), NEW j \in Keys \ {k},
           j \in Accepted(in) =>
              LET t == in.desired[j].target
              IN  /\ out.targets[t] = in.targets[t]
                  /\ k \notin Freeing(in, t) /\ k \notin Freeing(out, t)
    PROVE  /\ Plan(out)[j].removal = Plan(in)[j].removal
           /\ Plan(out)[j].mount = Plan(in)[j].mount
<1> DEFINE t == in.desired[j].target
<1>1. /\ out.desired = in.desired /\ out.frozen = in.frozen /\ out.sources = in.sources
      /\ OneVerified(in) /\ OneVerified(out)
      /\ out.records[j] = in.records[j]
      /\ in.records[j] # NoRecord => (Verified(out, j) <=> Verified(in, j))
  BY DEF StepOf
<1>2. /\ j \in Accepted(out) <=> j \in Accepted(in)
      /\ RecordMatchesDesired(out, j) <=> RecordMatchesDesired(in, j)
      /\ j \in Departing(out) <=> j \in Departing(in)
      /\ j \in Departing(in) => DepartingRemoval(out, j) = DepartingRemoval(in, j)
  BY OthersStay
<1>3. CASE j \notin Accepted(in)
  <2>1. /\ NonMember(out, j).mount = FALSE /\ NonMember(in, j).mount = FALSE
        /\ NonMember(out, j).removal = NonMember(in, j).removal
    BY <1>2, NonMemberFields
  <2> QED
    BY <1>2, <1>3, <2>1, PlanCases
<1>4. CASE j \in Accepted(in) /\ RecordMatchesDesired(in, j)
  <2>1. out.targets[t] = in.targets[t] /\ in.records[j].target = t /\ in.records[j] # NoRecord
    BY <1>4 DEF RecordMatchesDesired
  <2>2. UpToDate(out, j) <=> UpToDate(in, j)
    BY <1>1, <2>1 DEF UpToDate
  <2>3. /\ VerifiedMember(out, j) = VerifiedMember(in, j)
        /\ UnmountedMember(out, j) = UnmountedMember(in, j)
    BY <1>1, <2>2 DEF VerifiedMember, UnmountedMember
  <2>4. RecordedMember(out, j) = RecordedMember(in, j)
    BY <1>1, <2>1, <2>3 DEF RecordedMember
  <2> QED
    BY <1>2, <1>4, <2>4, PlanCases
<1>5. CASE j \in Accepted(in) /\ ~RecordMatchesDesired(in, j)
  <2>1. FreedBy(out, t) = FreedBy(in, t)
    BY <1>1, <1>5, FreedIf, FreeingStays
  <2>2. out.targets[t] = in.targets[t]
    BY <1>5
  <2>3. /\ UnrecordedMember(out, j).removal = UnrecordedMember(in, j).removal
        /\ UnrecordedMember(out, j).mount = UnrecordedMember(in, j).mount
    BY <1>1, <1>2, <2>1, <2>2 DEF UnrecordedMember, Step
  <2> QED
    BY <1>2, <1>5, <2>3, PlanCases
<1> QED
  BY <1>3, <1>4, <1>5

\* When a member without a record in its place is mounted.
Mountable(in, k) ==
    LET kind == in.targets[in.desired[k].target].kind
    IN  /\ k \in Departing(in) => DepartingRemoval(in, k) # "none"
        /\ kind = "Mounted" => FreedBy(in, in.desired[k].target) # {}
        /\ kind # "Unavailable"
        /\ in.sources[k] # Gone

LEMMA UnrecordedMounts ==
    ASSUME NEW in, NEW k \in Keys
    PROVE  UnrecordedMember(in, k).mount <=> Mountable(in, k)
BY DEF UnrecordedMember, Step, Mountable

\* What a planned mount needs.
LEMMA MountNeeds ==
    ASSUME NEW in, NEW k \in Keys, Plan(in)[k].mount
    PROVE  LET t == in.desired[k].target
           IN  /\ in.sources[k] # Gone
               /\ in.targets[t].kind # "Unavailable"
               /\ in.targets[t].kind = "Mounted" =>
                    Plan(in)[k].removal # "none" \/ FreedBy(in, t) # {}
<1>1. k \in Accepted(in)
  BY MountedIsAccepted
<1>2. CASE RecordMatchesDesired(in, k)
  <2>1. Plan(in)[k] = RecordedMember(in, k)
    BY <1>1, <1>2, PlanCases
  <2>2. VerifiedMember(in, k).mount =>
          in.sources[k] # Gone /\ VerifiedMember(in, k).removal # "none"
    BY DEF VerifiedMember, Step
  <2>3. UnmountedMember(in, k).mount => in.sources[k] # Gone
    BY DEF UnmountedMember, Step
  <2> DEFINE kind == in.targets[in.desired[k].target].kind
  <2>4. RecordedMember(in, k).mount =>
          \/ kind = "NotMounted" /\ UnmountedMember(in, k).mount
          \/ kind # "Unavailable" /\ RecordedMember(in, k) = VerifiedMember(in, k)
    BY DEF RecordedMember, Step
  <2> QED
    BY <1>2, <2>1, <2>2, <2>3, <2>4
<1>3. CASE ~RecordMatchesDesired(in, k)
  <2>1. Plan(in)[k] = UnrecordedMember(in, k)
    BY <1>1, <1>3, PlanCases
  <2>2. Mountable(in, k)
    BY <2>1, UnrecordedMounts
  <2> QED
    BY <2>2 DEF Mountable
<1> QED
  BY <1>2, <1>3

\* Recorded members that the plan leaves alone because of a mount on their target that
\* it removes.
Covered(in) ==
    {k \in Keys : /\ "TargetReplaced" \in Plan(in)[k].findings
                  /\ FreedBy(in, in.desired[k].target) # {}}

\* Row 7 applies to a record whose target has another mount, and plans nothing.
LEMMA ReplacedIf ==
    ASSUME NEW in, NEW k \in Keys
    PROVE  /\ "TargetReplaced" \in Plan(in)[k].findings <=>
                /\ k \in Accepted(in) /\ RecordMatchesDesired(in, k) /\ ~Verified(in, k)
                /\ in.targets[in.desired[k].target].kind = "Mounted"
           /\ "TargetReplaced" \in Plan(in)[k].findings =>
                Plan(in)[k].removal = "none" /\ Plan(in)[k].mount = FALSE
<1>1. CASE k \notin Accepted(in)
  <2>1. "TargetReplaced" \notin NonMember(in, k).findings
    BY DEF NonMember, Step
  <2> QED
    BY <1>1, <2>1, PlanCases
<1>2. CASE k \in Accepted(in) /\ ~RecordMatchesDesired(in, k)
  <2>1. "TargetReplaced" \notin UnrecordedMember(in, k).findings
    BY DEF UnrecordedMember, Step
  <2> QED
    BY <1>2, <2>1, PlanCases
<1>3. CASE k \in Accepted(in) /\ RecordMatchesDesired(in, k)
  <2>1. /\ "TargetReplaced" \notin VerifiedMember(in, k).findings
        /\ "TargetReplaced" \notin UnmountedMember(in, k).findings
    BY DEF VerifiedMember, UnmountedMember, Step
  <2>2. /\ "TargetReplaced" \in RecordedMember(in, k).findings <=>
             /\ ~Verified(in, k)
             /\ in.targets[in.desired[k].target].kind = "Mounted"
        /\ "TargetReplaced" \in RecordedMember(in, k).findings =>
             RecordedMember(in, k).removal = "none" /\ RecordedMember(in, k).mount = FALSE
    BY <2>1 DEF RecordedMember, Step
  <2> QED
    BY <1>3, <2>2, PlanCases
<1> QED
  BY <1>1, <1>2, <1>3

\* In terms of the record and of what is on its target.
LEMMA CoveredIf ==
    ASSUME NEW in, NEW k
    PROVE  k \in Covered(in) <=>
              /\ k \in Keys /\ k \in Accepted(in)
              /\ RecordMatchesDesired(in, k) /\ ~Verified(in, k)
              /\ in.targets[in.desired[k].target].kind = "Mounted"
              /\ FreedBy(in, in.desired[k].target) # {}
<1>1. k \in Covered(in) <=> /\ k \in Keys /\ "TargetReplaced" \in Plan(in)[k].findings
                            /\ FreedBy(in, in.desired[k].target) # {}
  BY DEF Covered
<1>2. k \in Keys =>
        ("TargetReplaced" \in Plan(in)[k].findings <=>
           /\ k \in Accepted(in) /\ RecordMatchesDesired(in, k) /\ ~Verified(in, k)
           /\ in.targets[in.desired[k].target].kind = "Mounted")
  BY ReplacedIf
<1> QED
  BY <1>1, <1>2

\* What a step for k leaves of the plan: its removal is done, and what the plan has for the
\* others, or less, but for those it covers.
Leaves(k, in, out) ==
    /\ \A j \in Keys \ {k} :
         \/ j \in Covered(in)
         \/ /\ Plan(out)[j].removal = Plan(in)[j].removal
            /\ Plan(out)[j].mount => Plan(in)[j].mount
    /\ Covered(out) \subseteq Covered(in)
    /\ Plan(out)[k].removal = "none"
    /\ Plan(out)[k].mount => Plan(in)[k].mount

\* A removal, of the record alone or of the view as well, leaves the rest of the plan.
LEMMA RemovalLeaves ==
    ASSUME NEW in, NEW out, NEW k \in Keys, StepOf(k, in, out), out.records[k] = NoRecord,
           \/ Plan(in)[k].removal = "drop" /\ out.targets = in.targets
           \/ /\ Plan(in)[k].removal = "unmount"
              /\ \A u \in Targets \ {in.records[k].target} : out.targets[u] = in.targets[u]
              /\ out.targets[in.records[k].target].kind # "Unavailable"
    PROVE  Leaves(k, in, out)
<1> DEFINE t == in.records[k].target
           At(j) == in.desired[j].target
<1>1. /\ out.desired = in.desired /\ out.sources = in.sources /\ out.frozen = in.frozen
      /\ OneVerified(in) /\ OneVerified(out)
      /\ DOMAIN in.desired \subseteq Keys
      /\ \A j \in DOMAIN in.desired : At(j) \in Targets
  BY DEF StepOf
<1>2. k \notin Departing(out) /\ ~RecordMatchesDesired(out, k)
  BY DEF Departing, RecordMatchesDesired
<1>3. ASSUME NEW u PROVE k \notin Freeing(out, u) /\ FreedBy(out, u) \subseteq FreedBy(in, u)
  BY <1>1, <1>2, FreedIf, FreeingStays DEF Freeing
<1>4. /\ in.records[k] # NoRecord
      /\ Plan(in)[k].removal = "unmount" =>
           Verified(in, k) /\ in.targets[t].kind = "Mounted"
      /\ Plan(in)[k].removal = "drop" => ~Verified(in, k)
  BY RemovalsHaveRecords, RemovalMeans DEF Verified
<1>5. ASSUME NEW u PROVE k \in Freeing(in, u) => u = t /\ Plan(in)[k].removal = "unmount"
  BY DepartingIsRemoved DEF Freeing
<1>6. k \in Departing(in) /\ Plan(in)[k].removal = "unmount" => FreedBy(in, t) # {}
  BY <1>1, DepartingIsRemoved, FreedIf DEF Freeing
<1>7. \A j \in Accepted(in) : j \in DOMAIN in.desired
  BY DEF Accepted, Wanted
<1>8. ASSUME NEW j \in Keys \ {k}, j \in Accepted(in), Plan(in)[k].removal = "unmount", At(j) = t
      PROVE  /\ k \in Departing(in)
             /\ \/ j \in Covered(in)
                \/ /\ Plan(out)[j].removal = Plan(in)[j].removal
                   /\ Plan(out)[j].mount => Plan(in)[j].mount
  <2>1. k \in Departing(in)
    <3>1. ASSUME k \notin Departing(in) PROVE FALSE
      <4>1. k \in Accepted(in) /\ RecordMatchesDesired(in, k)
        BY <1>8, <3>1, RemovalIs
      <4>2. At(k) = t
        BY <4>1 DEF RecordMatchesDesired
      <4> QED
        BY <1>8, <4>1, <4>2, AcceptedTargetsDiffer
    <3> QED
      BY <3>1
  <2>2. CASE RecordMatchesDesired(in, j)
    <3>1. in.records[j] # NoRecord /\ in.records[j].target = t
      BY <1>8, <2>2 DEF RecordMatchesDesired
    <3>2. ~Verified(in, j)
      BY <1>1, <1>4, <1>8, <3>1 DEF OneVerified
    <3> QED
      BY <1>4, <1>6, <1>8, <2>1, <2>2, <3>2, CoveredIf
  <2>3. CASE ~RecordMatchesDesired(in, j)
    <3>1. /\ j \in Accepted(out) /\ ~RecordMatchesDesired(out, j)
          /\ j \in Departing(out) <=> j \in Departing(in)
          /\ j \in Departing(in) => DepartingRemoval(out, j) = DepartingRemoval(in, j)
      BY <1>8, <2>3, OthersStay
    <3>2. /\ Plan(out)[j] = UnrecordedMember(out, j)
          /\ Plan(in)[j] = UnrecordedMember(in, j)
      BY <1>8, <2>3, <3>1, PlanCases
    <3>3. UnrecordedMember(out, j).removal = UnrecordedMember(in, j).removal
      BY <3>1, UnrecordedFields
    <3>4. UnrecordedMember(out, j).mount => UnrecordedMember(in, j).mount
      <4>1. Mountable(out, j) => Mountable(in, j)
        BY <1>1, <1>4, <1>6, <1>8, <2>1, <3>1 DEF Mountable
      <4>2. /\ UnrecordedMember(out, j).mount <=> Mountable(out, j)
            /\ UnrecordedMember(in, j).mount <=> Mountable(in, j)
        BY UnrecordedMounts
      <4> QED
        BY <4>1, <4>2
    <3> QED
      BY <2>1, <3>2, <3>3, <3>4
  <2> QED
    BY <2>1, <2>2, <2>3
<1>9. ASSUME NEW j \in Keys \ {k}
      PROVE  \/ j \in Covered(in)
             \/ /\ Plan(out)[j].removal = Plan(in)[j].removal
                /\ Plan(out)[j].mount => Plan(in)[j].mount
  <2>1. CASE j \in Accepted(in) /\ Plan(in)[k].removal = "unmount" /\ At(j) = t
    BY <1>8, <2>1
  <2>2. CASE ~(j \in Accepted(in) /\ Plan(in)[k].removal = "unmount" /\ At(j) = t)
    <3>1. j \in Accepted(in) => /\ out.targets[At(j)] = in.targets[At(j)]
                                /\ k \notin Freeing(in, At(j)) /\ k \notin Freeing(out, At(j))
      BY <1>1, <1>3, <1>5, <1>7, <2>2
    <3> QED
      BY <3>1, PlanStays
  <2> QED
    BY <2>1, <2>2
<1>10. ASSUME NEW j \in Covered(out) PROVE j \in Covered(in)
  <2>1. /\ j \in Keys /\ j \in Accepted(out) /\ RecordMatchesDesired(out, j) /\ ~Verified(out, j)
        /\ out.targets[At(j)].kind = "Mounted" /\ FreedBy(out, At(j)) # {}
    BY <1>1, CoveredIf
  <2>2. j # k
    BY <1>2, <2>1
  <2>3. j \in Accepted(in) /\ RecordMatchesDesired(in, j)
    BY <2>1, <2>2, OthersStay
  <2>4. ~Verified(in, j)
    BY <2>1, <2>2, <2>3 DEF StepOf, RecordMatchesDesired
  <2>5. in.targets[At(j)].kind = "Mounted"
    BY <1>1, <1>4, <1>7, <2>1, <2>3
  <2> QED
    BY <1>3, <2>1, <2>3, <2>4, <2>5, CoveredIf
<1>11. Plan(out)[k].removal = "none"
  BY <1>2, RemovalIs
<1>12. ASSUME Plan(out)[k].mount PROVE Plan(in)[k].mount
  <2>1. k \in Accepted(out) /\ Plan(out)[k] = UnrecordedMember(out, k)
    BY <1>2, <1>12, MountedIsAccepted, PlanCases
  <2>2. /\ k \in Wanted(out) /\ Claimants(out, k) = {k}
    BY <1>1, <1>2, <2>1, AcceptedIf
  <2>3. k \in Accepted(in)
    <3>1. Wanted(in) = Wanted(out) /\ Claimants(in, k) = Claimants(out, k)
      BY <1>1 DEF Wanted, Claimants, Frozen
    <3> QED
      BY <1>1, <2>2, <3>1, AcceptedIf
  <2>4. /\ out.targets[At(k)].kind = "Mounted" => FreedBy(out, At(k)) # {}
        /\ out.targets[At(k)].kind # "Unavailable" /\ in.sources[k] # Gone
    <3>1. Mountable(out, k)
      BY <1>12, <2>1, UnrecordedMounts
    <3> QED
      BY <1>1, <3>1 DEF Mountable
  <2>5. CASE k \in Departing(in)
    <3>1. ~RecordMatchesDesired(in, k) /\ DepartingRemoval(in, k) # "none"
      BY <2>3, <2>5, DepartingIsRemoved DEF Departing
    <3>2. CASE Plan(in)[k].removal = "unmount" /\ At(k) = t
      <4>1. Mountable(in, k)
        BY <1>4, <1>6, <2>4, <2>5, <3>1, <3>2 DEF Mountable
      <4>2. Plan(in)[k] = UnrecordedMember(in, k)
        BY <2>3, <3>1, PlanCases
      <4> QED
        BY <4>1, <4>2, UnrecordedMounts
    <3>3. CASE ~(Plan(in)[k].removal = "unmount" /\ At(k) = t)
      <4>1. out.targets[At(k)] = in.targets[At(k)]
        BY <1>1, <1>7, <2>3, <3>3
      <4> QED
        <5>1. Mountable(in, k)
          BY <1>3, <2>4, <3>1, <4>1 DEF Mountable
        <5>2. Plan(in)[k] = UnrecordedMember(in, k)
          BY <2>3, <3>1, PlanCases
        <5> QED
          BY <5>1, <5>2, UnrecordedMounts
    <3> QED
      BY <3>2, <3>3
  <2>6. CASE k \notin Departing(in)
    <3>1. RecordMatchesDesired(in, k) /\ Plan(in)[k] = RecordedMember(in, k)
      BY <2>3, <2>6, RemovalIs, PlanCases
    <3>2. RecordedMember(in, k).removal # "none" /\ in.sources[k] # Gone
      BY <2>4, <3>1
    <3>3. RecordedMember(in, k).mount = TRUE
      BY <3>2, RecordedFields
    <3> QED
      BY <3>1, <3>3
  <2> QED
    BY <2>5, <2>6
<1> QED
  BY <1>9, <1>10, <1>11, <1>12 DEF Leaves

\* A member that has been mounted leaves the rest of the plan, and nothing to do for itself.
LEMMA MountLeaves ==
    ASSUME NEW in, NEW out, NEW k \in Keys, StepOf(k, in, out),
           k \in Wanted(in), in.sources[k] # Gone,
           NEW t, t = in.desired[k].target,
           in.targets[t].kind = "NotMounted",
           \A u \in Targets \ {t} : out.targets[u] = in.targets[u],
           in.records[k] = NoRecord \/ in.records[k].target = t,
           RecordMatchesDesired(out, k), Verified(out, k), UpToDate(out, k)
    PROVE  Leaves(k, in, out) /\ ~Plan(out)[k].mount
<1> DEFINE At(j) == in.desired[j].target
<1>1. /\ out.desired = in.desired /\ out.sources = in.sources /\ out.frozen = in.frozen
      /\ OneVerified(in) /\ OneVerified(out)
      /\ DOMAIN in.desired \subseteq Keys
      /\ \A j \in DOMAIN in.desired : At(j) \in Targets
  BY DEF StepOf
<1>2. k \in Accepted(out)
  <2>1. k \in Wanted(out)
    BY <1>1 DEF Wanted, Frozen
  <2> QED
    BY <1>1, <2>1, AcceptedIf
<1>3. ASSUME NEW u PROVE k \notin Freeing(in, u) /\ k \notin Freeing(out, u)
  <2>1. k \notin Freeing(out, u)
    BY <1>2 DEF Freeing, Departing
  <2>2. k \in Departing(in) => ~Verified(in, k)
    BY DEF Departing, Verified
  <2> QED
    BY <2>1, <2>2, DepartingRemovals DEF Freeing
<1>4. ASSUME NEW u PROVE FreedBy(out, u) = FreedBy(in, u)
  <2>1. Freeing(out, u) = Freeing(in, u)
    BY <1>3, FreeingStays
  <2> QED
    BY <1>1, <2>1, FreedIf
<1>5. ASSUME NEW j \in Keys \ {k}, j \in Accepted(in) PROVE At(j) # t /\ At(j) \in Targets
  <2>1. j \in Wanted(in)
    BY <1>5 DEF Accepted
  <2>2. At(j) = t => k \in Claimants(in, j)
    BY DEF Claimants
  <2>3. RecordMatchesDesired(in, j) /\ Verified(in, j) => At(j) # t
    BY DEF RecordMatchesDesired, Verified
  <2> QED
    BY <1>1, <1>5, <2>1, <2>2, <2>3, AcceptedIf DEF Wanted
<1>6. ASSUME NEW j \in Keys \ {k}
      PROVE  /\ Plan(out)[j].removal = Plan(in)[j].removal
             /\ Plan(out)[j].mount = Plan(in)[j].mount
  <2>1. j \in Accepted(in) => /\ out.targets[At(j)] = in.targets[At(j)]
                              /\ k \notin Freeing(in, At(j)) /\ k \notin Freeing(out, At(j))
    BY <1>3, <1>5
  <2> QED
    BY <2>1, PlanStays
<1>7. /\ Plan(out)[k].removal = "none" /\ Plan(out)[k].mount = FALSE
  <2>1. out.targets[out.desired[k].target].kind = "Mounted"
    BY DEF RecordMatchesDesired, Verified
  <2>2. Plan(out)[k] = VerifiedMember(out, k)
    BY <1>2, <2>1, PlanCases DEF RecordedMember
  <2>3. VerifiedMember(out, k) = Step(FALSE, "none", FALSE, {}, {})
    BY <1>1 DEF VerifiedMember
  <2> QED
    BY <2>2, <2>3 DEF Step
<1>8. ASSUME NEW j \in Covered(out) PROVE j \in Covered(in)
  <2>1. j \in Keys /\ FreedBy(in, At(j)) # {}
    <3>1. j \in Keys /\ FreedBy(out, At(j)) # {}
      BY <1>1, CoveredIf
    <3> QED
      BY <1>4, <3>1
  <2>2. /\ j \in Accepted(out) /\ RecordMatchesDesired(out, j) /\ ~Verified(out, j)
        /\ out.targets[At(j)].kind = "Mounted"
    BY <1>1, CoveredIf
  <2>3. j # k
    BY <2>2
  <2>4. j \in Accepted(in) /\ RecordMatchesDesired(in, j)
    BY <2>1, <2>2, <2>3, OthersStay
  <2>5. ~Verified(in, j)
    BY <2>1, <2>2, <2>3, <2>4 DEF StepOf, RecordMatchesDesired
  <2>6. in.targets[At(j)].kind = "Mounted"
    BY <1>5, <2>1, <2>2, <2>3, <2>4
  <2> QED
    BY <2>1, <2>4, <2>5, <2>6, CoveredIf
<1> QED
  BY <1>6, <1>7, <1>8 DEF Leaves

=============================================================================
