---------------------------- MODULE ReconcilePlan ----------------------------
(***************************************************************************)
(* The pure planner of src/src/reconcile/plan.rs: from what one pass has   *)
(* observed (desired mounts, records, sources, targets, frozen groups) to  *)
(* the steps the executor runs and the findings that are reported.         *)
(*                                                                         *)
(* A plan has at most one removal step and at most one mount step for a    *)
(* key, so it is a function from keys; `after' names the keys whose        *)
(* removal a mount depends on, which is all that Step::depends_on can      *)
(* hold.  Reasons of unmounts and drops only reach the log and are left    *)
(* out.                                                                    *)
(***************************************************************************)
EXTENDS Naturals, FiniteSets

CONSTANTS
    Keys,           \* (group, name) pairs, numbered in the order of RecordKey
    Groups,         \* groups
    GroupOf,        \* the group of each key
    Sources,        \* source locations (root and relative path)
    Targets,        \* target locations
    DevInos,        \* device and inode of a directory
    Restrictions,   \* mount attributes that restrict: ro, noexec, nosuid, ...
    AlwaysOn,       \* the restrictions set on every mount: nosuid and nodev
    NoRecord,       \* no record in the state for a key
    Gone            \* a source that does not resolve

ASSUME PlanAssumption ==
    /\ Keys \subseteq Nat
    /\ GroupOf \in [Keys -> Groups]
    /\ AlwaysOn \subseteq Restrictions
    /\ NoRecord \notin [source : Sources, target : Targets, attrs : SUBSET Restrictions,
                        identity : [mnt_id : Nat, unique : Nat, root : DevInos]]
    /\ Gone \notin DevInos

(***************************************************************************)
(* Types.                                                                  *)
(***************************************************************************)

\* statx reports no unique mount ID before Linux 6.8; real ones are positive.
NoUnique == 0

Identity == [mnt_id : Nat, unique : Nat, root : DevInos]

\* What a member asks for.
DesiredMount == [source : Sources, target : Targets, attrs : SUBSET Restrictions]

\* What the state file remembers of a mount Byssus made.
MountRecord == [source : Sources, target : Targets, attrs : SUBSET Restrictions,
                identity : Identity]

\* What is at a target.  attrs is the set of restrictions the mount is seen to
\* enforce; attrsKnown is false when they could not be read.
NotMounted == [kind |-> "NotMounted"]
TargetUnavailable == [kind |-> "Unavailable"]
Mounted(identity, attrsKnown, attrs) ==
    [kind |-> "Mounted", identity |-> identity, attrsKnown |-> attrsKnown, attrs |-> attrs]

FindingKind == {"TargetCollision", "RelocationBlocked", "ForeignMount",
                "TargetReplaced", "TargetUnavailable", "SourceUnavailable"}

\* departing tells a removal of phase A from one of phase B: it runs earlier.
KeyPlan == [departing : BOOLEAN, removal : {"none", "unmount", "drop"},
            mount : BOOLEAN, after : SUBSET Keys, findings : SUBSET FindingKind]

\* Whether an observed mount is the one a record describes.
Matches(observed, recorded) ==
    /\ observed.root = recorded.root
    /\ IF observed.unique # NoUnique /\ recorded.unique # NoUnique
         THEN observed.unique = recorded.unique
         ELSE observed.mnt_id = recorded.mnt_id

\* Whether observed restrictions include everything a member asks for and
\* what every mount gets.
Enforces(observed, required) == required \cup AlwaysOn \subseteq observed

(***************************************************************************)
(* The input of a plan is a record with the fields                         *)
(*   desired   a function from the desired keys to DesiredMount            *)
(*   records   the in-memory state, a function from Keys                   *)
(*   frozen    groups whose records are left alone                         *)
(*   sources   for each desired key, the directory found or Gone           *)
(*   targets   for each target, what is there                              *)
(***************************************************************************)

RecordMatchesDesired(in, k) ==
    /\ in.records[k] # NoRecord
    /\ in.records[k].source = in.desired[k].source
    /\ in.records[k].target = in.desired[k].target

\* The mount at the target of k's record is the one the record describes.
Verified(in, k) ==
    LET t == in.targets[in.records[k].target]
    IN  t.kind = "Mounted" /\ Matches(t.identity, in.records[k].identity)

Frozen(in, k) == GroupOf[k] \in in.frozen

Wanted(in) == {k \in DOMAIN in.desired : ~Frozen(in, k)}

Claimants(in, k) == {j \in Wanted(in) : in.desired[j].target = in.desired[k].target}

\* The claimants already mounted at the contested target; the first is kept.
Holders(in, k) == {j \in Claimants(in, k) : RecordMatchesDesired(in, j) /\ Verified(in, j)}

Kept(in, k) == k \in Holders(in, k) /\ \A j \in Holders(in, k) : k <= j

\* Mutant of Accepted: a collision excludes nobody until one of them is mounted.
AcceptedUnlessHeld(in) == {k \in Wanted(in) : Holders(in, k) = {} \/ Kept(in, k)}

Accepted(in) == {k \in Wanted(in) : Claimants(in, k) = {k} \/ Kept(in, k)}

(***************************************************************************)
(* Phase A: records not desired where they are.                            *)
(***************************************************************************)

Departing(in) ==
    {k \in Keys : /\ in.records[k] # NoRecord
                  /\ ~Frozen(in, k)
                  /\ ~(k \in Accepted(in) /\ RecordMatchesDesired(in, k))}

\* Mutant of DepartingRemoval: a target that cannot be inspected counts as free.
DepartingRemovalBlind(in, k) == IF Verified(in, k) THEN "unmount" ELSE "drop"

DepartingRemoval(in, k) ==
    LET t == in.targets[in.records[k].target]
    IN  CASE t.kind = "Unavailable" -> "none"
          [] Verified(in, k)        -> "unmount"
          [] OTHER                  -> "drop"

\* Mutant of Freeing: dropping a record frees its target, too.
FreeingByAny(in, t) == {k \in Departing(in) : in.records[k].target = t}

\* Keys whose unmount frees target t; the planner keeps the last one inserted.
Freeing(in, t) ==
    {k \in Departing(in) : in.records[k].target = t /\ DepartingRemoval(in, k) = "unmount"}

FreedBy(in, t) == {k \in Freeing(in, t) : \A j \in Freeing(in, t) : j <= k}

(***************************************************************************)
(* Phase B: accepted members.  An operator gives the whole plan of a key.  *)
(***************************************************************************)

Step(departing, removal, mount, after, findings) ==
    [departing |-> departing, removal |-> removal, mount |-> mount,
     after |-> after, findings |-> findings]

\* Rows 1-3: no record at the desired location.
UnrecordedMember(in, k) ==
    LET departing == k \in Departing(in)
        removal   == IF departing THEN DepartingRemoval(in, k) ELSE "none"
        stuck     == departing /\ removal = "none"
        target    == in.targets[in.desired[k].target]
        freed     == FreedBy(in, in.desired[k].target)
        untracked == IF stuck THEN {"TargetUnavailable"} ELSE {}
        finding   == IF stuck THEN "RelocationBlocked"
                     ELSE IF target.kind = "Mounted" /\ freed = {} THEN "ForeignMount"
                     ELSE IF target.kind = "Unavailable" THEN "TargetUnavailable"
                     ELSE IF in.sources[k] = Gone THEN "SourceUnavailable"
                     ELSE "none"
    IN  IF finding # "none"
          THEN Step(departing, removal, FALSE, {}, untracked \cup {finding})
          ELSE Step(departing, removal, TRUE,
                    (IF departing THEN {k} ELSE {})
                      \cup (IF target.kind = "Mounted" THEN freed ELSE {}), {})

\* Mutant of UpToDate: the attributes the kernel reports are not compared.
UpToDateOnPaper(in, k) ==
    /\ in.sources[k] = in.records[k].identity.root
    /\ in.records[k].attrs = in.desired[k].attrs

\* Row 4 wants the same directory behind the mount and every restriction on it.
UpToDate(in, k) ==
    LET t == in.targets[in.records[k].target]
    IN  /\ in.sources[k] = in.records[k].identity.root
        /\ in.records[k].attrs = in.desired[k].attrs
        /\ t.attrsKnown => Enforces(t.attrs, in.desired[k].attrs)

\* Rows 4, 5 and 6: the mount at the target is the recorded one.
VerifiedMember(in, k) ==
    CASE in.sources[k] = Gone -> Step(FALSE, "unmount", FALSE, {}, {})
      [] in.sources[k] # Gone /\ UpToDate(in, k) -> Step(FALSE, "none", FALSE, {}, {})
      [] OTHER -> Step(FALSE, "unmount", TRUE, {k}, {})

\* Rows 8 and 9: nothing is mounted at the target.
UnmountedMember(in, k) ==
    IF in.sources[k] = Gone
      THEN Step(FALSE, "drop", FALSE, {}, {"SourceUnavailable"})
      ELSE Step(FALSE, "none", TRUE, {}, {})

\* A record at the desired location; row 7 is another mount at the target.
RecordedMember(in, k) ==
    LET kind == in.targets[in.desired[k].target].kind
    IN  CASE kind = "Mounted" /\ Verified(in, k) -> VerifiedMember(in, k)
          [] kind = "Mounted" /\ ~Verified(in, k) ->
               Step(FALSE, "none", FALSE, {}, {"TargetReplaced"})
          [] kind = "NotMounted" -> UnmountedMember(in, k)
          [] OTHER -> Step(FALSE, "none", FALSE, {}, {"TargetUnavailable"})

\* Mutant of NonMember: a collision is reported by members without a record only.
NonMemberQuiet(in, k) ==
    LET departing == k \in Departing(in)
        removal   == IF departing THEN DepartingRemoval(in, k) ELSE "none"
    IN  Step(departing, removal, FALSE, {},
             IF departing /\ removal = "none" THEN {"TargetUnavailable"}
             ELSE IF k \in Wanted(in) /\ ~departing THEN {"TargetCollision"} ELSE {})

\* A key that is not accepted: at most its old record goes.
NonMember(in, k) ==
    LET departing == k \in Departing(in)
        removal   == IF departing THEN DepartingRemoval(in, k) ELSE "none"
    IN  Step(departing, removal, FALSE, {},
             (IF departing /\ removal = "none" THEN {"TargetUnavailable"} ELSE {})
               \cup (IF k \in Wanted(in) THEN {"TargetCollision"} ELSE {}))

Plan(in) ==
    [k \in Keys |->
        IF k \notin Accepted(in) THEN NonMember(in, k)
        ELSE IF RecordMatchesDesired(in, k) THEN RecordedMember(in, k)
        ELSE UnrecordedMember(in, k)]

\* Plan::is_noop.
IsNoop(plan) == \A k \in Keys : plan[k].removal = "none" /\ ~plan[k].mount

=============================================================================
