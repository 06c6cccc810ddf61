---------------------------- MODULE StatusReport ----------------------------
(***************************************************************************)
(* What `byssus status' and `byssus dry-run' say of each member, from the  *)
(* plan of a pass that is not executed (src/src/report.rs).                *)
(*                                                                         *)
(* The code writes states into a map one after the other, so that a later  *)
(* source of information overrides an earlier one: what is desired, what   *)
(* is frozen, the steps in the plan's order, and the findings.             *)
(***************************************************************************)
EXTENDS ReconcilePlan

\* NotListed is no state of the code: the key is in no row of the report.
MemberState == {"mounted", "would_mount", "would_remount", "would_unmount", "stale_record",
                "conflict", "mounted_ownership_unknown", "source_unavailable",
                "target_unavailable", "collision", "relocation_blocked",
                "group_unavailable", "not_listed"}

\* MemberState::level, which the exit status of the commands follows.
OkStates == {"mounted", "would_mount", "would_remount", "would_unmount", "stale_record",
             "mounted_ownership_unknown"}
WarnStates == {"source_unavailable", "relocation_blocked"}

Level(state) ==
    CASE state \in OkStates   -> "ok"
      [] state \in WarnStates -> "warn"
      [] OTHER                -> "error"

\* A member of a group that could not be inspected keeps what it has.
ListedState(in, k) ==
    CASE in.records[k] # NoRecord /\ Frozen(in, k) -> "group_unavailable"
      [] k \in DOMAIN in.desired /\ ~(in.records[k] # NoRecord /\ Frozen(in, k)) -> "mounted"
      [] OTHER -> "not_listed"

\* Mutant of StepState: any removal makes the mount after it a remount.
StepStateAnyRemoval(in, k) ==
    LET step == Plan(in)[k]
    IN  CASE step.mount /\ step.removal # "none" -> "would_remount"
          [] step.mount /\ step.removal = "none" -> "would_mount"
          [] ~step.mount /\ step.removal = "unmount" -> "would_unmount"
          [] ~step.mount /\ step.removal = "drop" -> "stale_record"
          [] OTHER -> ListedState(in, k)

\* Removals come before mounts, so a mount has the last word.
StepState(in, k) ==
    LET step == Plan(in)[k]
    IN  CASE step.mount /\ step.removal = "unmount" -> "would_remount"
          [] step.mount /\ step.removal # "unmount" -> "would_mount"
          [] ~step.mount /\ step.removal = "unmount" -> "would_unmount"
          [] ~step.mount /\ step.removal = "drop" -> "stale_record"
          [] OTHER -> ListedState(in, k)

\* Findings are reported in the order they are made: collisions, what phase A
\* finds, what phase B finds.
FindingState(findings, ownershipKnown) ==
    CASE "RelocationBlocked" \in findings -> "relocation_blocked"
      [] "TargetUnavailable" \in findings /\ "RelocationBlocked" \notin findings ->
           "target_unavailable"
      [] findings = {"TargetCollision"}   -> "collision"
      [] findings = {"SourceUnavailable"} -> "source_unavailable"
      [] findings = {"ForeignMount"} /\ ~ownershipKnown -> "mounted_ownership_unknown"
      [] OTHER -> "conflict"

StateOf(in, ownershipKnown, k) ==
    LET findings == Plan(in)[k].findings
    IN  IF findings # {} THEN FindingState(findings, ownershipKnown) ELSE StepState(in, k)

=============================================================================
