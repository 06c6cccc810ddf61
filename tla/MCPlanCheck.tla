----------------------------- MODULE MCPlanCheck -----------------------------
(* Inputs of the planner for two members of two groups and two targets. *)
EXTENDS PlanCheck, TLC

CONSTANTS t1, t2, s1, s2, g1, g2, d1, d2, ro

McGroupOf == 1 :> g1 @@ 2 :> g2

OwnSource(k) == IF k = 1 THEN s1 ELSE s2
OwnRoot(k) == IF k = 1 THEN d1 ELSE d2
OwnIdentity(k) == [mnt_id |-> k, unique |-> k, root |-> OwnRoot(k)]

McDesiredOf(k) == [source : {OwnSource(k)}, target : Targets, attrs : {{ro}}]

\* The source may have been another one, and the restrictions fewer.
McRecordsOf(k) ==
    {NoRecord} \cup [source : Sources, target : Targets, attrs : {{}, {ro}},
                     identity : {OwnIdentity(k)}]

\* The foreign mount has a mount ID and a directory that a record names.
McTargetStates ==
    {NotMounted, TargetUnavailable,
     Mounted([mnt_id |-> 1, unique |-> 3, root |-> d1], TRUE, {})}
      \cup {Mounted(OwnIdentity(k), known, attrs) :
              k \in Keys, known \in BOOLEAN, attrs \in {{}, {ro}}}

McSourceStates == {d1, d2, Gone}
McFrozenSets == {{}, {g1}}
=============================================================================
