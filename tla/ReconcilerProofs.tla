--------------------------- MODULE ReconcilerProofs ---------------------------
(***************************************************************************)
(* Proofs about the reconciler, for every number of members, groups,       *)
(* targets and configurations and any number of disturbances:              *)
(*                                                                         *)
(*   TypeCorrect         every variable keeps its type                     *)
(*   RemovalsFirst       views go down before views go up                  *)
(*   RecordsOwn          no record ever names a foreign mount, and         *)
(*   OnlyOwnMounts       no foreign mount is ever unmounted but one that   *)
(*                       was stacked on a view after its verification, if  *)
(*                       the kernel reports unique mount IDs and does not  *)
(*                       restart them                                      *)
(*   MountsAccounted     every mount of byssus has its record, and         *)
(*   OneView             a target has one of them at most, on any kernel   *)
(*                       and across reboots                                *)
(*   CalmPassSettlesHolds   a pass that nobody disturbs is enough, and     *)
(*   CalmPassIsFinalHolds   the next one has nothing to do, if unique      *)
(*                       mount IDs are reported and not restarted          *)
(*   LedgerImplemented   the reconciler implements MountLedger, under the  *)
(*                       same assumptions                                  *)
(***************************************************************************)
EXTENDS Reconciler, PlanLemmas, SequenceTheorems

(***************************************************************************)
(* Stacks of mounts.                                                       *)
(***************************************************************************)

RangeOf(s) == {s[i] : i \in DOMAIN s}

\* A mount pushed on a stack joins the mounts there.
LEMMA Pushed ==
    ASSUME NEW S, NEW s \in Seq(S), NEW m \in S
    PROVE  /\ <<m>> \o s \in Seq(S)
           /\ Len(<<m>> \o s) = Len(s) + 1
           /\ RangeOf(<<m>> \o s) = RangeOf(s) \cup {m}
<1> DEFINE p == <<m>> \o s
<1>1. /\ <<m>> \in Seq(S) /\ Len(<<m>>) = 1 /\ <<m>>[1] = m
      /\ Len(s) \in Nat /\ DOMAIN s = 1..Len(s)
  BY LenProperties
<1>2. /\ p \in Seq(S) /\ Len(p) = Len(s) + 1
      /\ \A i \in 1..(1 + Len(s)) : p[i] = IF i <= 1 THEN m ELSE s[i - 1]
  BY <1>1, ConcatProperties
<1>3. DOMAIN p = 1..(1 + Len(s))
  BY <1>1, <1>2, LenProperties
<1>4. ASSUME NEW x \in RangeOf(p) PROVE x \in RangeOf(s) \cup {m}
  <2>1. PICK i \in 1..(1 + Len(s)) : x = p[i]
    BY <1>3 DEF RangeOf
  <2>2. CASE i = 1
    BY <1>2, <2>1, <2>2
  <2>3. CASE i # 1
    <3>1. i - 1 \in DOMAIN s /\ x = s[i - 1]
      BY <1>1, <1>2, <2>1, <2>3
    <3> QED
      BY <3>1 DEF RangeOf
  <2> QED
    BY <2>2, <2>3
<1>5. ASSUME NEW x \in RangeOf(s) \cup {m} PROVE x \in RangeOf(p)
  <2>1. CASE x = m
    <3>1. 1 \in DOMAIN p /\ p[1] = m
      BY <1>1, <1>2, <1>3
    <3> QED
      BY <2>1, <3>1 DEF RangeOf
  <2>2. CASE x \in RangeOf(s)
    <3>1. PICK i \in 1..Len(s) : x = s[i]
      BY <1>1, <2>2 DEF RangeOf
    <3>2. i + 1 \in DOMAIN p /\ p[i + 1] = x
      BY <1>1, <1>2, <1>3, <3>1
    <3> QED
      BY <3>2 DEF RangeOf
  <2> QED
    BY <2>1, <2>2
<1> QED
  BY <1>2, <1>4, <1>5

\* What is left of a stack was there before, and is not the whole of it.
LEMMA Popped ==
    ASSUME NEW S, NEW s \in Seq(S), s # <<>>
    PROVE  /\ Tail(s) \in Seq(S)
           /\ Len(Tail(s)) = Len(s) - 1
           /\ Len(s) \in Nat /\ Tail(s) # s
           /\ Head(s) \in S /\ Head(s) \in RangeOf(s)
           /\ RangeOf(Tail(s)) \subseteq RangeOf(s)
<1>1. /\ Tail(s) \in Seq(S) /\ Head(s) \in S
      /\ Len(Tail(s)) = Len(s) - 1
      /\ \A i \in 1..Len(Tail(s)) : Tail(s)[i] = s[i + 1]
  BY HeadTailProperties
<1>2. /\ Len(s) \in Nat \ {0} /\ DOMAIN s = 1..Len(s)
      /\ DOMAIN Tail(s) = 1..Len(Tail(s))
  BY <1>1, EmptySeq, LenProperties
<1>3. Head(s) = s[1] /\ 1 \in DOMAIN s
  BY <1>2
<1>4. ASSUME NEW x \in RangeOf(Tail(s)) PROVE x \in RangeOf(s)
  <2>1. PICK i \in 1..(Len(s) - 1) : x = Tail(s)[i]
    BY <1>1, <1>2 DEF RangeOf
  <2>2. i + 1 \in DOMAIN s /\ x = s[i + 1]
    BY <1>1, <1>2, <2>1
  <2> QED
    BY <2>2 DEF RangeOf
<1>5. Tail(s) # s
  <2>1. \A n \in Nat : n - 1 # n
    OBVIOUS
  <2> QED
    BY <1>1, <1>2, <2>1, Zenon
<1>6. Head(s) \in RangeOf(s)
  <2>1. s[1] \in RangeOf(s)
    BY <1>3 DEF RangeOf
  <2> QED
    BY <1>3, <2>1
<1> QED
  BY <1>1, <1>2, <1>4, <1>5, <1>6

\* The mounts of all stacks.
LEMMA AllMountsDef ==
    /\ AllMounts = UNION {RangeOf(stack[t]) : t \in Targets}
    /\ \A t \in Targets : RangeOf(stack[t]) \subseteq AllMounts
    /\ \A m \in AllMounts : \E t \in Targets : m \in RangeOf(stack[t])
BY DEF AllMounts, Mounts, RangeOf

(***************************************************************************)
(* The kernel's mounts.                                                    *)
(***************************************************************************)

\* A new mount on a target.
LEMMA PushKernel ==
    ASSUME KernelOK, NEW t \in Targets, NEW m \in Mount,
           Push(t, m), nextUnique' = nextUnique + 1
    PROVE  /\ KernelOK'
           /\ AllMounts' = AllMounts \cup {m}
           /\ \A u \in Targets : ~(stack[u] # <<>> /\ stack'[u] = Tail(stack[u]))
<1>1. /\ stack' = [stack EXCEPT ![t] = <<m>> \o stack[t]]
      /\ stack \in [Targets -> Seq(Mount)]
  BY DEF Push, KernelOK
<1>2. /\ <<m>> \o stack[t] \in Seq(Mount)
      /\ Len(<<m>> \o stack[t]) = Len(stack[t]) + 1
      /\ RangeOf(<<m>> \o stack[t]) = RangeOf(stack[t]) \cup {m}
  BY <1>1, Pushed
<1>3. /\ stack' \in [Targets -> Seq(Mount)]
      /\ \A u \in Targets : stack'[u] = IF u = t THEN <<m>> \o stack[t] ELSE stack[u]
  BY <1>1, <1>2
<1>4. AllMounts = UNION {RangeOf(stack[u]) : u \in Targets}
  BY AllMountsDef
<1>5. AllMounts' = UNION {RangeOf(stack'[u]) : u \in Targets}
  BY DEF AllMounts, Mounts, RangeOf
<1>6. AllMounts' = AllMounts \cup {m}
  BY <1>2, <1>3, <1>4, <1>5
<1>7. ASSUME NEW u \in Targets, stack[u] # <<>>, stack'[u] = Tail(stack[u]) PROVE FALSE
  <2>1. /\ Tail(stack[u]) # stack[u] /\ Len(stack[u]) \in Nat
        /\ Len(Tail(stack[u])) = Len(stack[u]) - 1
    BY <1>1, <1>7, Popped
  <2>2. u = t /\ Tail(stack[u]) = <<m>> \o stack[u]
    BY <1>3, <1>7, <2>1, Zenon
  <2>3. \A n \in Nat : n - 1 # n + 1
    OBVIOUS
  <2> QED
    BY <1>2, <2>1, <2>2, <2>3, Zenon
<1> QED
  BY <1>3, <1>6, <1>7 DEF KernelOK

\* The top mount of a target is gone.
LEMMA PopKernel ==
    ASSUME KernelOK, NEW t \in Targets, stack[t] # <<>>, Pop(t), UNCHANGED nextUnique
    PROVE  /\ KernelOK'
           /\ AllMounts' \subseteq AllMounts
           /\ Top(t) \in AllMounts
           /\ \A u \in Targets : stack[u] # <<>> /\ stack'[u] = Tail(stack[u]) => u = t
<1>1. /\ stack' = [stack EXCEPT ![t] = Tail(stack[t])]
      /\ stack \in [Targets -> Seq(Mount)]
  BY DEF Pop, KernelOK
<1>2. /\ Tail(stack[t]) \in Seq(Mount)
      /\ Head(stack[t]) \in RangeOf(stack[t])
      /\ RangeOf(Tail(stack[t])) \subseteq RangeOf(stack[t])
  BY <1>1, Popped
<1>3. /\ stack' \in [Targets -> Seq(Mount)]
      /\ \A u \in Targets : stack'[u] = IF u = t THEN Tail(stack[t]) ELSE stack[u]
  BY <1>1, <1>2
<1>4. AllMounts = UNION {RangeOf(stack[u]) : u \in Targets}
  BY AllMountsDef
<1>5. AllMounts' = UNION {RangeOf(stack'[u]) : u \in Targets}
  BY DEF AllMounts, Mounts, RangeOf
<1>6. AllMounts' \subseteq AllMounts
  BY <1>2, <1>3, <1>4, <1>5
<1>7. Top(t) \in AllMounts
  BY <1>2, <1>4 DEF Top
<1>8. ASSUME NEW u \in Targets, stack[u] # <<>>, stack'[u] = Tail(stack[u]) PROVE u = t
  <2>1. Tail(stack[u]) # stack[u]
    BY <1>1, <1>8, Popped
  <2> QED
    BY <1>3, <1>8, <2>1, Zenon
<1> QED
  BY <1>3, <1>6, <1>7, <1>8 DEF KernelOK

\* The top mount of a target loses its restrictions.
LEMMA LoosenKernel ==
    ASSUME KernelOK, NEW t \in Targets, stack[t] # <<>>, UNCHANGED nextUnique,
           stack' = [stack EXCEPT ![t] = <<[Top(t) EXCEPT !.attrs = {}]>> \o Tail(@)]
    PROVE  /\ KernelOK'
           /\ AllMounts' \subseteq AllMounts \cup {[Top(t) EXCEPT !.attrs = {}]}
           /\ Top(t) \in AllMounts /\ Top(t) \in Mount
<1> DEFINE m == [Top(t) EXCEPT !.attrs = {}]
<1>1. stack \in [Targets -> Seq(Mount)]
  BY DEF KernelOK
<1>2. /\ Tail(stack[t]) \in Seq(Mount)
      /\ Head(stack[t]) \in Mount
      /\ Head(stack[t]) \in RangeOf(stack[t])
      /\ RangeOf(Tail(stack[t])) \subseteq RangeOf(stack[t])
  BY <1>1, Popped
<1>3. m \in Mount
  BY <1>2 DEF Top, Mount
<1>4. /\ <<m>> \o Tail(stack[t]) \in Seq(Mount)
      /\ RangeOf(<<m>> \o Tail(stack[t])) = RangeOf(Tail(stack[t])) \cup {m}
  <2>1. \A r \in Seq(Mount), n \in Mount :
          <<n>> \o r \in Seq(Mount) /\ RangeOf(<<n>> \o r) = RangeOf(r) \cup {n}
    BY Pushed
  <2> QED
    BY <1>2, <1>3, <2>1, Zenon
<1>5. /\ stack' \in [Targets -> Seq(Mount)]
      /\ \A u \in Targets :
           stack'[u] = IF u = t THEN <<m>> \o Tail(stack[t]) ELSE stack[u]
  BY <1>1, <1>4
<1>6. AllMounts = UNION {RangeOf(stack[u]) : u \in Targets}
  BY AllMountsDef
<1>7. AllMounts' = UNION {RangeOf(stack'[u]) : u \in Targets}
  BY DEF AllMounts, Mounts, RangeOf
<1>8. AllMounts' \subseteq AllMounts \cup {m}
  BY <1>2, <1>4, <1>5, <1>6, <1>7
<1>9. Top(t) \in AllMounts /\ Top(t) \in Mount
  BY <1>2, <1>6 DEF Top
<1> QED
  BY <1>5, <1>8, <1>9 DEF KernelOK

\* Somebody mounts a directory.
LEMMA ForeignMountKernel ==
    ASSUME KernelOK, NEW t \in Targets, NEW d \in DevInos, ForeignMount(t, d)
    PROVE  /\ KernelOK'
           /\ \E m \in Mount : m.unique = nextUnique /\ AllMounts' = AllMounts \cup {m}
           /\ nextUnique' = nextUnique + 1
<1> DEFINE m == [mnt_id |-> NewMountId, unique |-> nextUnique, root |-> d,
                 attrs |-> {}, by |-> Foreign]
<1>1. NewMountId \in MntIds
  BY DEF ForeignMount, NewMountId, FreeIds
<1>2. m \in Mount /\ m.unique = nextUnique
  BY <1>1 DEF Mount, KernelOK
<1>3. Push(t, m) /\ nextUnique' = nextUnique + 1
  BY DEF ForeignMount
<1>4. KernelOK' /\ AllMounts' = AllMounts \cup {m}
  BY <1>2, <1>3, PushKernel
<1> QED
  BY <1>2, <1>3, <1>4

\* Nothing happens to the mounts.
LEMMA SameKernel ==
    ASSUME KernelOK, UNCHANGED stack, UNCHANGED nextUnique
    PROVE  /\ KernelOK'
           /\ AllMounts' = AllMounts
           /\ \A u \in Targets : ~(stack[u] # <<>> /\ stack'[u] = Tail(stack[u]))
<1>1. KernelOK' /\ AllMounts' = AllMounts
  BY DEF KernelOK, AllMounts, Mounts
<1>2. \A u \in Targets : stack[u] # <<>> => Tail(stack[u]) # stack[u]
  BY Popped DEF KernelOK
<1> QED
  BY <1>1, <1>2, Zenon

\* What is mounted is a mount.
LEMMA MountsTyped ==
    ASSUME KernelOK
    PROVE  \A m \in AllMounts : m \in Mount
<1>1. \A t \in Targets : RangeOf(stack[t]) \subseteq Mount
  BY ElementOfSeq, LenProperties DEF KernelOK, RangeOf
<1> QED
  BY <1>1, AllMountsDef

(***************************************************************************)
(* Type correctness.                                                       *)
(***************************************************************************)

\* What a configuration asks for has the right type.
LEMMA ConfType ==
    ASSUME WorldOK, NEW k \in Keys
    PROVE  conf[k] \in DesiredMount
BY ReconcilerAssumption DEF WorldOK

\* statx reports identities of mounts.
LEMMA ReadIdentityType ==
    ASSUME NEW m \in Mount
    PROVE  ReadIdentity(m) \in Identity
BY ReconcilerAssumption DEF ReadIdentity, Mount, Identity, NoUnique

\* The source of a mount about to be attached did resolve.
LEMMA AttachInHand ==
    ASSUME StepOK, pc = "attach"
    PROVE  step.root \in DevInos
<1>1. step \in StepType /\ step.op = "attach"
  BY DEF StepOK
<1> QED
  BY <1>1 DEF StepType, NoStep

\* create_bind attaches a mount, if a mount ID is left.
LEMMA NewMountType ==
    ASSUME WorldOK, KernelOK, NEW k \in Keys, NEW root \in DevInos, FreeIds # {}
    PROVE  /\ NewMount(k, root) \in Mount
           /\ NewMount(k, root).unique = nextUnique
           /\ NewMount(k, root).by = k
<1>1. NewMountId \in MntIds
  BY DEF NewMountId, FreeIds
<1>2. conf[k].attrs \cup AlwaysOn \in SUBSET Restrictions
  BY ConfType, PlanAssumption DEF DesiredMount
<1> QED
  BY <1>1, <1>2 DEF NewMount, Mount, KernelOK

\* The record of a new mount.
LEMMA RecordOfType ==
    ASSUME WorldOK, NEW k \in Keys, NEW m \in Mount
    PROVE  RecordOf(k, m) \in MountRecord
BY ConfType, ReadIdentityType DEF RecordOf, MountRecord, DesiredMount

\* A record is not the absence of one.
LEMMA NoRecordIsNone == NoRecord \notin MountRecord
BY PlanAssumption DEF MountRecord, Identity

\* Before a pass has planned, there is nothing to do.
LEMMA NoPlanType == NoPlan \in [Keys -> KeyPlan]
BY DEF NoPlan, KeyPlan, Step, FindingKind

\* A step that is over leaves nothing in hand.
LEMMA FinishType ==
    ASSUME PassOK, NEW s \in PlanStep, NEW done, Finish(s, done)
    PROVE  PassOK' /\ StepOK'
<1>1. todo' \subseteq PlanStep
  BY DEF Finish, PassOK
<1>2. s.key \in Keys
  BY DEF PlanStep
<1>3. bad' \subseteq Keys
  BY <1>2 DEF Finish, PassOK
<1>4. plan' \in [Keys -> KeyPlan]
  BY NoPlanType DEF Finish, PassOK
<1>5. StepOK'
  BY DEF Finish, StepOK, StepType, NoStep
<1> QED
  BY <1>1, <1>3, <1>4, <1>5 DEF Finish, PassOK

\* A process that has ended holds nothing.
LEMMA DiesType ==
    ASSUME Dies
    PROVE  PassOK' /\ StepOK' /\ mem' \in [Keys -> MountRecord \cup {NoRecord}]
<1>1. PassOK'
  <2>1. NothingSeen \in [desired : SUBSET Keys, frozen : SUBSET Groups,
                         sources : [Keys -> DevInos \cup {Gone}]]
    BY DEF NothingSeen
  <2> QED
    BY <2>1, NoPlanType DEF Dies, PassOK
<1>2. StepOK'
  BY DEF Dies, StepOK, StepType, NoStep
<1>3. mem' \in [Keys -> MountRecord \cup {NoRecord}]
  BY DEF Dies, NoRecords
<1> QED
  BY <1>1, <1>2, <1>3

\* One disturbance less is left.
LEMMA DisturbanceType ==
    ASSUME MeterOK, NEW kind, Disturbance(kind), lost' \subseteq Nat \ {0}
    PROVE  MeterOK'
<1>1. budget' \in 0..Budget
  BY ReconcilerAssumption DEF Disturbance, MeterOK
<1>2. calm' \in BOOLEAN /\ covered' \subseteq Keys
  BY DEF Disturbance, MeterOK
<1> QED
  BY <1>1, <1>2 DEF MeterOK

\* Only a reload and others change what the passes read.
LEMMA WorldStep ==
    ASSUME WorldOK, [Next]_vars
    PROVE  WorldOK'
<1>1. CASE UNCHANGED world
  BY <1>1 DEF world, WorldOK
<1>2. ASSUME NEW c \in Configs, Reconfigure(c) PROVE WorldOK'
  BY <1>2 DEF Reconfigure, WorldOK
<1>3. ASSUME NEW k \in Keys, ToggleMember(k) PROVE WorldOK'
  BY <1>3 DEF ToggleMember, WorldOK
<1>4. ASSUME NEW g \in Groups, ToggleReadable(g) PROVE WorldOK'
  BY <1>4 DEF ToggleReadable, WorldOK
<1>5. ASSUME NEW s \in Sources, NEW d \in DevInos \cup {Gone}, ChangeSource(s, d) PROVE WorldOK'
  BY <1>5 DEF ChangeSource, WorldOK
<1>6. ASSUME NEW t \in Targets, ToggleBlocked(t) PROVE WorldOK'
  BY <1>6 DEF ToggleBlocked, WorldOK
<1>7. Daemon => UNCHANGED world
  BY DEF Daemon, Restart, ScanMembership, ResolveSources, InspectAndPlan, SkipMount,
         ResolveMount, AttachMount, VerifyRemoval, Unmount, Drop, SaveSucceeds,
         VerifyRollback, Rollback
<1>8. Failure => UNCHANGED world
  BY DEF Failure, AttachUnidentified, AttachFails, UnmountFails, SaveFails, RollbackFails, Crash,
         Shutdown
<1>9. Reboot \/ LoseStateFile => UNCHANGED world
  BY DEF Reboot, LoseStateFile
<1>10. ASSUME NEW t \in Targets, ForeignUnmount(t) \/ LoosenMount(t) PROVE UNCHANGED world
  BY <1>10 DEF ForeignUnmount, LoosenMount
<1>11. ASSUME NEW t \in Targets, NEW d \in DevInos, ForeignMount(t, d) PROVE UNCHANGED world
  BY <1>11 DEF ForeignMount
<1> QED
  BY <1>1, <1>2, <1>3, <1>4, <1>5, <1>6, <1>7, <1>8, <1>9, <1>10, <1>11
     DEF Next, Environment, vars

\* A removal whose turn it is has its record.
LEMMA RemovalHasRecord ==
    ASSUME RemovalsComeFirst, NEW k \in Keys, Due([op |-> "remove", key |-> k])
    PROVE  mem[k] # NoRecord
<1>1. pc = "run" /\ [op |-> "remove", key |-> k] \in todo
  BY DEF Due
<1> QED
  BY <1>1 DEF RemovalsComeFirst

\* So has a removal whose mount is pinned.
LEMMA PinnedHasRecord ==
    ASSUME RemovalsComeFirst, NEW k \in Keys, pc = "umount", step.op = "unmount", step.key = k
    PROVE  mem[k] # NoRecord
BY DEF RemovalsComeFirst

\* What is pinned is a mount.
LEMMA PinnedType ==
    ASSUME StepOK, pc = "umount"
    PROVE  step.pinned \in Nat \ {0} /\ step.key \in Keys
<1>1. step \in StepType /\ step.op \in {"unmount", "undo"}
  BY DEF StepOK
<1> QED
  BY <1>1 DEF StepType, NoStep

\* What is said of a mount that try_mount is not done with.
LEMMA MakingType ==
    ASSUME WorldOK, StepOK, Making
    PROVE  /\ step.key \in Keys /\ step.unique \in Nat \ {0}
           /\ conf[step.key].target \in Targets
           /\ [op |-> "mount", key |-> step.key] \in PlanStep
<1>1. step \in StepType /\ step.op \in {"mount", "rollback", "undo"}
  BY DEF StepOK, Making
<1>2. step.key \in Keys /\ step.unique \in Nat \ {0}
  BY <1>1 DEF StepType, NoStep
<1> QED
  BY <1>2, ConfType DEF DesiredMount, PlanStep

\* The mount on top of a target is a mount.
LEMMA TopTyped ==
    ASSUME KernelOK, NEW t \in Targets, stack[t] # <<>>
    PROVE  Top(t) \in Mount /\ Top(t).unique \in Nat \ {0}
<1>1. Top(t) \in Mount
  BY DEF KernelOK, Top
<1> QED
  BY <1>1 DEF Mount

\* The check of a rollback pins the mount on top of the target, or gives the new one up.
LEMMA VerifyRollbackIs ==
    ASSUME VerifyRollback
    PROVE  /\ pc = "rollback" /\ UNCHANGED <<world, kernel, mem, disk, meter>>
           /\ \/ /\ OpenVerified(conf[step.key].target, step.identity)
                 /\ step' = [op |-> "undo", key |-> step.key, unique |-> step.unique,
                             pinned |-> Top(conf[step.key].target).unique]
                 /\ step'.op = "undo"
                 /\ pc' = "umount"
                 /\ UNCHANGED <<pass, lost>>
              \/ /\ lost' = lost \cup {step.unique}
                 /\ Finish([op |-> "mount", key |-> step.key], FALSE)
<1>1. CASE OpenVerified(conf[step.key].target, step.identity)
  <2>1. /\ step' = [op |-> "undo", key |-> step.key, unique |-> step.unique,
                    pinned |-> Top(conf[step.key].target).unique]
        /\ pc' = "umount" /\ UNCHANGED <<pass, lost>>
    BY <1>1 DEF VerifyRollback
  <2> QED
    BY <1>1, <2>1 DEF VerifyRollback
<1>2. CASE ~OpenVerified(conf[step.key].target, step.identity)
  BY <1>2 DEF VerifyRollback
<1> QED
  BY <1>1, <1>2

\* A target that a mount is attached to is not free.
LEMMA AttachedTop ==
    ASSUME NEW t \in Targets, Attached(t)
    PROVE  stack[t] # <<>>
BY DEF Attached, Mounts

\* The writer's own steps, one by one: what they read and write has its type.
LEMMA DaemonStep ==
    ASSUME TypeOK, RemovalsComeFirst, Daemon
    PROVE  KernelOK' /\ StateOK' /\ PassOK' /\ StepOK' /\ MeterOK'
<1> USE DEF TypeOK
<1>1. CASE Restart
  BY <1>1 DEF Restart, KernelOK, StateOK, PassOK, StepOK, MeterOK, kernel, pass, meter
<1>2. CASE ScanMembership
  <2>1. seen' \in [desired : SUBSET Keys, frozen : SUBSET Groups,
                   sources : [Keys -> DevInos \cup {Gone}]]
    BY <1>2 DEF ScanMembership, WorldOK, NothingSeen
  <2> QED
    BY <1>2, <2>1 DEF ScanMembership, KernelOK, StateOK, PassOK, StepOK, MeterOK, kernel
<1>3. CASE ResolveSources
  <2>1. [k \in Keys |-> source[conf[k].source]] \in [Keys -> DevInos \cup {Gone}]
    BY ConfType DEF WorldOK, DesiredMount
  <2>2. PassOK'
    BY <1>3, <2>1 DEF ResolveSources, PassOK
  <2> QED
    BY <1>3, <2>2 DEF ResolveSources, KernelOK, StateOK, StepOK, MeterOK, kernel, meter
<1>4. CASE InspectAndPlan
  <2>1. PICK p : /\ p = Plan(PlanInput(seen))
                 /\ todo' = StepsOf(p)
                 /\ plan' = (IF IsNoop(p) THEN NoPlan ELSE p)
                 /\ pc' = (IF IsNoop(p) THEN "idle" ELSE "run")
    BY <1>4 DEF InspectAndPlan
  <2>2. todo' \subseteq PlanStep
    BY <2>1 DEF StepsOf, PlanStep
  <2>3. plan' \in [Keys -> KeyPlan]
    BY <2>1, PlanType, NoPlanType
  <2>4. seen' \in [desired : SUBSET Keys, frozen : SUBSET Groups,
                   sources : [Keys -> DevInos \cup {Gone}]]
    BY <1>4 DEF InspectAndPlan, NothingSeen
  <2>5. PassOK'
    BY <1>4, <2>2, <2>3, <2>4 DEF InspectAndPlan, PassOK
  <2>6. StepOK'
    BY <1>4, <2>1 DEF InspectAndPlan, StepOK
  <2>7. MeterOK'
    BY <1>4 DEF InspectAndPlan, CoveredBy, MeterOK
  <2> QED
    BY <1>4, <2>5, <2>6, <2>7 DEF InspectAndPlan, KernelOK, StateOK, kernel
<1>5. ASSUME NEW k \in Keys, SkipMount(k)
      PROVE  KernelOK' /\ StateOK' /\ PassOK' /\ StepOK' /\ MeterOK'
  <2>1. PassOK' /\ StepOK'
    BY <1>5, FinishType DEF SkipMount, PlanStep
  <2> QED
    BY <1>5, <2>1 DEF SkipMount, KernelOK, StateOK, MeterOK, kernel, meter
<1>6. ASSUME NEW k \in Keys, ResolveMount(k)
      PROVE  KernelOK' /\ StateOK' /\ PassOK' /\ StepOK' /\ MeterOK'
  <2>1. CASE Finish([op |-> "mount", key |-> k], FALSE)
    <3>1. PassOK' /\ StepOK'
      BY <2>1, FinishType DEF PlanStep
    <3> QED
      BY <1>6, <3>1 DEF ResolveMount, KernelOK, StateOK, MeterOK, kernel, meter
  <2>2. CASE /\ source[conf[k].source] # Gone
             /\ step' = [op |-> "attach", key |-> k, root |-> source[conf[k].source]]
             /\ pc' = "attach" /\ UNCHANGED pass
    <3>1. source[conf[k].source] \in DevInos
      BY <2>2, ConfType DEF WorldOK, DesiredMount
    <3>2. PassOK' /\ StepOK'
      BY <2>2, <3>1 DEF PassOK, StepOK, StepType, pass
    <3> QED
      BY <1>6, <3>2 DEF ResolveMount, KernelOK, StateOK, MeterOK, kernel, meter
  <2> QED
    BY <1>6, <2>1, <2>2 DEF ResolveMount
<1>7. ASSUME NEW k \in Keys, AttachMount(k)
      PROVE  KernelOK' /\ StateOK' /\ PassOK' /\ StepOK' /\ MeterOK'
  <2> DEFINE m == NewMount(k, step.root)
  <2>1. step.root \in DevInos
    BY <1>7, AttachInHand DEF AttachMount
  <2>2. m \in Mount /\ m.unique = nextUnique
    BY <1>7, <2>1, NewMountType DEF AttachMount
  <2>3. KernelOK'
    BY <1>7, <2>2, ConfType, PushKernel DEF AttachMount, DesiredMount
  <2>4. RecordOf(k, m) \in MountRecord /\ ReadIdentity(m) \in Identity
    BY <2>2, RecordOfType, ReadIdentityType
  <2>5. StateOK'
    BY <1>7, <2>4 DEF AttachMount, StateOK
  <2>6. step' \in [op : {"mount"}, key : Keys, previous : MountRecord \cup {NoRecord},
                   identity : Identity, unique : Nat \ {0}]
    BY <1>7, <2>2, <2>4 DEF AttachMount, StateOK, KernelOK
  <2>7. StepOK'
    BY <1>7, <2>6 DEF AttachMount, StepOK, StepType
  <2> QED
    BY <1>7, <2>3, <2>5, <2>7 DEF AttachMount, PassOK, MeterOK, pass, meter
<1>8. ASSUME NEW k \in Keys, Unmount(k)
      PROVE  KernelOK' /\ StateOK' /\ PassOK' /\ StepOK' /\ MeterOK'
  <2> DEFINE s == [op |-> "remove", key |-> k]
             t == mem[k].target
  <2>1. s \in PlanStep
    BY DEF PlanStep
  <2>2. CASE Finish(s, FALSE) /\ UNCHANGED <<stack, mem, lost>>
    <3>1. PassOK' /\ StepOK'
      BY <2>1, <2>2, FinishType
    <3> QED
      BY <1>8, <2>2, <3>1 DEF Unmount, KernelOK, StateOK, MeterOK, meter
  <2>3. CASE /\ Attached(t) /\ Pop(t)
             /\ mem' = [mem EXCEPT ![k] = NoRecord]
             /\ lost' = lost \cup Missed(t, step.pinned)
             /\ step' = s /\ pc' = "save" /\ UNCHANGED pass
    <3>1. mem[k] # NoRecord /\ step.pinned \in Nat \ {0}
      BY <1>8, PinnedHasRecord, PinnedType DEF Unmount
    <3>2. t \in Targets
      BY <3>1 DEF StateOK, MountRecord
    <3>3. KernelOK'
      BY <1>8, <2>3, <3>2, AttachedTop, PopKernel DEF Unmount
    <3>4. StateOK'
      BY <1>8, <2>3 DEF Unmount, StateOK
    <3>5. PassOK' /\ StepOK'
      BY <2>1, <2>3 DEF PassOK, StepOK, StepType, pass
    <3>6. MeterOK'
      BY <1>8, <2>3, <3>1 DEF Unmount, Missed, MeterOK, meter
    <3> QED
      BY <3>3, <3>4, <3>5, <3>6
  <2> QED
    BY <1>8, <2>2, <2>3 DEF Unmount
<1>9. ASSUME NEW k \in Keys, Drop(k)
      PROVE  KernelOK' /\ StateOK' /\ PassOK' /\ StepOK' /\ MeterOK'
  <2>1. StateOK' /\ PassOK' /\ StepOK'
    BY <1>9 DEF Drop, StateOK, PassOK, StepOK, StepType, pass
  <2>2. {m.unique : m \in ClaimedBy(k)} \subseteq Nat \ {0}
    <3>1. \A m \in AllMounts : m \in Mount
      BY MountsTyped
    <3> QED
      BY <3>1 DEF ClaimedBy, Mount
  <2>3. MeterOK'
    BY <1>9, <2>2 DEF Drop, MeterOK, meter
  <2> QED
    BY <1>9, <2>1, <2>3 DEF Drop, KernelOK, kernel
<1>10. CASE SaveSucceeds
  <2>1. SavedStep \in PlanStep
    BY <1>10 DEF SaveSucceeds, SavedStep, StepOK, StepType, NoStep, PlanStep
  <2>2. PassOK' /\ StepOK'
    BY <1>10, <2>1, FinishType DEF SaveSucceeds
  <2> QED
    BY <1>10, <2>2 DEF SaveSucceeds, KernelOK, StateOK, MeterOK, kernel, meter
<1>11. ASSUME NEW k \in Keys, VerifyRemoval(k)
       PROVE  KernelOK' /\ StateOK' /\ PassOK' /\ StepOK' /\ MeterOK'
  <2> DEFINE s == [op |-> "remove", key |-> k]
             t == mem[k].target
  <2>1. CASE Finish(s, FALSE)
    <3>1. PassOK' /\ StepOK'
      BY <2>1, FinishType DEF PlanStep
    <3> QED
      BY <1>11, <3>1 DEF VerifyRemoval, KernelOK, StateOK, MeterOK, kernel, meter
  <2>2. CASE /\ OpenVerified(t, mem[k].identity)
             /\ step' = [op |-> "unmount", key |-> k, pinned |-> Top(t).unique]
             /\ pc' = "umount" /\ UNCHANGED pass
    <3>1. t \in Targets
      BY <1>11, RemovalHasRecord DEF VerifyRemoval, StateOK, MountRecord
    <3>2. Top(t).unique \in Nat \ {0}
      BY <2>2, <3>1, TopTyped DEF OpenVerified
    <3>3. PassOK' /\ StepOK'
      BY <2>2, <3>2 DEF PassOK, StepOK, StepType, pass
    <3> QED
      BY <1>11, <3>3 DEF VerifyRemoval, KernelOK, StateOK, MeterOK, kernel, meter
  <2> QED
    BY <1>11, <2>1, <2>2 DEF VerifyRemoval
<1>12. CASE VerifyRollback
  <2> DEFINE s == [op |-> "mount", key |-> step.key]
             t == conf[step.key].target
  <2>1. /\ step.key \in Keys /\ step.unique \in Nat \ {0} /\ t \in Targets
        /\ s \in PlanStep
    BY <1>12, MakingType DEF VerifyRollback, StepOK, Making
  <2>2. CASE Finish(s, FALSE) /\ lost' = lost \cup {step.unique}
    <3>1. PassOK' /\ StepOK'
      BY <2>1, <2>2, FinishType
    <3> QED
      BY <1>12, <2>1, <2>2, <3>1 DEF VerifyRollback, KernelOK, StateOK, MeterOK, kernel, meter
  <2>3. CASE /\ OpenVerified(t, step.identity)
             /\ step' = [op |-> "undo", key |-> step.key, unique |-> step.unique,
                         pinned |-> Top(t).unique]
             /\ pc' = "umount" /\ UNCHANGED <<pass, lost>>
    <3>1. Top(t).unique \in Nat \ {0}
      BY <2>1, <2>3, TopTyped DEF OpenVerified
    <3>2. PassOK' /\ StepOK'
      BY <2>1, <2>3, <3>1 DEF PassOK, StepOK, StepType, pass
    <3> QED
      BY <1>12, <2>3, <3>2 DEF VerifyRollback, KernelOK, StateOK, MeterOK, kernel, meter
  <2> QED
    BY <1>12, <2>2, <2>3 DEF VerifyRollback
<1>13. CASE Rollback
  <2> DEFINE s == [op |-> "mount", key |-> step.key]
             t == conf[step.key].target
  <2>1. /\ step.key \in Keys /\ step.unique \in Nat \ {0} /\ t \in Targets
        /\ s \in PlanStep
    BY <1>13, MakingType DEF Rollback, Making
  <2>2. PassOK' /\ StepOK'
    BY <1>13, <2>1, FinishType DEF Rollback
  <2>3. KernelOK'
    <3>1. CASE Attached(t)
      BY <1>13, <2>1, <3>1, AttachedTop, PopKernel DEF Rollback
    <3>2. CASE ~Attached(t)
      BY <1>13, <3>2 DEF Rollback, KernelOK
    <3> QED
      BY <3>1, <3>2
  <2>4. MeterOK'
    BY <1>13, <2>1 DEF Rollback, Missed, MeterOK, meter
  <2> QED
    BY <1>13, <2>2, <2>3, <2>4 DEF Rollback, StateOK
<1> QED
  BY <1>1, <1>2, <1>3, <1>4, <1>5, <1>6, <1>7, <1>8, <1>9, <1>10, <1>11, <1>12, <1>13 DEF Daemon

\* The same for what may fail.
LEMMA FailureStep ==
    ASSUME TypeOK, Failure
    PROVE  KernelOK' /\ StateOK' /\ PassOK' /\ StepOK' /\ MeterOK'
<1> USE DEF TypeOK
<1>1. ASSUME NEW k \in Keys, AttachUnidentified(k)
      PROVE  KernelOK' /\ StateOK' /\ PassOK' /\ StepOK' /\ MeterOK'
  <2> DEFINE m == NewMount(k, step.root)
  <2>1. step.root \in DevInos
    BY <1>1, AttachInHand DEF AttachUnidentified
  <2>2. m \in Mount /\ m.unique = nextUnique
    BY <1>1, <2>1, NewMountType DEF AttachUnidentified
  <2>3. KernelOK'
    BY <1>1, <2>2, ConfType, PushKernel DEF AttachUnidentified, DesiredMount
  <2>4. PassOK' /\ StepOK'
    BY <1>1, FinishType DEF AttachUnidentified, PlanStep
  <2>5. MeterOK'
    <3>1. lost' \subseteq Nat \ {0}
      BY <1>1, <2>2 DEF AttachUnidentified, MeterOK, KernelOK
    <3> QED
      BY <1>1, <3>1, DisturbanceType DEF AttachUnidentified
  <2> QED
    BY <1>1, <2>3, <2>4, <2>5 DEF AttachUnidentified, StateOK
<1>2. ASSUME NEW k \in Keys, AttachFails(k) \/ UnmountFails(k)
      PROVE  KernelOK' /\ StateOK' /\ PassOK' /\ StepOK' /\ MeterOK'
  <2>1. PassOK' /\ StepOK'
    BY <1>2, FinishType DEF AttachFails, UnmountFails, PlanStep
  <2>2. MeterOK'
    BY <1>2, DisturbanceType DEF AttachFails, UnmountFails, MeterOK
  <2> QED
    BY <1>2, <2>1, <2>2 DEF AttachFails, UnmountFails, KernelOK, StateOK, kernel
<1>3. ASSUME NEW late \in BOOLEAN, SaveFails(late)
      PROVE  KernelOK' /\ StateOK' /\ PassOK' /\ StepOK' /\ MeterOK'
  <2>1. SavedStep \in PlanStep
    BY <1>3 DEF SaveFails, SavedStep, StepOK, StepType, NoStep, PlanStep
  <2>2. KernelOK' /\ MeterOK'
    BY <1>3, DisturbanceType DEF SaveFails, KernelOK, MeterOK, kernel
  <2>3. CASE step.op = "remove"
    BY <1>3, <2>1, <2>2, <2>3, FinishType DEF SaveFails, StateOK
  <2>4. CASE step.op # "remove"
    <3>1. /\ step.key \in Keys /\ step.unique \in Nat \ {0} /\ step.identity \in Identity
          /\ step.previous \in MountRecord \cup {NoRecord}
      BY <1>3, <2>4 DEF SaveFails, StepOK, StepType, NoStep
    <3>2. StateOK'
      BY <1>3, <2>4, <3>1 DEF SaveFails, StateOK
    <3>3. PassOK' /\ StepOK'
      BY <1>3, <2>4, <3>1 DEF SaveFails, PassOK, StepOK, StepType, pass
    <3> QED
      BY <2>2, <3>2, <3>3
  <2> QED
    BY <2>3, <2>4
<1>4. CASE Crash
  <2>1. Making => step.unique \in Nat \ {0}
    BY MakingType
  <2>2. lost' \subseteq Nat \ {0}
    BY <1>4, <2>1 DEF Crash, MeterOK
  <2> QED
    BY <1>4, <2>2, DiesType, DisturbanceType DEF Crash, KernelOK, StateOK, kernel
<1>5. ASSUME NEW saved \in BOOLEAN, Shutdown(saved)
      PROVE  KernelOK' /\ StateOK' /\ PassOK' /\ StepOK' /\ MeterOK'
  <2>1. MeterOK'
    BY <1>5, DisturbanceType DEF Shutdown, MeterOK
  <2> QED
    BY <1>5, <2>1, DiesType DEF Shutdown, KernelOK, StateOK, kernel
<1>6. CASE RollbackFails
  <2>1. /\ step.key \in Keys /\ step.unique \in Nat \ {0}
        /\ [op |-> "mount", key |-> step.key] \in PlanStep
    BY <1>6, MakingType DEF RollbackFails, Making
  <2>2. PassOK' /\ StepOK'
    BY <1>6, <2>1, FinishType DEF RollbackFails
  <2>3. MeterOK'
    BY <1>6, <2>1, DisturbanceType DEF RollbackFails, MeterOK
  <2> QED
    BY <1>6, <2>2, <2>3 DEF RollbackFails, KernelOK, StateOK, kernel
<1> QED
  BY <1>1, <1>2, <1>3, <1>4, <1>5, <1>6 DEF Failure

\* The same for what others do.
LEMMA EnvironmentStep ==
    ASSUME TypeOK, Environment
    PROVE  KernelOK' /\ StateOK' /\ PassOK' /\ StepOK' /\ MeterOK'
<1> USE DEF TypeOK
<1>1. ASSUME UNCHANGED <<stack, nextUnique, mem, disk, pc, seen, plan, todo, bad, step, lost>>,
             NEW kind, Disturbance(kind)
      PROVE  KernelOK' /\ StateOK' /\ PassOK' /\ StepOK' /\ MeterOK'
  <2>1. MeterOK'
    BY <1>1, DisturbanceType DEF MeterOK
  <2> QED
    BY <1>1, <2>1 DEF KernelOK, StateOK, PassOK, StepOK
<1>2. ASSUME NEW c \in Configs, Reconfigure(c)
      PROVE  KernelOK' /\ StateOK' /\ PassOK' /\ StepOK' /\ MeterOK'
  BY <1>1, <1>2 DEF Reconfigure, kernel, pass
<1>3. ASSUME NEW k \in Keys, ToggleMember(k)
      PROVE  KernelOK' /\ StateOK' /\ PassOK' /\ StepOK' /\ MeterOK'
  BY <1>1, <1>3 DEF ToggleMember, kernel, pass, Others
<1>4. ASSUME NEW g \in Groups, ToggleReadable(g)
      PROVE  KernelOK' /\ StateOK' /\ PassOK' /\ StepOK' /\ MeterOK'
  BY <1>1, <1>4 DEF ToggleReadable, kernel, pass, Others
<1>5. ASSUME NEW s \in Sources, NEW d \in DevInos \cup {Gone}, ChangeSource(s, d)
      PROVE  KernelOK' /\ StateOK' /\ PassOK' /\ StepOK' /\ MeterOK'
  BY <1>1, <1>5 DEF ChangeSource, kernel, pass, Others
<1>6. ASSUME NEW t \in Targets, ToggleBlocked(t)
      PROVE  KernelOK' /\ StateOK' /\ PassOK' /\ StepOK' /\ MeterOK'
  BY <1>1, <1>6 DEF ToggleBlocked, kernel, pass, Others
<1>7. ASSUME UNCHANGED <<mem, disk, pc, seen, plan, todo, bad, step, lost>>,
             KernelOK', NEW kind, Disturbance(kind)
      PROVE  KernelOK' /\ StateOK' /\ PassOK' /\ StepOK' /\ MeterOK'
  <2>1. MeterOK'
    BY <1>7, DisturbanceType DEF MeterOK
  <2> QED
    BY <1>7, <2>1 DEF StateOK, PassOK, StepOK
<1>8. ASSUME NEW t \in Targets, ForeignUnmount(t)
      PROVE  KernelOK' /\ StateOK' /\ PassOK' /\ StepOK' /\ MeterOK'
  <2>1. KernelOK'
    BY <1>8, PopKernel DEF ForeignUnmount
  <2> QED
    BY <1>7, <1>8, <2>1 DEF ForeignUnmount, pass, Others
<1>9. ASSUME NEW t \in Targets, LoosenMount(t)
      PROVE  KernelOK' /\ StateOK' /\ PassOK' /\ StepOK' /\ MeterOK'
  <2>1. KernelOK'
    BY <1>9, LoosenKernel DEF LoosenMount
  <2> QED
    BY <1>7, <1>9, <2>1 DEF LoosenMount, pass, Others
<1>10. ASSUME NEW t \in Targets, NEW d \in DevInos, ForeignMount(t, d)
      PROVE  KernelOK' /\ StateOK' /\ PassOK' /\ StepOK' /\ MeterOK'
  <2>1. KernelOK'
    BY <1>10, ForeignMountKernel
  <2> QED
    BY <1>7, <1>10, <2>1 DEF ForeignMount, pass, Others
<1>11. CASE Reboot
  <2>1. KernelOK'
    BY <1>11, EmptySeq DEF Reboot, KernelOK
  <2>2. MeterOK'
    BY <1>11, DisturbanceType DEF Reboot
  <2> QED
    BY <1>11, <2>1, <2>2 DEF Reboot, StateOK, PassOK, StepOK, pass
<1>12. CASE LoseStateFile
  <2>1. lost' \subseteq Nat \ {0}
    BY <1>12, MountsTyped DEF LoseStateFile, MeterOK, Mount
  <2>2. MeterOK'
    BY <1>12, <2>1, DisturbanceType DEF LoseStateFile
  <2>3. StateOK'
    BY <1>12 DEF LoseStateFile, StateOK, NoRecords
  <2> QED
    BY <1>12, <2>2, <2>3 DEF LoseStateFile, KernelOK, PassOK, StepOK, kernel, pass
<1> QED
  BY <1>2, <1>3, <1>4, <1>5, <1>6, <1>8, <1>9, <1>10, <1>11, <1>12 DEF Environment

(***************************************************************************)
(* Removals come first, each with its record.                              *)
(***************************************************************************)

\* When a step is over, the removals that are left have their records.
LEMMA FinishRemovals ==
    ASSUME NEW s, NEW done, Finish(s, done),
           \A r \in todo \ {s} : r.op = "remove" => mem'[r.key] # NoRecord
    PROVE  RemovalsComeFirst'
<1>1. /\ todo' = todo \ {s} /\ pc' = (IF todo = {s} THEN "idle" ELSE "run")
      /\ step' = NoStep
  BY DEF Finish
<1>2. pc' = "idle" => todo' = {}
  BY <1>1
<1> QED
  BY <1>1, <1>2 DEF RemovalsComeFirst, Making, NoStep

\* A step is the record of its operation and its key.
LEMMA StepIs ==
    ASSUME NEW r \in PlanStep, r.op = "remove"
    PROVE  r.key \in Keys /\ r = [op |-> "remove", key |-> r.key]
BY DEF PlanStep

\* A removal that is outstanding and not in hand has its record.
LEMMA OutstandingRecord ==
    ASSUME RemovalsComeFirst, NEW r \in todo, r.op = "remove", ~(pc = "save" /\ step = r)
    PROVE  mem[r.key] # NoRecord
BY DEF RemovalsComeFirst

\* Mounts are due when no removal is left.
LEMMA MountsDueLast ==
    ASSUME NEW k, Due([op |-> "mount", key |-> k]), todo \subseteq PlanStep
    PROVE  \A r \in todo : r.op = "mount"
BY DEF Due, Rank, PlanStep

\* Every step keeps the order.
LEMMA RemovalsStep ==
    ASSUME TypeOK, RemovalsComeFirst, [Next]_vars
    PROVE  RemovalsComeFirst'
<1>0. /\ todo \subseteq PlanStep /\ step \in StepType
      /\ mem \in [Keys -> MountRecord \cup {NoRecord}]
  BY DEF TypeOK, PassOK, StepOK, StateOK
<1>a. StepOK'
  <2>1. CASE Next
    BY <2>1, DaemonStep, FailureStep, EnvironmentStep DEF Next
  <2>2. CASE UNCHANGED vars
    BY <2>2 DEF vars, TypeOK, StepOK
  <2> QED
    BY <2>1, <2>2
<1>b. /\ pc' \in {"down", "idle", "sources", "targets", "run"}
         => step'.op \notin {"unmount", "mount", "rollback", "undo"}
      /\ pc' = "attach" => step'.op = "attach"
  BY <1>a DEF StepOK
<1>1. CASE UNCHANGED <<mem, pc, todo, step>>
  BY <1>1 DEF RemovalsComeFirst, Making
<1>2. CASE Restart \/ ScanMembership \/ ResolveSources
  <2>1. todo' = {} /\ pc' \in {"idle", "sources", "targets"}
    BY <1>2 DEF Restart, ScanMembership, ResolveSources, pass, RemovalsComeFirst
  <2> QED
    BY <1>b, <2>1 DEF RemovalsComeFirst, Making
<1>3. CASE InspectAndPlan
  <2> DEFINE p == Plan(PlanInput(seen))
  <2>1. /\ todo' = StepsOf(p) /\ pc' = (IF IsNoop(p) THEN "idle" ELSE "run")
        /\ mem' = mem
    BY <1>3 DEF InspectAndPlan
  <2>2. IsNoop(p) => todo' = {}
    <3>1. ASSUME IsNoop(p) PROVE todo' = {}
      <4>1. \A k \in Keys : p[k].removal = "none" /\ ~p[k].mount
        BY <3>1, Zenon DEF IsNoop
      <4> QED
        BY <2>1, <4>1, Zenon DEF StepsOf
    <3> QED
      BY <3>1
  <2>3. ASSUME NEW r \in todo', r.op = "remove" PROVE mem[r.key] # NoRecord
    <3>1. r.key \in Keys /\ p[r.key].removal # "none"
      BY <2>1, <2>3 DEF StepsOf
    <3>2. PlanInput(seen).records[r.key] # NoRecord
      BY <3>1, RemovalsHaveRecords
    <3> QED
      BY <3>2 DEF PlanInput
  <2> QED
    BY <1>b, <2>1, <2>2, <2>3 DEF RemovalsComeFirst, Making
<1>4. ASSUME NEW k \in Keys, NEW s \in PlanStep, Finish(s, FALSE), UNCHANGED mem, pc # "save"
      PROVE  RemovalsComeFirst'
  BY <1>4, OutstandingRecord, FinishRemovals
<1>5. ASSUME NEW k \in Keys,
             SkipMount(k) \/ AttachFails(k) \/ AttachUnidentified(k) \/ UnmountFails(k)
      PROVE  RemovalsComeFirst'
  <2>1. \E s \in PlanStep : Finish(s, FALSE)
    BY <1>5 DEF SkipMount, AttachFails, AttachUnidentified, UnmountFails, PlanStep
  <2>2. UNCHANGED mem /\ pc # "save"
    BY <1>5 DEF SkipMount, AttachFails, AttachUnidentified, UnmountFails, Due
  <2> QED
    BY <1>4, <2>1, <2>2
<1>6. ASSUME NEW k \in Keys, ResolveMount(k) PROVE RemovalsComeFirst'
  <2> DEFINE s == [op |-> "mount", key |-> k]
  <2>1. UNCHANGED mem /\ pc = "run" /\ Due(s)
    BY <1>6 DEF ResolveMount, Due
  <2>2. CASE Finish(s, FALSE)
    BY <1>4, <2>1, <2>2 DEF PlanStep
  <2>3. CASE pc' = "attach" /\ UNCHANGED pass
    <3>1. \A r \in todo : r.op = "mount"
      BY <1>0, <2>1, MountsDueLast
    <3> QED
      BY <1>b, <2>3, <3>1 DEF RemovalsComeFirst, Making, pass
  <2> QED
    BY <1>6, <2>2, <2>3 DEF ResolveMount
<1>7. ASSUME NEW k \in Keys, AttachMount(k) PROVE RemovalsComeFirst'
  <2>1. /\ \A r \in todo : r.op = "mount"
        /\ todo' = todo /\ pc' = "save" /\ step'.op = "mount"
    BY <1>7 DEF AttachMount, RemovalsComeFirst, pass
  <2> QED
    BY <2>1 DEF RemovalsComeFirst
<1>8. ASSUME NEW k \in Keys, Unmount(k) \/ Drop(k) PROVE RemovalsComeFirst'
  <2> DEFINE s == [op |-> "remove", key |-> k]
  <2>1. pc \in {"run", "umount"}
    BY <1>8 DEF Unmount, Drop, Due
  <2>2. CASE Finish(s, FALSE) /\ UNCHANGED mem
    BY <1>4, <2>1, <2>2 DEF PlanStep
  <2>3. CASE /\ mem' = [mem EXCEPT ![k] = NoRecord]
             /\ step' = s /\ pc' = "save" /\ todo' = todo
    <3>1. ASSUME NEW r \in todo, r.op = "remove", r # s PROVE mem'[r.key] # NoRecord
      <4>1. r.key \in Keys /\ r.key # k
        BY <1>0, <3>1, StepIs
      <4>2. mem[r.key] # NoRecord
        BY <2>1, <3>1, OutstandingRecord
      <4> QED
        BY <1>0, <2>3, <4>1, <4>2
    <3> QED
      BY <2>3, <3>1 DEF RemovalsComeFirst, Making
  <2> QED
    BY <1>8, <2>2, <2>3 DEF Unmount, Drop, pass
<1>9. ASSUME SaveSucceeds \/ \E late \in BOOLEAN : SaveFails(late)
      PROVE  RemovalsComeFirst'
  <2>1. pc = "save"
    BY <1>9 DEF SaveSucceeds, SaveFails
  <2>2. CASE step.op = "remove"
    <3>1. SavedStep = step
      BY <1>0, <2>2 DEF SavedStep, StepType, NoStep
    <3>2. UNCHANGED mem /\ \E done : Finish(SavedStep, done)
      BY <1>9, <2>2 DEF SaveSucceeds, SaveFails
    <3> QED
      BY <3>1, <3>2, OutstandingRecord, FinishRemovals
  <2>3. CASE step.op # "remove"
    <3>1. \A r \in todo : r.op = "mount"
      BY <2>1, <2>3 DEF RemovalsComeFirst, TypeOK, StepOK, Making
    <3>2. CASE SaveSucceeds
      BY <3>1, <3>2, FinishRemovals DEF SaveSucceeds
    <3>3. CASE \E late \in BOOLEAN : SaveFails(late)
      <4>1. /\ pc' = "rollback" /\ step'.op = "rollback" /\ todo' = todo
        BY <2>3, <3>3 DEF SaveFails, pass
      <4> QED
        BY <3>1, <4>1 DEF RemovalsComeFirst
    <3> QED
      BY <1>9, <3>2, <3>3
  <2> QED
    BY <2>2, <2>3
<1>12. ASSUME NEW k \in Keys, VerifyRemoval(k) PROVE RemovalsComeFirst'
  <2> DEFINE s == [op |-> "remove", key |-> k]
  <2>1. UNCHANGED mem /\ pc = "run" /\ s \in todo
    BY <1>12 DEF VerifyRemoval, Due
  <2>2. CASE Finish(s, FALSE)
    BY <1>4, <2>1, <2>2 DEF PlanStep
  <2>3. CASE /\ step' = [op |-> "unmount", key |-> k, pinned |-> Top(mem[k].target).unique]
             /\ pc' = "umount" /\ UNCHANGED pass
    BY <2>1, <2>3, OutstandingRecord DEF RemovalsComeFirst, Making, pass
  <2> QED
    BY <1>12, <2>2, <2>3 DEF VerifyRemoval
<1>13. ASSUME VerifyRollback \/ Rollback \/ RollbackFails PROVE RemovalsComeFirst'
  <2> DEFINE s == [op |-> "mount", key |-> step.key]
  <2>1. /\ pc \in {"rollback", "umount"} /\ Making /\ UNCHANGED mem
    <3>1. pc = "rollback" => step.op = "rollback"
      BY DEF TypeOK, StepOK
    <3> QED
      BY <1>13, <3>1 DEF VerifyRollback, Rollback, RollbackFails, Making
  <2>2. \A r \in todo : r.op = "mount"
    BY <2>1 DEF RemovalsComeFirst
  <2>3. CASE Finish(s, FALSE)
    BY <2>2, <2>3, FinishRemovals
  <2>4. CASE step'.op = "undo" /\ pc' = "umount" /\ UNCHANGED pass
    BY <2>2, <2>4 DEF RemovalsComeFirst, pass
  <2>5. Finish(s, FALSE) \/ (step'.op = "undo" /\ pc' = "umount" /\ UNCHANGED pass)
    <3>1. CASE VerifyRollback
      BY <3>1, VerifyRollbackIs DEF pass
    <3> QED
      BY <1>13, <3>1 DEF Rollback, RollbackFails
  <2> QED
    BY <2>3, <2>4, <2>5
<1>10. CASE Crash \/ \E saved \in BOOLEAN : Shutdown(saved)
  BY <1>10 DEF Crash, Shutdown, Dies, RemovalsComeFirst, Making, NoStep
<1>11. CASE Environment \/ UNCHANGED vars
  <2>1. UNCHANGED <<mem, pc, todo, step>>
    BY <1>11 DEF Environment, Reconfigure, ToggleMember, ToggleReadable, ChangeSource,
         ToggleBlocked, ForeignUnmount, LoosenMount, ForeignMount, Reboot, LoseStateFile,
         Others, pass, vars
  <2> QED
    BY <1>1, <2>1
<1> QED
  BY <1>2, <1>3, <1>5, <1>6, <1>7, <1>8, <1>9, <1>10, <1>11, <1>12, <1>13
     DEF Next, Daemon, Failure

(***************************************************************************)
(* Type correctness and the order of a pass, for every run.                *)
(***************************************************************************)

\* The initial state.
LEMMA InitOK == Init => TypeOK /\ RemovalsComeFirst
<1> SUFFICES ASSUME Init PROVE TypeOK /\ RemovalsComeFirst
  OBVIOUS
<1>1. WorldOK
  BY DEF Init, WorldOK
<1>2. KernelOK
  BY EmptySeq DEF Init, KernelOK
<1>3. StateOK /\ PassOK
  BY NoPlanType DEF Init, StateOK, PassOK, NoRecords, NothingSeen
<1>4. StepOK /\ MeterOK
  <2>1. StepOK
    BY DEF Init, StepOK, StepType, NoStep
  <2>2. budget \in 0..Budget
    BY ReconcilerAssumption DEF Init
  <2> QED
    BY <2>1, <2>2 DEF Init, MeterOK
<1>5. RemovalsComeFirst
  BY DEF Init, RemovalsComeFirst, Making, NoStep
<1> QED
  BY <1>1, <1>2, <1>3, <1>4, <1>5 DEF TypeOK

\* Steps of every kind, and of nobody, keep the types.
LEMMA TypeStep ==
    ASSUME TypeOK, RemovalsComeFirst, [Next]_vars
    PROVE  TypeOK'
<1>1. WorldOK'
  BY WorldStep DEF TypeOK
<1>2. CASE Next
  BY <1>1, <1>2, DaemonStep, FailureStep, EnvironmentStep DEF Next, TypeOK
<1>3. CASE UNCHANGED vars
  BY <1>1, <1>3 DEF vars, kernel, pass, meter, TypeOK, KernelOK, StateOK, PassOK, StepOK, MeterOK
<1> QED
  BY <1>2, <1>3

\* Every variable keeps its type, and the executor has in hand only what fits its
\* place in the pass: a mount is attached only from a source that resolved.
THEOREM TypeCorrect == Spec => []TypeOK
<1>1. TypeOK /\ RemovalsComeFirst /\ [Next]_vars => TypeOK' /\ RemovalsComeFirst'
  BY TypeStep, RemovalsStep
<1> QED
  BY <1>1, InitOK, PTL DEF Spec

\* Within a pass no view goes up while another has yet to come down, and a removal
\* still has its record when its turn comes, through every failure and crash.
THEOREM RemovalsFirst == Spec => []RemovalsComeFirst
<1>1. TypeOK /\ RemovalsComeFirst /\ [Next]_vars => TypeOK' /\ RemovalsComeFirst'
  BY TypeStep, RemovalsStep
<1> QED
  BY <1>1, InitOK, PTL DEF Spec

(***************************************************************************)
(* Records name byssus's own mounts.                                       *)
(***************************************************************************)

\* Mounts come with unique IDs that were never used; nothing else changes whose
\* mount a unique ID is.
Grows ==
    /\ nextUnique' \in Nat /\ nextUnique <= nextUnique'
    /\ \A m \in AllMounts' :
         /\ m.unique < nextUnique'
         /\ m.by = Foreign =>
              \/ m.unique >= nextUnique
              \/ \E n \in AllMounts : n.by = Foreign /\ n.unique = m.unique

\* A mount may be added.
LEMMA GrowsByOne ==
    ASSUME KernelOK, \A n \in AllMounts : n.unique < nextUnique,
           NEW m, m.unique = nextUnique, AllMounts' = AllMounts \cup {m},
           nextUnique' = nextUnique + 1
    PROVE  Grows
<1>1. nextUnique \in Nat /\ \A n \in AllMounts : n.unique \in Nat
  BY MountsTyped DEF KernelOK, Mount
<1> QED
  BY <1>1 DEF Grows

\* Mounts may go, and be changed in what the IDs do not tell.
LEMMA GrowsByNone ==
    ASSUME KernelOK, \A n \in AllMounts : n.unique < nextUnique,
           UNCHANGED nextUnique,
           \A m \in AllMounts' : \E n \in AllMounts : n.unique = m.unique /\ n.by = m.by
    PROVE  Grows
<1>1. nextUnique \in Nat
  BY DEF KernelOK
<1>2. ASSUME NEW m \in AllMounts'
      PROVE  /\ m.unique < nextUnique
             /\ m.by = Foreign => \E n \in AllMounts : n.by = Foreign /\ n.unique = m.unique
  <2>1. PICK n \in AllMounts : n.unique = m.unique /\ n.by = m.by
    OBVIOUS
  <2> QED
    BY <2>1
<1> QED
  BY <1>1, <1>2 DEF Grows

\* The target of a verified removal is a target, and its mount is there.
LEMMA GrowsByUnmount ==
    ASSUME KernelOK, \A n \in AllMounts : n.unique < nextUnique,
           NEW t \in Targets, stack[t] # <<>>, Pop(t), UNCHANGED nextUnique
    PROVE  Grows
<1>1. AllMounts' \subseteq AllMounts
  BY PopKernel
<1> QED
  BY <1>1, GrowsByNone

\* So it is with every step, as long as the host does not reboot.
LEMMA GrowsStep ==
    ASSUME TypeOK, RemovalsComeFirst, "reboot" \notin Allowed, [Next]_vars,
           \A n \in AllMounts : n.unique < nextUnique
    PROVE  Grows
<1> USE DEF TypeOK
<1>1. CASE UNCHANGED <<stack, nextUnique>>
  <2>1. AllMounts' = AllMounts
    BY <1>1, SameKernel
  <2> QED
    BY <1>1, <2>1, GrowsByNone
<1>2. ASSUME NEW k \in Keys, AttachMount(k) \/ AttachUnidentified(k) PROVE Grows
  <2> DEFINE m == NewMount(k, step.root)
  <2>1. step.root \in DevInos /\ FreeIds # {}
    BY <1>2, AttachInHand DEF AttachMount, AttachUnidentified
  <2>2. m \in Mount /\ m.unique = nextUnique
    BY <2>1, NewMountType
  <2>3. Push(conf[k].target, m) /\ nextUnique' = nextUnique + 1
    BY <1>2 DEF AttachMount, AttachUnidentified
  <2>4. AllMounts' = AllMounts \cup {m}
    BY <2>2, <2>3, ConfType, PushKernel DEF DesiredMount
  <2> QED
    BY <2>2, <2>3, <2>4, GrowsByOne
<1>3. ASSUME NEW k \in Keys, Unmount(k) PROVE Grows
  <2>1. CASE UNCHANGED stack
    BY <1>1, <1>3, <2>1 DEF Unmount
  <2>2. CASE Attached(mem[k].target) /\ Pop(mem[k].target)
    <3>1. mem[k].target \in Targets
      BY <1>3, PinnedHasRecord DEF Unmount, StateOK, MountRecord
    <3> QED
      BY <1>3, <2>2, <3>1, AttachedTop, GrowsByUnmount DEF Unmount
  <2> QED
    BY <1>3, <2>1, <2>2 DEF Unmount
<1>4. CASE Rollback
  <2> DEFINE t == conf[step.key].target
  <2>1. t \in Targets
    BY <1>4, MakingType DEF Rollback, Making
  <2>2. CASE Attached(t)
    BY <1>4, <2>1, <2>2, AttachedTop, GrowsByUnmount DEF Rollback
  <2>3. CASE ~Attached(t)
    BY <1>1, <1>4, <2>3 DEF Rollback
  <2> QED
    BY <2>2, <2>3
<1>5. ASSUME NEW t \in Targets, ForeignUnmount(t) PROVE Grows
  BY <1>5, GrowsByUnmount DEF ForeignUnmount
<1>6. ASSUME NEW t \in Targets, LoosenMount(t) PROVE Grows
  <2> DEFINE m == [Top(t) EXCEPT !.attrs = {}]
  <2>1. /\ AllMounts' \subseteq AllMounts \cup {m}
        /\ Top(t) \in AllMounts /\ Top(t) \in Mount
        /\ UNCHANGED nextUnique
    BY <1>6, LoosenKernel DEF LoosenMount
  <2>2. m.unique = Top(t).unique /\ m.by = Top(t).by
    BY <2>1 DEF Mount
  <2> QED
    BY <2>1, <2>2, GrowsByNone
<1>7. ASSUME NEW t \in Targets, NEW d \in DevInos, ForeignMount(t, d) PROVE Grows
  <2>1. PICK m \in Mount : m.unique = nextUnique /\ AllMounts' = AllMounts \cup {m}
    BY <1>7, ForeignMountKernel
  <2> QED
    BY <1>7, <2>1, GrowsByOne DEF ForeignMount
<1>8. ~Reboot
  BY DEF Reboot, Disturbance
<1>9. ASSUME \/ Restart \/ ScanMembership \/ ResolveSources \/ InspectAndPlan \/ SaveSucceeds
             \/ Crash \/ LoseStateFile \/ UNCHANGED vars
             \/ VerifyRollback \/ RollbackFails \/ \E late \in BOOLEAN : SaveFails(late)
      PROVE  UNCHANGED <<stack, nextUnique>>
  BY <1>9 DEF Restart, ScanMembership, ResolveSources, InspectAndPlan, SaveSucceeds,
         Crash, LoseStateFile, VerifyRollback, RollbackFails, SaveFails, vars, kernel
<1>10. ASSUME NEW k \in Keys, \/ SkipMount(k) \/ ResolveMount(k) \/ Drop(k)
                              \/ AttachFails(k) \/ UnmountFails(k) \/ ToggleMember(k)
                              \/ VerifyRemoval(k)
       PROVE  UNCHANGED <<stack, nextUnique>>
  BY <1>10 DEF SkipMount, ResolveMount, Drop, AttachFails, UnmountFails, ToggleMember,
         VerifyRemoval, kernel
<1>11. ASSUME \/ \E saved \in BOOLEAN : Shutdown(saved)
              \/ \E c \in Configs : Reconfigure(c)
              \/ \E g \in Groups : ToggleReadable(g)
              \/ \E s \in Sources, d \in DevInos \cup {Gone} : ChangeSource(s, d)
              \/ \E t \in Targets : ToggleBlocked(t)
       PROVE  UNCHANGED <<stack, nextUnique>>
  BY <1>11 DEF Shutdown, Reconfigure, ToggleReadable, ChangeSource, ToggleBlocked, kernel
<1> QED
  BY <1>1, <1>2, <1>3, <1>4, <1>5, <1>6, <1>7, <1>8, <1>9, <1>10, <1>11
     DEF Next, Daemon, Failure, Environment

\* What was byssus's own stays its own.
LEMMA OwnGrows ==
    ASSUME NEW id, nextUnique \in Nat, Grows, Own(id)
    PROVE  /\ id.unique \in 1..(nextUnique' - 1)
           /\ \A m \in AllMounts' : m.by = Foreign => m.unique # id.unique
<1>1. id.unique \in Nat /\ id.unique < nextUnique /\ nextUnique \in Nat
  BY DEF Own
<1>2. ASSUME NEW m \in AllMounts', m.by = Foreign PROVE m.unique # id.unique
  <2>1. CASE m.unique >= nextUnique
    BY <1>1, <2>1
  <2>2. CASE \E n \in AllMounts : n.by = Foreign /\ n.unique = m.unique
    BY <2>2 DEF Own
  <2> QED
    BY <1>2, <2>1, <2>2 DEF Grows
<1> QED
  BY <1>1, <1>2 DEF Own, Grows

\* Where the records of the next state come from.
LEMMA RecordsFrom ==
    ASSUME TypeOK, [Next]_vars, NEW k \in Keys
    PROVE  /\ \/ mem'[k] \in {NoRecord, mem[k], disk[k]}
              \/ pc = "save" /\ step.op = "mount" /\ k = step.key /\ mem'[k] = step.previous
              \/ AttachMount(k) /\ mem'[k] = RecordOf(k, NewMount(k, step.root))
           /\ disk'[k] \in {NoRecord, disk[k], mem[k]}
           /\ pc' = "save" /\ step'.op = "mount" =>
                \/ pc = "save" /\ step' = step
                \/ \E j \in Keys : AttachMount(j)
           /\ pc' = "rollback" =>
                \/ pc = "rollback" /\ step' = step
                \/ /\ pc = "save" /\ step.op = "mount"
                   /\ step'.identity = step.identity /\ step'.key = step.key
<1>0. /\ mem \in [Keys -> MountRecord \cup {NoRecord}]
      /\ disk \in [Keys -> MountRecord \cup {NoRecord}]
      /\ pc = "save" => step.op \in {"mount", "remove"}
  BY DEF TypeOK, StateOK, StepOK
<1>1. CASE UNCHANGED <<mem, disk>> /\ (UNCHANGED step \/ step' = NoStep \/ step'.op = "attach")
                                   /\ (pc' = "save" => pc = "save") /\ pc' # "rollback"
  BY <1>1 DEF NoStep
<1>2. CASE UNCHANGED vars \/ Environment
  <2>1. /\ UNCHANGED <<mem, pc, step>>
        /\ disk' = disk \/ disk' = NoRecords
    BY <1>2 DEF vars, Environment, Reconfigure, ToggleMember, ToggleReadable, ChangeSource,
       ToggleBlocked, ForeignUnmount, LoosenMount, ForeignMount, Reboot, LoseStateFile, Others
  <2> QED
    BY <2>1 DEF NoRecords
<1>3. CASE Restart \/ ScanMembership \/ ResolveSources \/ InspectAndPlan
  BY <1>3 DEF Restart, ScanMembership, ResolveSources, InspectAndPlan
<1>4. ASSUME NEW j \in Keys, \/ SkipMount(j) \/ ResolveMount(j) \/ AttachFails(j)
                             \/ UnmountFails(j) \/ AttachUnidentified(j)
      PROVE  /\ UNCHANGED <<mem, disk>>
             /\ step' = NoStep \/ step'.op = "attach"
             /\ pc' \notin {"save", "rollback"}
  BY <1>4 DEF SkipMount, ResolveMount, AttachFails, UnmountFails, AttachUnidentified, Finish
<1>5. ASSUME NEW j \in Keys, AttachMount(j)
      PROVE  /\ disk' = disk
             /\ mem'[k] = IF k = j THEN RecordOf(j, NewMount(j, step.root)) ELSE mem[k]
             /\ pc' # "rollback"
  BY <1>0, <1>5 DEF AttachMount
<1>6. ASSUME NEW j \in Keys, Unmount(j) \/ Drop(j)
      PROVE  /\ disk' = disk
             /\ mem' = mem \/ mem' = [mem EXCEPT ![j] = NoRecord]
             /\ step'.op # "mount" \/ pc' # "save"
             /\ pc' # "rollback"
  BY <1>6 DEF Unmount, Drop, Finish
<1>7. CASE SaveSucceeds
  BY <1>7 DEF SaveSucceeds, Finish
<1>8. ASSUME NEW late \in BOOLEAN, SaveFails(late)
      PROVE  /\ disk' = mem \/ disk' = disk
             /\ \/ mem' = mem
                \/ /\ pc = "save" /\ step.op = "mount"
                   /\ mem' = [mem EXCEPT ![step.key] = step.previous]
             /\ pc' # "save"
             /\ pc' = "rollback" => /\ pc = "save" /\ step.op = "mount"
                                    /\ step'.identity = step.identity
                                    /\ step'.key = step.key
  <2>1. pc = "save"
    BY <1>8 DEF SaveFails
  <2>2. CASE step.op = "remove"
    BY <1>8, <2>1, <2>2 DEF SaveFails, Finish
  <2>3. CASE step.op # "remove"
    <3>1. step' = [op |-> "rollback", key |-> step.key, identity |-> step.identity,
                   unique |-> step.unique]
      BY <1>8, <2>3 DEF SaveFails
    <3> QED
      BY <1>0, <1>8, <2>1, <2>3, <3>1 DEF SaveFails
  <2> QED
    BY <2>2, <2>3
<1>9. ASSUME Crash \/ \E saved \in BOOLEAN : Shutdown(saved)
      PROVE  mem' = NoRecords /\ (disk' = disk \/ disk' = mem) /\ pc' \notin {"save", "rollback"}
  BY <1>9 DEF Crash, Shutdown, Dies
<1>10. NoRecords[k] = NoRecord
  BY DEF NoRecords
<1>11. ASSUME NEW j \in Keys, VerifyRemoval(j)
       PROVE  UNCHANGED <<mem, disk>> /\ pc' \notin {"save", "rollback"}
  BY <1>11 DEF VerifyRemoval, Finish
<1>12. ASSUME VerifyRollback \/ Rollback \/ RollbackFails
       PROVE  UNCHANGED <<mem, disk>> /\ pc' \notin {"save", "rollback"}
  <2>1. CASE VerifyRollback
    BY <2>1, VerifyRollbackIs DEF Finish
  <2> QED
    BY <1>12, <2>1 DEF Rollback, RollbackFails, Finish
<1> QED
  <2>1. CASE \E j \in Keys : \/ SkipMount(j) \/ ResolveMount(j) \/ AttachFails(j)
                             \/ UnmountFails(j) \/ AttachUnidentified(j)
    BY <1>4, <2>1 DEF NoStep
  <2>2. CASE \E j \in Keys : AttachMount(j)
    BY <1>5, <2>2
  <2>3. CASE \E j \in Keys : Unmount(j) \/ Drop(j)
    BY <1>0, <1>6, <2>3
  <2>4. CASE \E late \in BOOLEAN : SaveFails(late)
    BY <1>0, <1>8, <2>4
  <2>5. CASE Crash \/ \E saved \in BOOLEAN : Shutdown(saved)
    BY <1>9, <1>10, <2>5
  <2>6. CASE \/ VerifyRollback \/ Rollback \/ RollbackFails
             \/ \E j \in Keys : VerifyRemoval(j)
    BY <1>11, <1>12, <2>6
  <2> QED
    BY <1>2, <1>3, <1>7, <2>1, <2>2, <2>3, <2>4, <2>5, <2>6 DEF Next, Daemon, Failure

\* What statx reports of a mount made just now is the identity of a new mount.
LEMMA NewIsOwn ==
    ASSUME UniqueSupported, TypeOK, RemovalsComeFirst, "reboot" \notin Allowed,
           \A n \in AllMounts : n.unique < nextUnique,
           NEW k \in Keys, AttachMount(k)
    PROVE  LET id == ReadIdentity(NewMount(k, step.root))
           IN  /\ id.unique \in 1..(nextUnique' - 1)
               /\ \A m \in AllMounts' : m.by = Foreign => m.unique # id.unique
<1> DEFINE m == NewMount(k, step.root)
<1>1. step.root \in DevInos /\ FreeIds # {}
  BY AttachInHand DEF AttachMount, TypeOK
<1>2. m \in Mount /\ m.unique = nextUnique /\ m.by = k
  BY <1>1, NewMountType DEF TypeOK
<1>3. Push(conf[k].target, m) /\ nextUnique' = nextUnique + 1
  BY DEF AttachMount
<1>4. AllMounts' = AllMounts \cup {m}
  BY <1>2, <1>3, ConfType, PushKernel DEF DesiredMount, TypeOK
<1>5. ReadIdentity(m).unique = nextUnique
  BY <1>2 DEF ReadIdentity
<1>6. nextUnique \in Nat \ {0} /\ \A n \in AllMounts : n.unique \in Nat
  BY MountsTyped DEF Mount, KernelOK, TypeOK
<1>7. k # Foreign
  BY ReconcilerAssumption
<1> QED
  BY <1>2, <1>3, <1>4, <1>5, <1>6, <1>7

(***************************************************************************)
(* Records name byssus's own mounts.                                       *)
(***************************************************************************)

\* With what the kernel reports, a record of an own mount stays one.
LEMMA OwnStep ==
    ASSUME UniqueSupported, "reboot" \notin Allowed,
           TypeOK, RemovalsComeFirst, RecordsNameOwnMounts, [Next]_vars
    PROVE  RecordsNameOwnMounts'
<1> DEFINE OwnNext(id) == /\ id.unique \in 1..(nextUnique' - 1)
                          /\ \A m \in AllMounts' : m.by = Foreign => m.unique # id.unique
<1>1. /\ nextUnique \in Nat
      /\ \A n \in AllMounts : n.unique < nextUnique
      /\ NoRecord \notin MountRecord
  BY NoRecordIsNone DEF TypeOK, KernelOK, RecordsNameOwnMounts
<1>2. Grows
  BY <1>1, GrowsStep
<1>3. ASSUME NEW id, Own(id) PROVE OwnNext(id)
  BY <1>1, <1>2, <1>3, OwnGrows
<1>4. ASSUME NEW k \in Keys, AttachMount(k)
      PROVE  OwnNext(ReadIdentity(NewMount(k, step.root)))
  BY <1>1, <1>4, NewIsOwn
<1>5. ASSUME NEW k \in Keys, mem'[k] # NoRecord PROVE OwnNext(mem'[k].identity)
  <2>1. CASE mem'[k] = mem[k]
    BY <1>3, <1>5, <2>1 DEF RecordsNameOwnMounts
  <2>2. CASE mem'[k] = disk[k]
    BY <1>3, <1>5, <2>2 DEF RecordsNameOwnMounts
  <2>3. CASE pc = "save" /\ step.op = "mount" /\ mem'[k] = step.previous
    BY <1>3, <1>5, <2>3 DEF RecordsNameOwnMounts
  <2>4. CASE AttachMount(k) /\ mem'[k] = RecordOf(k, NewMount(k, step.root))
    <3>1. mem'[k].identity = ReadIdentity(NewMount(k, step.root))
      BY <2>4 DEF RecordOf
    <3> QED
      BY <1>4, <2>4, <3>1
  <2> QED
    BY <1>5, <2>1, <2>2, <2>3, <2>4, RecordsFrom
<1>6. ASSUME NEW k \in Keys, disk'[k] # NoRecord PROVE OwnNext(disk'[k].identity)
  <2>1. disk'[k] = disk[k] \/ disk'[k] = mem[k]
    BY <1>6, RecordsFrom
  <2> QED
    BY <1>3, <1>6, <2>1 DEF RecordsNameOwnMounts
<1>9. ASSUME pc' = "rollback" PROVE OwnNext(step'.identity)
  <2>1. /\ pc = "rollback" => step.op = "rollback"
        /\ \/ pc = "rollback" /\ step' = step
           \/ pc = "save" /\ step.op = "mount" /\ step'.identity = step.identity
    <3>1. \E k \in Keys : TRUE
      <4>1. StepOK' /\ step'.op = "rollback"
        BY <1>9, TypeStep DEF TypeOK, StepOK
      <4>2. step'.key \in Keys
        BY <4>1 DEF StepOK, StepType, NoStep
      <4> QED
        BY <4>2
    <3> QED
      BY <1>9, <3>1, RecordsFrom DEF TypeOK, StepOK
  <2>2. Own(step.identity)
    BY <2>1 DEF RecordsNameOwnMounts
  <2>3. OwnNext(step.identity) /\ step'.identity = step.identity
    BY <1>3, <2>1, <2>2
  <2> QED
    BY <2>3
<1>10. /\ step'.op = "mount" => pc' = "save"
       /\ step'.op = "rollback" => pc' = "rollback"
  BY TypeStep DEF TypeOK, StepOK
<1>7. ASSUME pc' = "save", step'.op = "mount"
      PROVE  /\ OwnNext(step'.identity)
             /\ step'.previous # NoRecord => OwnNext(step'.previous.identity)
  <2>1. CASE pc = "save" /\ step' = step
    BY <1>3, <1>7, <2>1 DEF RecordsNameOwnMounts
  <2>2. ASSUME NEW j \in Keys, AttachMount(j)
        PROVE  /\ OwnNext(step'.identity)
               /\ step'.previous # NoRecord => OwnNext(step'.previous.identity)
    <3>1. /\ step'.identity = ReadIdentity(NewMount(j, step.root))
          /\ step'.previous = mem[j]
      BY <2>2 DEF AttachMount
    <3>2. mem[j] # NoRecord => OwnNext(mem[j].identity)
      BY <1>3 DEF RecordsNameOwnMounts
    <3> QED
      BY <1>4, <2>2, <3>1, <3>2
  <2>3. \/ pc = "save" /\ step' = step
        \/ \E j \in Keys : AttachMount(j)
    <3>1. StepOK'
      BY TypeStep DEF TypeOK
    <3>2. step'.key \in Keys
      BY <1>7, <3>1 DEF StepOK, StepType, NoStep
    <3> QED
      BY <1>7, <3>2, RecordsFrom
  <2> QED
    BY <2>1, <2>2, <2>3
<1>8. \A m \in AllMounts' : m.unique < nextUnique'
  BY <1>2 DEF Grows
<1> QED
  BY <1>5, <1>6, <1>7, <1>8, <1>9, <1>10 DEF RecordsNameOwnMounts, Own

\* Whatever others mount, unmount or remount, and wherever byssus crashes, no record
\* names a foreign mount, as long as the kernel never hands out a unique ID twice.
THEOREM RecordsOwn ==
    ASSUME UniqueSupported, "reboot" \notin Allowed
    PROVE  Spec => []RecordsNameOwnMounts
<1>1. Init => RecordsNameOwnMounts
  <2>1. Init => AllMounts = {}
    BY DEF Init, AllMounts, Mounts
  <2> QED
    BY <2>1 DEF Init, RecordsNameOwnMounts, NoRecords, NoStep
<1>2. TypeOK /\ RemovalsComeFirst /\ RecordsNameOwnMounts /\ [Next]_vars
        => RecordsNameOwnMounts'
  BY OwnStep
<1> QED
  BY <1>1, <1>2, TypeCorrect, RemovalsFirst, PTL DEF Spec

(***************************************************************************)
(* Only byssus's own mounts are removed.                                   *)
(***************************************************************************)

\* With unique IDs, what matches the identity of an own mount is that mount.
LEMMA MatchIsSame ==
    ASSUME UniqueSupported, NEW t \in Targets, NEW identity,
           OpenVerified(t, identity), Own(identity), Top(t).unique \in Nat \ {0},
           nextUnique \in Nat
    PROVE  Top(t).unique = identity.unique
<1>1. identity.unique # NoUnique /\ Top(t).unique # NoUnique
  BY DEF Own, NoUnique
<1>2. ReadIdentity(Top(t)).unique = Top(t).unique
  BY DEF ReadIdentity
<1> QED
  BY <1>1, <1>2 DEF OpenVerified, Matches

\* What is pinned is a mount of byssus, and stays one if others unmount it.
PinnedOwn == pc = "umount" => Own([unique |-> step.pinned])

\* Where a pinned mount comes from.
LEMMA PinnedFrom ==
    ASSUME TypeOK, RemovalsComeFirst, [Next]_vars, pc' = "umount"
    PROVE  \/ /\ pc = "umount" /\ UNCHANGED <<mem, conf, pc, todo, step>>
              /\ nextUnique' \in {nextUnique, nextUnique + 1}
           \/ /\ UNCHANGED <<stack, nextUnique, mem, conf>>
              /\ \/ \E k \in Keys :
                       /\ mem[k] # NoRecord /\ mem[k].target \in Targets
                       /\ OpenVerified(mem[k].target, mem[k].identity)
                       /\ VerifyRemoval(k)
                       /\ step' = [op |-> "unmount", key |-> k,
                                   pinned |-> Top(mem[k].target).unique]
                 \/ /\ step.op = "rollback" /\ conf[step.key].target \in Targets
                    /\ OpenVerified(conf[step.key].target, step.identity)
                    /\ VerifyRollback
                    /\ step' = [op |-> "undo", key |-> step.key, unique |-> step.unique,
                                pinned |-> Top(conf[step.key].target).unique]
<1> USE DEF TypeOK
<1>1. ASSUME NEW k \in Keys, VerifyRemoval(k)
      PROVE  /\ step' = [op |-> "unmount", key |-> k, pinned |-> Top(mem[k].target).unique]
             /\ OpenVerified(mem[k].target, mem[k].identity)
             /\ mem[k] # NoRecord /\ mem[k].target \in Targets
             /\ UNCHANGED <<stack, nextUnique, mem, conf>>
  <2>1. OpenVerified(mem[k].target, mem[k].identity)
    BY <1>1 DEF VerifyRemoval, Finish
  <2>2. step' = [op |-> "unmount", key |-> k, pinned |-> Top(mem[k].target).unique]
    BY <1>1, <2>1 DEF VerifyRemoval
  <2>3. mem[k] # NoRecord
    BY <1>1, RemovalHasRecord DEF VerifyRemoval
  <2>4. mem[k].target \in Targets
    BY <2>3 DEF StateOK, MountRecord
  <2> QED
    BY <1>1, <2>1, <2>2, <2>3, <2>4 DEF VerifyRemoval, kernel, world
<1>2. CASE VerifyRollback
  <2> DEFINE t == conf[step.key].target
  <2>1. step.op = "rollback" /\ t \in Targets
    BY <1>2, MakingType DEF VerifyRollback, StepOK, Making
  <2>2. /\ OpenVerified(t, step.identity)
        /\ step' = [op |-> "undo", key |-> step.key, unique |-> step.unique,
                    pinned |-> Top(t).unique]
    BY <1>2, VerifyRollbackIs DEF Finish
  <2> QED
    BY <1>2, <2>1, <2>2 DEF VerifyRollback, kernel, world
<1>3. CASE Environment \/ UNCHANGED vars
  <2>1. UNCHANGED <<mem, pc, todo, step>> /\ pc = "umount"
    BY <1>3 DEF Environment, Reconfigure, ToggleMember, ToggleReadable, ChangeSource,
         ToggleBlocked, ForeignUnmount, LoosenMount, ForeignMount, Reboot, LoseStateFile,
         Others, pass, vars
  <2>2. UNCHANGED conf /\ nextUnique' \in {nextUnique, nextUnique + 1}
    BY <1>3, <2>1 DEF Environment, Reconfigure, ToggleMember, ToggleReadable, ChangeSource,
         ToggleBlocked, ForeignUnmount, LoosenMount, ForeignMount, Reboot, LoseStateFile,
         world, kernel, vars
  <2> QED
    BY <2>1, <2>2
<1>4. ~(\/ Restart \/ ScanMembership \/ ResolveSources \/ InspectAndPlan \/ SaveSucceeds
        \/ Crash \/ Rollback \/ RollbackFails
        \/ \E saved \in BOOLEAN : Shutdown(saved))
  BY DEF Restart, ScanMembership, ResolveSources, InspectAndPlan, SaveSucceeds, Crash,
     Rollback, RollbackFails, Shutdown, Dies, Finish
<1>5. ~(\/ \E late \in BOOLEAN : SaveFails(late)
        \/ \E k \in Keys : \/ SkipMount(k) \/ ResolveMount(k) \/ Drop(k) \/ Unmount(k)
                           \/ AttachMount(k) \/ AttachUnidentified(k)
                           \/ AttachFails(k) \/ UnmountFails(k))
  BY DEF SaveFails, SkipMount, ResolveMount, Drop, Unmount, AttachMount, AttachUnidentified,
     AttachFails, UnmountFails, Finish
<1> QED
  BY <1>1, <1>2, <1>3, <1>4, <1>5 DEF Next, Daemon, Failure

\* The check lets only own mounts pass, and what others do makes no mount foreign.
LEMMA PinnedStep ==
    ASSUME UniqueSupported, "reboot" \notin Allowed,
           TypeOK, RemovalsComeFirst, RecordsNameOwnMounts, PinnedOwn, [Next]_vars
    PROVE  PinnedOwn'
<1> DEFINE id == [unique |-> step'.pinned]
<1> SUFFICES ASSUME pc' = "umount"
             PROVE  /\ id.unique \in 1..(nextUnique' - 1)
                    /\ \A m \in AllMounts' : m.by = Foreign => m.unique # id.unique
  BY DEF PinnedOwn, Own
<1>1. /\ nextUnique \in Nat
      /\ \A n \in AllMounts : n.unique < nextUnique
  BY DEF TypeOK, KernelOK, RecordsNameOwnMounts
<1>2. Grows
  BY <1>1, GrowsStep
<1>3. Own(id)
  <2>1. CASE pc = "umount" /\ step' = step
    BY <2>1 DEF PinnedOwn
  <2>2. ASSUME NEW t \in Targets, NEW identity,
               step'.pinned = Top(t).unique, OpenVerified(t, identity),
               \/ \E k \in Keys : mem[k] # NoRecord /\ identity = mem[k].identity
               \/ step.op = "rollback" /\ identity = step.identity
        PROVE  Own(id)
    <3>1. Own(identity)
      BY <2>2 DEF RecordsNameOwnMounts
    <3>2. Top(t).unique \in Nat \ {0}
      BY <2>2, TopTyped DEF OpenVerified, TypeOK
    <3>3. Top(t).unique = identity.unique
      BY <1>1, <2>2, <3>1, <3>2, MatchIsSame
    <3> QED
      BY <2>2, <3>1, <3>3 DEF Own
  <2>3. CASE \E k \in Keys :
                 /\ mem[k] # NoRecord /\ mem[k].target \in Targets
                 /\ OpenVerified(mem[k].target, mem[k].identity)
                 /\ step' = [op |-> "unmount", key |-> k, pinned |-> Top(mem[k].target).unique]
    <3>1. PICK k \in Keys :
                 /\ mem[k] # NoRecord /\ mem[k].target \in Targets
                 /\ OpenVerified(mem[k].target, mem[k].identity)
                 /\ step' = [op |-> "unmount", key |-> k, pinned |-> Top(mem[k].target).unique]
      BY <2>3
    <3> QED
      BY <2>2, <3>1
  <2>4. CASE /\ step.op = "rollback" /\ conf[step.key].target \in Targets
             /\ OpenVerified(conf[step.key].target, step.identity)
             /\ step' = [op |-> "undo", key |-> step.key, unique |-> step.unique,
                         pinned |-> Top(conf[step.key].target).unique]
    BY <2>2, <2>4
  <2> QED
    BY <2>1, <2>3, <2>4, PinnedFrom
<1> QED
  BY <1>1, <1>2, <1>3, OwnGrows

\* What umount2 takes away: the pinned mount, or one that was stacked on it.
LEMMA TakenDown ==
    ASSUME KernelOK, RecordsNameOwnMounts, PinnedOwn, pc = "umount",
           NEW t \in Targets, Attached(t), Pop(t), UNCHANGED nextUnique
    PROVE  \A u \in Targets :
              stack[u] # <<>> /\ stack'[u] = Tail(stack[u])
                => Top(u).by # Foreign \/ StackedSince(u)
<1>1. stack[t] # <<>>
  BY AttachedTop
<1>2. /\ Top(t) \in AllMounts
      /\ \A u \in Targets : stack[u] # <<>> /\ stack'[u] = Tail(stack[u]) => u = t
  BY <1>1, PopKernel
<1>3. PICK m \in Mounts(t) : m.unique = step.pinned
  BY DEF Attached
<1>4. \A n \in AllMounts : n.by = Foreign => n.unique # step.pinned
  BY DEF PinnedOwn, Own
<1>5. m \in AllMounts
  BY DEF AllMounts
<1>6. m.by # Foreign
  BY <1>3, <1>4, <1>5
<1>7. Top(t).unique = step.pinned => Top(t).by # Foreign
  BY <1>2, <1>4
<1> QED
  BY <1>2, <1>3, <1>6, <1>7 DEF StackedSince

LEMMA RemovedIsOwn ==
    ASSUME TypeOK, RemovalsComeFirst, RecordsNameOwnMounts, PinnedOwn, Daemon \/ Failure,
           NEW u \in Targets, stack[u] # <<>>, stack'[u] = Tail(stack[u])
    PROVE  Top(u).by # Foreign \/ StackedSince(u)
<1> USE DEF TypeOK
<1>1. ~UNCHANGED <<stack, nextUnique>>
  BY SameKernel
<1>2. ASSUME NEW k \in Keys, AttachMount(k) \/ AttachUnidentified(k) PROVE FALSE
  <2> DEFINE m == NewMount(k, step.root)
  <2>1. step.root \in DevInos /\ FreeIds # {}
    BY <1>2, AttachInHand DEF AttachMount, AttachUnidentified
  <2>2. m \in Mount
    BY <2>1, NewMountType
  <2>3. Push(conf[k].target, m) /\ nextUnique' = nextUnique + 1
    BY <1>2 DEF AttachMount, AttachUnidentified
  <2> QED
    BY <2>2, <2>3, ConfType, PushKernel DEF DesiredMount
<1>3. ASSUME NEW k \in Keys, Unmount(k) PROVE Top(u).by # Foreign \/ StackedSince(u)
  <2>1. mem[k].target \in Targets
    BY <1>3, PinnedHasRecord DEF Unmount, StateOK, MountRecord
  <2>2. Attached(mem[k].target) /\ Pop(mem[k].target)
    BY <1>1, <1>3 DEF Unmount
  <2> QED
    BY <1>3, <2>1, <2>2, TakenDown DEF Unmount
<1>4. ASSUME Rollback PROVE Top(u).by # Foreign \/ StackedSince(u)
  <2> DEFINE t == conf[step.key].target
  <2>1. t \in Targets
    BY <1>4, MakingType DEF Rollback, Making
  <2>2. Attached(t) /\ Pop(t)
    BY <1>1, <1>4 DEF Rollback
  <2> QED
    BY <1>4, <2>1, <2>2, TakenDown DEF Rollback
<1>5. ASSUME \/ Restart \/ ScanMembership \/ ResolveSources \/ InspectAndPlan \/ SaveSucceeds
             \/ Crash \/ VerifyRollback \/ RollbackFails
             \/ \E saved \in BOOLEAN : Shutdown(saved)
             \/ \E late \in BOOLEAN : SaveFails(late)
             \/ \E k \in Keys : \/ SkipMount(k) \/ ResolveMount(k) \/ VerifyRemoval(k) \/ Drop(k)
                                \/ AttachFails(k) \/ UnmountFails(k)
      PROVE  UNCHANGED <<stack, nextUnique>>
  BY <1>5 DEF Restart, ScanMembership, ResolveSources, InspectAndPlan, SaveSucceeds, Crash,
         VerifyRollback, RollbackFails, Shutdown, SaveFails, SkipMount, ResolveMount,
         VerifyRemoval, Drop, AttachFails, UnmountFails, kernel
<1> QED
  BY <1>1, <1>2, <1>3, <1>4, <1>5 DEF Daemon, Failure

\* Byssus never unmounts a mount it did not make, unless somebody stacks one on the mount
\* it is about to unmount: if the kernel reports unique mount IDs and never hands one out
\* twice, which it does across a reboot.
THEOREM OnlyOwnMounts ==
    ASSUME UniqueSupported, "reboot" \notin Allowed
    PROVE  Spec => OnlyOwnMountsRemoved
<1> DEFINE Inv == TypeOK /\ RemovalsComeFirst /\ RecordsNameOwnMounts /\ PinnedOwn
           Removal(t) == WriterMoves /\ stack[t] # <<>> /\ stack'[t] = Tail(stack[t])
                           => Top(t).by # Foreign \/ StackedSince(t)
<1>1. Spec => []Inv
  <2>1. Init => PinnedOwn
    BY DEF Init, PinnedOwn
  <2>2. TypeOK /\ RemovalsComeFirst /\ RecordsNameOwnMounts /\ PinnedOwn /\ [Next]_vars
          => PinnedOwn'
    BY PinnedStep
  <2> QED
    BY <2>1, <2>2, TypeCorrect, RemovalsFirst, RecordsOwn, PTL DEF Spec
<1>2. ASSUME Inv, [Next]_vars, ~UNCHANGED vars, NEW t \in Targets PROVE Removal(t)
  <2>1. Environment => ~WriterMoves
    BY DEF Environment, WriterMoves, Reconfigure, ToggleMember, ToggleReadable, ChangeSource,
       ToggleBlocked, ForeignUnmount, LoosenMount, ForeignMount, Reboot, LoseStateFile, Others,
       pass
  <2> QED
    BY <1>2, <2>1, RemovedIsOwn DEF Next
<1>3. Inv /\ [Next]_vars => [\A t \in Targets : Removal(t)]_vars
  BY <1>2
<1> QED
  BY <1>1, <1>3, PTL DEF Spec, OnlyOwnMountsRemoved

(***************************************************************************)
(* No two mounts are alike, and byssus has one on a target at most.        *)
(***************************************************************************)

\* Mounts in different places have different IDs.
Distinct(m, n) == m.mnt_id # n.mnt_id /\ m.unique # n.unique

\* Mounts on one stack, of which one at most is byssus's.
Apart(m, n) == Distinct(m, n) /\ (m.by = Foreign \/ n.by = Foreign)

StackApart(s) == \A i, j \in DOMAIN s : i # j => Apart(s[i], s[j])

StacksApart ==
    /\ \A t \in Targets : StackApart(stack[t])
    /\ \A t, u \in Targets : \A m \in Mounts(t), n \in Mounts(u) : t # u => Distinct(m, n)
    /\ \A m \in AllMounts : m.unique < nextUnique

\* On a stack with a mount more.
LEMMA PushedApart ==
    ASSUME NEW s \in Seq(Mount), NEW m \in Mount, StackApart(s),
           \A n \in RangeOf(s) : Apart(m, n)
    PROVE  StackApart(<<m>> \o s)
<1> DEFINE p == <<m>> \o s
<1>1. /\ Len(s) \in Nat /\ DOMAIN s = 1..Len(s)
      /\ <<m>> \in Seq(Mount) /\ Len(<<m>>) = 1 /\ <<m>>[1] = m
  BY LenProperties
<1>2. /\ p \in Seq(Mount) /\ Len(p) = Len(s) + 1
      /\ \A i \in 1..(1 + Len(s)) : p[i] = IF i <= 1 THEN m ELSE s[i - 1]
  BY <1>1, ConcatProperties
<1>3. DOMAIN p = 1..(1 + Len(s))
  BY <1>1, <1>2, LenProperties
<1>4. ASSUME NEW i \in DOMAIN p, NEW j \in DOMAIN p, i # j PROVE Apart(p[i], p[j])
  <2>1. \A n \in RangeOf(s) : Apart(n, m)
    BY DEF Apart, Distinct
  <2>2. CASE i = 1
    <3>1. p[i] = m /\ j - 1 \in DOMAIN s /\ p[j] = s[j - 1]
      BY <1>1, <1>2, <1>3, <1>4, <2>2
    <3>2. s[j - 1] \in RangeOf(s)
      BY <3>1 DEF RangeOf
    <3> QED
      BY <3>1, <3>2
  <2>3. CASE j = 1
    <3>1. p[j] = m /\ i - 1 \in DOMAIN s /\ p[i] = s[i - 1]
      BY <1>1, <1>2, <1>3, <1>4, <2>3
    <3>2. s[i - 1] \in RangeOf(s)
      BY <3>1 DEF RangeOf
    <3> QED
      BY <2>1, <3>1, <3>2
  <2>4. CASE i # 1 /\ j # 1
    <3>1. /\ i - 1 \in DOMAIN s /\ j - 1 \in DOMAIN s /\ i - 1 # j - 1
          /\ p[i] = s[i - 1] /\ p[j] = s[j - 1]
      BY <1>1, <1>2, <1>3, <1>4, <2>4
    <3> QED
      BY <3>1 DEF StackApart
  <2> QED
    BY <2>2, <2>3, <2>4
<1> QED
  BY <1>4 DEF StackApart

\* On a stack with a mount less, and of the mount taken from it.
LEMMA PoppedApart ==
    ASSUME NEW s \in Seq(Mount), s # <<>>, StackApart(s)
    PROVE  /\ StackApart(Tail(s))
           /\ \A n \in RangeOf(Tail(s)) : Apart(Head(s), n)
           /\ RangeOf(s) = RangeOf(Tail(s)) \cup {Head(s)}
<1>1. /\ Tail(s) \in Seq(Mount)
      /\ Len(Tail(s)) = Len(s) - 1
      /\ \A i \in 1..Len(Tail(s)) : Tail(s)[i] = s[i + 1]
  BY HeadTailProperties
<1>2. /\ Len(s) \in Nat \ {0} /\ DOMAIN s = 1..Len(s)
      /\ DOMAIN Tail(s) = 1..(Len(s) - 1) /\ Head(s) = s[1]
  BY <1>1, EmptySeq, LenProperties
<1>3. \A i \in DOMAIN Tail(s) : i + 1 \in DOMAIN s /\ i + 1 # 1 /\ Tail(s)[i] = s[i + 1]
  BY <1>1, <1>2
<1>4. StackApart(Tail(s))
  <2> SUFFICES ASSUME NEW i \in DOMAIN Tail(s), NEW j \in DOMAIN Tail(s), i # j
               PROVE  Apart(Tail(s)[i], Tail(s)[j])
    BY DEF StackApart
  <2>1. i + 1 # j + 1
    BY <1>2
  <2> QED
    BY <1>3, <2>1 DEF StackApart
<1>5. ASSUME NEW n \in RangeOf(Tail(s)) PROVE Apart(Head(s), n)
  <2>1. PICK i \in DOMAIN Tail(s) : n = Tail(s)[i]
    BY DEF RangeOf
  <2>2. 1 \in DOMAIN s
    BY <1>2
  <2> QED
    BY <1>2, <1>3, <2>1, <2>2 DEF StackApart
<1>6. ASSUME NEW n \in RangeOf(s) PROVE n \in RangeOf(Tail(s)) \cup {Head(s)}
  <2>1. PICK i \in DOMAIN s : n = s[i]
    BY DEF RangeOf
  <2>2. CASE i = 1
    BY <1>2, <2>1, <2>2
  <2>3. CASE i # 1
    <3>1. i - 1 \in 1..Len(Tail(s)) /\ (i - 1) + 1 = i
      BY <1>1, <1>2, <2>3
    <3>2. i - 1 \in DOMAIN Tail(s) /\ n = Tail(s)[i - 1]
      BY <1>1, <1>2, <2>1, <3>1
    <3> QED
      BY <3>2 DEF RangeOf
  <2> QED
    BY <2>2, <2>3
<1>7. RangeOf(Tail(s)) \cup {Head(s)} \subseteq RangeOf(s)
  BY Popped
<1> QED
  BY <1>4, <1>5, <1>6, <1>7

LEMMA MountsIsRange ==
    ASSUME NEW t \in Targets
    PROVE  Mounts(t) = RangeOf(stack[t]) /\ Mounts(t)' = RangeOf(stack'[t])
BY DEF Mounts, RangeOf

\* What a mount ID, a unique ID and a creator tell of a mount.
Twins(m, n) ==
    m.mnt_id = n.mnt_id /\ m.unique = n.unique /\ m.root = n.root /\ m.by = n.by

\* Every mount byssus has on a target after a step was there before.
Survivors ==
    \A t \in Targets : \A m \in Mounts(t)' :
        \/ \E n \in Mounts(t) : Twins(m, n)
        \/ m.by = Foreign /\ m.unique = nextUnique

\* A new mount goes on a stack; if byssus makes it, there is none of byssus on that stack.
LEMMA PushStacks ==
    ASSUME KernelOK, StacksApart, NEW t \in Targets, NEW m \in Mount,
           Push(t, m), nextUnique' = nextUnique + 1, m.unique = nextUnique,
           \A n \in AllMounts : m.mnt_id # n.mnt_id,
           m.by = Foreign \/ \A n \in Mounts(t) : n.by = Foreign
    PROVE  /\ StacksApart'
           /\ \A u \in Targets : Mounts(u)' = IF u = t THEN Mounts(t) \cup {m} ELSE Mounts(u)
<1>1. /\ stack \in [Targets -> Seq(Mount)]
      /\ stack' = [stack EXCEPT ![t] = <<m>> \o stack[t]]
      /\ nextUnique \in Nat
  BY DEF KernelOK, Push
<1>2. RangeOf(<<m>> \o stack[t]) = RangeOf(stack[t]) \cup {m}
  BY <1>1, Pushed
<1>3. \A u \in Targets : stack'[u] = IF u = t THEN <<m>> \o stack[t] ELSE stack[u]
  BY <1>1
<1>4. \A u \in Targets : Mounts(u)' = IF u = t THEN Mounts(t) \cup {m} ELSE Mounts(u)
  BY <1>2, <1>3, MountsIsRange
<1>5. \A n \in AllMounts : Distinct(m, n) /\ Distinct(n, m) /\ n.unique < nextUnique + 1
  <2>1. \A n \in AllMounts : n.unique \in Nat /\ n.unique < nextUnique
    BY MountsTyped DEF StacksApart, Mount
  <2> QED
    BY <1>1, <2>1 DEF Distinct
<1>6. \A u \in Targets : \A n \in Mounts(u) : n \in AllMounts
  BY DEF AllMounts
<1>7. StackApart(<<m>> \o stack[t])
  <2>1. \A n \in RangeOf(stack[t]) : Apart(m, n)
    BY <1>5, <1>6, MountsIsRange DEF Apart
  <2>2. StackApart(stack[t]) /\ stack[t] \in Seq(Mount)
    BY <1>1 DEF StacksApart
  <2> QED
    BY <2>1, <2>2, PushedApart
<1>8. \A u \in Targets : StackApart(stack'[u])
  BY <1>3, <1>7 DEF StacksApart
<1>9. ASSUME NEW u \in Targets, NEW v \in Targets, u # v,
             NEW n \in Mounts(u)', NEW o \in Mounts(v)'
      PROVE  Distinct(n, o)
  <2>1. n \in Mounts(u) \/ (n = m /\ u = t)
    BY <1>4, <1>9
  <2>2. o \in Mounts(v) \/ (o = m /\ v = t)
    BY <1>4, <1>9
  <2> QED
    BY <1>5, <1>6, <1>9, <2>1, <2>2 DEF StacksApart
<1>10. ASSUME NEW n \in AllMounts' PROVE n.unique < nextUnique'
  <2>1. PICK u \in Targets : n \in Mounts(u)'
    BY DEF AllMounts
  <2>2. n \in Mounts(u) \/ n = m
    BY <1>4, <2>1
  <2> QED
    BY <1>1, <1>5, <1>6, <2>2
<1> QED
  BY <1>4, <1>8, <1>9, <1>10 DEF StacksApart

\* Mounts that go leave no trace on their stack.
LEMMA PopStacks ==
    ASSUME KernelOK, StacksApart, NEW t \in Targets, stack[t] # <<>>,
           Pop(t), UNCHANGED nextUnique
    PROVE  /\ StacksApart' /\ Survivors
           /\ \A u \in Targets : Mounts(u)' \subseteq Mounts(u)
           /\ Top(t) \in Mounts(t)
           /\ \A u \in Targets : \A n \in Mounts(u)' : Distinct(Top(t), n)
<1>1. /\ stack \in [Targets -> Seq(Mount)]
      /\ stack' = [stack EXCEPT ![t] = Tail(stack[t])]
  BY DEF KernelOK, Pop
<1>2. /\ StackApart(Tail(stack[t]))
      /\ \A n \in RangeOf(Tail(stack[t])) : Apart(Head(stack[t]), n)
      /\ RangeOf(stack[t]) = RangeOf(Tail(stack[t])) \cup {Head(stack[t])}
  BY <1>1, PoppedApart DEF StacksApart
<1>3. \A u \in Targets : stack'[u] = IF u = t THEN Tail(stack[t]) ELSE stack[u]
  BY <1>1
<1>4. \A u \in Targets : Mounts(u)' \subseteq Mounts(u)
  BY <1>2, <1>3, MountsIsRange
<1>5. Top(t) \in Mounts(t)
  BY <1>2, MountsIsRange DEF Top
<1>6. ASSUME NEW u \in Targets, NEW n \in Mounts(u)' PROVE Distinct(Top(t), n)
  <2>1. CASE u = t
    BY <1>2, <1>3, <1>6, <2>1, MountsIsRange DEF Top, Apart
  <2>2. CASE u # t
    BY <1>4, <1>5, <1>6, <2>2 DEF StacksApart
  <2> QED
    BY <2>1, <2>2
<1>7. \A u \in Targets : StackApart(stack'[u])
  BY <1>2, <1>3 DEF StacksApart
<1>8. \A n \in AllMounts' : n \in AllMounts
  BY <1>4 DEF AllMounts
<1>9. StacksApart'
  BY <1>4, <1>7, <1>8 DEF StacksApart
<1>10. Survivors
  BY <1>4 DEF Survivors, Twins
<1> QED
  BY <1>4, <1>5, <1>6, <1>9, <1>10

\* A mount that loses its restrictions stays what it is.
LEMMA LoosenStacks ==
    ASSUME KernelOK, StacksApart, NEW t \in Targets, stack[t] # <<>>, UNCHANGED nextUnique,
           stack' = [stack EXCEPT ![t] = <<[Top(t) EXCEPT !.attrs = {}]>> \o Tail(@)]
    PROVE  StacksApart' /\ Survivors
<1> DEFINE m == [Top(t) EXCEPT !.attrs = {}]
<1>1. stack \in [Targets -> Seq(Mount)] /\ stack[t] \in Seq(Mount)
  BY DEF KernelOK
<1>2. /\ StackApart(Tail(stack[t]))
      /\ \A n \in RangeOf(Tail(stack[t])) : Apart(Top(t), n)
      /\ RangeOf(stack[t]) = RangeOf(Tail(stack[t])) \cup {Top(t)}
      /\ Tail(stack[t]) \in Seq(Mount) /\ Top(t) \in Mount
  BY <1>1, Popped, PoppedApart DEF StacksApart, Top
<1>3. m \in Mount /\ Twins(m, Top(t))
  BY <1>2 DEF Mount, Twins
<1>4. \A n \in RangeOf(Tail(stack[t])) : Apart(m, n)
  BY <1>2, <1>3 DEF Apart, Distinct, Twins
<1>5. \A u \in Targets : stack'[u] = IF u = t THEN <<m>> \o Tail(stack[t]) ELSE stack[u]
  BY <1>1
<1> HIDE DEF m
<1>6. /\ StackApart(<<m>> \o Tail(stack[t]))
      /\ RangeOf(<<m>> \o Tail(stack[t])) = RangeOf(Tail(stack[t])) \cup {m}
  <2>1. \A r \in Seq(Mount) : /\ RangeOf(<<m>> \o r) = RangeOf(r) \cup {m}
                              /\ StackApart(r) /\ (\A n \in RangeOf(r) : Apart(m, n))
                                   => StackApart(<<m>> \o r)
    BY <1>3, Pushed, PushedApart
  <2> QED
    BY <1>2, <1>4, <2>1
<1>7. \A u \in Targets : StackApart(stack'[u])
  BY <1>6, <1>5 DEF StacksApart
<1>8. ASSUME NEW u \in Targets, NEW n \in Mounts(u)'
      PROVE  \E o \in Mounts(u) : Twins(n, o)
  <2>1. CASE n \in Mounts(u)
    BY <2>1 DEF Twins
  <2>2. CASE n \notin Mounts(u)
    <3>1. n \in RangeOf(stack'[u]) /\ n \notin RangeOf(stack[u])
      BY <1>8, <2>2, MountsIsRange
    <3>2. u = t /\ n \in RangeOf(Tail(stack[t])) \cup {m}
      BY <1>6, <1>5, <3>1
    <3>3. n = m
      BY <1>2, <3>1, <3>2
    <3>4. Top(t) \in Mounts(u)
      BY <1>2, <3>2, MountsIsRange
    <3> QED
      BY <1>3, <3>3, <3>4
  <2> QED
    BY <2>1, <2>2
<1>9. Survivors
  BY <1>8 DEF Survivors
<1>10. ASSUME NEW u \in Targets, NEW v \in Targets, u # v,
              NEW n \in Mounts(u)', NEW o \in Mounts(v)'
       PROVE  Distinct(n, o)
  <2>1. PICK nn \in Mounts(u) : Twins(n, nn)
    BY <1>8
  <2>2. PICK oo \in Mounts(v) : Twins(o, oo)
    BY <1>8
  <2>3. Distinct(nn, oo)
    BY <1>10 DEF StacksApart
  <2> QED
    BY <2>1, <2>2, <2>3 DEF Distinct, Twins
<1>11. ASSUME NEW n \in AllMounts' PROVE n.unique < nextUnique'
  <2>1. PICK u \in Targets : n \in Mounts(u)'
    BY DEF AllMounts
  <2>2. PICK o \in Mounts(u) : Twins(n, o)
    BY <1>8, <2>1
  <2> QED
    BY <2>2 DEF Twins, StacksApart, AllMounts
<1> QED
  BY <1>7, <1>9, <1>10, <1>11 DEF StacksApart

\* Nothing happens to the mounts.
LEMMA SameStacks ==
    ASSUME StacksApart, UNCHANGED <<stack, nextUnique>>
    PROVE  /\ StacksApart' /\ Survivors
           /\ \A u \in Targets : Mounts(u)' = Mounts(u)
<1>1. \A u \in Targets : Mounts(u)' = Mounts(u)
  BY DEF Mounts
<1>2. AllMounts' = AllMounts
  BY DEF AllMounts, Mounts
<1>3. Survivors
  BY <1>1 DEF Survivors, Twins
<1> QED
  BY <1>1, <1>2, <1>3 DEF StacksApart

(***************************************************************************)
(* The books: every mount of byssus has its record.                        *)
(***************************************************************************)

HandTarget == conf[step.key].target

\* Before a mount is made there is none of byssus on the target, not even under others,
\* and its record, if the key has one, is about the same target.
AttachFree ==
    pc = "attach" =>
        /\ \A m \in Mounts(HandTarget) : m.by = Foreign
        /\ mem[step.key] = NoRecord \/ mem[step.key].target = HandTarget

\* The mount in hand, as long as it is there, is where it was made, is the one with the
\* identity that was read, and the only one of byssus there.
HandKnown ==
    Making =>
        /\ step.unique < nextUnique
        /\ pc = "save" => mem[step.key].target = HandTarget
        /\ \A u \in Targets : \A m \in Mounts(u) :
              /\ m.by # Foreign /\ u = HandTarget => m.unique = step.unique
              /\ m.unique = step.unique =>
                   /\ u = HandTarget /\ m.by # Foreign
                   /\ pc # "umount" => Matches(ReadIdentity(m), step.identity)

\* A mount that is pinned is, as long as it is there, where it was pinned and the one
\* that the record to be removed describes.
PinnedKnown ==
    pc = "umount" =>
        /\ step.pinned < nextUnique
        /\ \A u \in Targets : \A m \in Mounts(u) :
              m.unique = step.pinned =>
                 /\ u = AimTarget
                 /\ step.op = "unmount" => Matches(ReadIdentity(m), mem[step.key].identity)

\* A mount that is still to be made replaces no record of another target: the record's
\* removal comes first, and if it failed the mount is skipped.
PendingFits ==
    \A k \in Keys : [op |-> "mount", key |-> k] \in todo /\ ~(Making /\ step.key = k) =>
        \/ mem[k] = NoRecord
        \/ mem[k].target = conf[k].target
        \/ k \in plan[k].after /\ (k \in bad \/ [op |-> "remove", key |-> k] \in todo)

\* What a removal has taken from memory is not there while the state file is written.
RemovalTaken == pc = "save" /\ step.op = "remove" => mem[step.key] = NoRecord

Bookkeeping ==
    /\ StacksApart
    /\ AttachFree
    /\ HandKnown
    /\ PinnedKnown
    /\ PendingFits
    /\ RemovalTaken
    /\ MountsAccountedFor

\* Twins are claimed by the same records.
LEMMA TwinClaims ==
    ASSUME NEW records, NEW t, NEW m, NEW n, Twins(m, n)
    PROVE  /\ ReadIdentity(m) = ReadIdentity(n)
           /\ Claims(records, t, n) => Claims(records, t, m)
BY DEF Twins, ReadIdentity, Claims

\* Of two mounts in different places one identity matches one at most.
LEMMA OneMatch ==
    ASSUME NEW m \in Mount, NEW n \in Mount, NEW identity, Distinct(m, n),
           Matches(ReadIdentity(m), identity), Matches(ReadIdentity(n), identity)
    PROVE  FALSE
<1>1. m.unique # NoUnique /\ n.unique # NoUnique
  BY DEF Mount, NoUnique
<1>2. CASE UniqueSupported /\ identity.unique # NoUnique
  BY <1>1, <1>2 DEF Matches, ReadIdentity, Distinct
<1>3. CASE ~(UniqueSupported /\ identity.unique # NoUnique)
  BY <1>1, <1>3 DEF Matches, ReadIdentity, Distinct
<1> QED
  BY <1>2, <1>3

\* A mount is typed.
LEMMA MountIn ==
    ASSUME KernelOK, NEW t \in Targets, NEW m \in Mounts(t)
    PROVE  m \in Mount /\ m \in AllMounts
BY MountsTyped DEF AllMounts

\* A mount just made, in its place.
LEMMA AttachStacks ==
    ASSUME TypeOK, StacksApart, AttachFree, NEW k \in Keys, pc = "attach", step.key = k,
           FreeIds # {}, Push(conf[k].target, NewMount(k, step.root)),
           nextUnique' = nextUnique + 1
    PROVE  LET m == NewMount(k, step.root)
           IN  /\ StacksApart' /\ m \in Mount /\ m.unique = nextUnique /\ m.by = k
               /\ \A u \in Targets : Mounts(u)' =
                     IF u = conf[k].target THEN Mounts(conf[k].target) \cup {m} ELSE Mounts(u)
<1> DEFINE m == NewMount(k, step.root)
           t == conf[k].target
<1>1. step.root \in DevInos
  BY AttachInHand DEF TypeOK
<1>2. m \in Mount /\ m.unique = nextUnique /\ m.by = k
  BY <1>1, NewMountType DEF TypeOK
<1>3. t \in Targets
  BY ConfType DEF TypeOK, DesiredMount
<1>4. \A n \in AllMounts : m.mnt_id # n.mnt_id
  <2>1. NewMountId \in FreeIds
    BY DEF NewMountId
  <2>2. m.mnt_id = NewMountId
    BY DEF NewMount
  <2> QED
    BY <2>1, <2>2 DEF FreeIds
<1>5. \A n \in Mounts(t) : n.by = Foreign
  BY DEF AttachFree, HandTarget
<1> HIDE DEF m
<1>6. /\ StacksApart'
      /\ \A u \in Targets : Mounts(u)' = IF u = t THEN Mounts(t) \cup {m} ELSE Mounts(u)
  BY <1>2, <1>3, <1>4, <1>5, PushStacks DEF TypeOK, m
<1> QED
  BY <1>2, <1>6 DEF m

\* The mounts after a step: none alike, and those that were there before, unless the
\* writer makes one.
LEMMA StacksStep ==
    ASSUME TypeOK, RemovalsComeFirst, Bookkeeping, [Next]_vars
    PROVE  /\ StacksApart'
           /\ Survivors \/ \E k \in Keys : AttachMount(k) \/ AttachUnidentified(k)
<1> USE DEF TypeOK, Bookkeeping
<1>1. CASE UNCHANGED <<stack, nextUnique>>
  BY <1>1, SameStacks
<1>2. ASSUME NEW k \in Keys, AttachMount(k) \/ AttachUnidentified(k) PROVE StacksApart'
  <2>1. /\ pc = "attach" /\ step.key = k /\ FreeIds # {}
        /\ Push(conf[k].target, NewMount(k, step.root)) /\ nextUnique' = nextUnique + 1
    BY <1>2 DEF AttachMount, AttachUnidentified
  <2> QED
    BY <2>1, AttachStacks
<1>3. ASSUME NEW t \in Targets, stack[t] # <<>>, Pop(t), UNCHANGED nextUnique
      PROVE  StacksApart' /\ Survivors
  BY <1>3, PopStacks
<1>4. ASSUME NEW k \in Keys, Unmount(k) PROVE StacksApart' /\ Survivors
  <2>1. CASE UNCHANGED stack
    BY <1>1, <1>4, <2>1, SameStacks DEF Unmount
  <2>2. CASE Attached(mem[k].target) /\ Pop(mem[k].target)
    <3>1. mem[k].target \in Targets
      BY <1>4, PinnedHasRecord DEF Unmount, StateOK, MountRecord
    <3> QED
      BY <1>3, <1>4, <2>2, <3>1, AttachedTop DEF Unmount
  <2> QED
    BY <1>4, <2>1, <2>2 DEF Unmount
<1>5. ASSUME Rollback PROVE StacksApart' /\ Survivors
  <2> DEFINE t == conf[step.key].target
  <2>1. t \in Targets
    BY <1>5, MakingType DEF Rollback, Making
  <2>2. CASE Attached(t)
    BY <1>3, <1>5, <2>1, <2>2, AttachedTop DEF Rollback
  <2>3. CASE ~Attached(t)
    BY <1>1, <1>5, <2>3, SameStacks DEF Rollback
  <2> QED
    BY <2>2, <2>3
<1>6. ASSUME NEW t \in Targets, ForeignUnmount(t) PROVE StacksApart' /\ Survivors
  BY <1>3, <1>6 DEF ForeignUnmount
<1>7. ASSUME NEW t \in Targets, LoosenMount(t) PROVE StacksApart' /\ Survivors
  BY <1>7, LoosenStacks DEF LoosenMount
<1>8. ASSUME NEW t \in Targets, NEW d \in DevInos, ForeignMount(t, d)
      PROVE  StacksApart' /\ Survivors
  <2> DEFINE m == [mnt_id |-> NewMountId, unique |-> nextUnique, root |-> d,
                   attrs |-> {}, by |-> Foreign]
  <2>1. NewMountId \in FreeIds
    BY <1>8 DEF ForeignMount, NewMountId
  <2>2. m \in Mount /\ m.unique = nextUnique /\ m.by = Foreign
        /\ \A n \in AllMounts : m.mnt_id # n.mnt_id
    BY <2>1 DEF Mount, KernelOK, FreeIds
  <2>3. Push(t, m) /\ nextUnique' = nextUnique + 1
    BY <1>8 DEF ForeignMount
  <2> HIDE DEF m
  <2>4. /\ StacksApart'
        /\ \A u \in Targets : Mounts(u)' = IF u = t THEN Mounts(t) \cup {m} ELSE Mounts(u)
    BY <2>2, <2>3, PushStacks
  <2> QED
    BY <2>2, <2>4 DEF Survivors, Twins
<1>9. CASE Reboot
  <2>1. \A t \in Targets : stack'[t] = <<>>
    BY <1>9 DEF Reboot
  <2>2. \A t \in Targets : Mounts(t)' = {} /\ StackApart(stack'[t])
    BY <2>1 DEF Mounts, StackApart
  <2>3. AllMounts' = {}
    BY <2>2 DEF AllMounts
  <2> QED
    BY <2>2, <2>3 DEF StacksApart, Survivors
<1>10. ASSUME \/ Restart \/ ScanMembership \/ ResolveSources \/ InspectAndPlan \/ SaveSucceeds
              \/ Crash \/ LoseStateFile \/ UNCHANGED vars
              \/ VerifyRollback \/ RollbackFails \/ \E late \in BOOLEAN : SaveFails(late)
       PROVE  UNCHANGED <<stack, nextUnique>>
  BY <1>10 DEF Restart, ScanMembership, ResolveSources, InspectAndPlan, SaveSucceeds,
         Crash, LoseStateFile, VerifyRollback, RollbackFails, SaveFails, vars, kernel
<1>11. ASSUME NEW k \in Keys, \/ SkipMount(k) \/ ResolveMount(k) \/ Drop(k)
                              \/ AttachFails(k) \/ UnmountFails(k) \/ ToggleMember(k)
                              \/ VerifyRemoval(k)
       PROVE  UNCHANGED <<stack, nextUnique>>
  BY <1>11 DEF SkipMount, ResolveMount, Drop, AttachFails, UnmountFails, ToggleMember,
         VerifyRemoval, kernel
<1>12. ASSUME \/ \E saved \in BOOLEAN : Shutdown(saved)
              \/ \E c \in Configs : Reconfigure(c)
              \/ \E g \in Groups : ToggleReadable(g)
              \/ \E s \in Sources, d \in DevInos \cup {Gone} : ChangeSource(s, d)
              \/ \E t \in Targets : ToggleBlocked(t)
       PROVE  UNCHANGED <<stack, nextUnique>>
  BY <1>12 DEF Shutdown, Reconfigure, ToggleReadable, ChangeSource, ToggleBlocked, kernel
<1> QED
  BY <1>1, <1>2, <1>4, <1>5, <1>6, <1>7, <1>8, <1>9, <1>10, <1>11, <1>12
     DEF Next, Daemon, Failure, Environment

\* When a step is over, the mounts still to be made fit the records, unless its removal
\* failed to take the record.
LEMMA FinishPending ==
    ASSUME PendingFits, NEW s \in PlanStep, NEW done, Finish(s, done), UNCHANGED conf,
           \A k \in Keys : [op |-> "mount", key |-> k] \in todo \ {s} => mem'[k] = mem[k],
           done /\ s.op = "remove" => mem[s.key] = NoRecord,
           Making => s = [op |-> "mount", key |-> step.key]
    PROVE  PendingFits'
<1> SUFFICES ASSUME NEW k \in Keys, [op |-> "mount", key |-> k] \in todo'
             PROVE  \/ mem'[k] = NoRecord
                    \/ mem'[k].target = conf'[k].target
                    \/ /\ k \in plan'[k].after
                       /\ k \in bad' \/ [op |-> "remove", key |-> k] \in todo'
  BY DEF PendingFits
<1>1. /\ todo' = todo \ {s} /\ todo # {s} /\ plan' = plan
      /\ bad' = IF done \/ s.op = "mount" THEN bad ELSE bad \cup {s.key}
  BY DEF Finish
<1>2. /\ mem'[k] = mem[k] /\ [op |-> "mount", key |-> k] \in todo
      /\ ~(Making /\ step.key = k)
  BY <1>1
<1>3. CASE mem[k] = NoRecord \/ mem[k].target = conf[k].target
  BY <1>2, <1>3
<1>4. CASE mem[k] # NoRecord /\ k \in plan[k].after /\ k \in bad
  BY <1>1, <1>4
<1>5. CASE mem[k] # NoRecord /\ k \in plan[k].after /\ [op |-> "remove", key |-> k] \in todo
  <2>1. CASE s = [op |-> "remove", key |-> k]
    <3>1. s.op = "remove" /\ s.key = k
      BY <2>1
    <3>2. k \in bad'
      BY <1>1, <1>5, <3>1
    <3> QED
      BY <1>1, <1>5, <3>2
  <2>2. CASE s # [op |-> "remove", key |-> k]
    BY <1>1, <1>5, <2>2
  <2> QED
    BY <2>1, <2>2
<1> QED
  BY <1>2, <1>3, <1>4, <1>5 DEF PendingFits

\* The mounts of a plan fit the records it was made from, after every step.
LEMMA PendingStep ==
    ASSUME TypeOK, RemovalsComeFirst, PendingFits, RemovalTaken, [Next]_vars
    PROVE  PendingFits' /\ RemovalTaken'
<1> USE DEF TypeOK
<1>0. /\ step \in StepType /\ todo \subseteq PlanStep
      /\ mem \in [Keys -> MountRecord \cup {NoRecord}]
      /\ pc = "save" => step.op \in {"mount", "remove"}
      /\ pc \in {"run", "attach"} => ~Making
  BY DEF PassOK, StepOK, StateOK, Making
<1>1. ASSUME todo' = {}, pc' # "save" PROVE PendingFits' /\ RemovalTaken'
  BY <1>1 DEF PendingFits, RemovalTaken
<1>2. ASSUME UNCHANGED <<mem, pc, todo, plan, bad, step>>, UNCHANGED conf \/ pc \in {"idle", "down"}
      PROVE  PendingFits' /\ RemovalTaken'
  <2>1. UNCHANGED conf \/ todo' = {}
    BY <1>2 DEF RemovalsComeFirst
  <2> QED
    BY <1>2, <2>1 DEF PendingFits, RemovalTaken, Making
<1>3. ASSUME NEW s \in PlanStep, Finish(s, FALSE), UNCHANGED <<mem, conf>>,
             Making => s = [op |-> "mount", key |-> step.key]
      PROVE  PendingFits' /\ RemovalTaken'
  <2>1. PendingFits'
    BY <1>3, FinishPending
  <2> QED
    BY <1>3, <2>1 DEF Finish, RemovalTaken
<1>4. CASE Restart \/ ScanMembership \/ ResolveSources
  <2>1. todo' = {} /\ pc' # "save"
    BY <1>4 DEF Restart, ScanMembership, ResolveSources, pass, RemovalsComeFirst
  <2> QED
    BY <1>1, <2>1
<1>5. CASE InspectAndPlan
  <2> DEFINE p == Plan(PlanInput(seen))
  <2>1. /\ todo' = StepsOf(p) /\ plan' = (IF IsNoop(p) THEN NoPlan ELSE p)
        /\ UNCHANGED <<mem, conf>> /\ pc' # "save"
    BY <1>5 DEF InspectAndPlan, world
  <2>2. ASSUME NEW k \in Keys, [op |-> "mount", key |-> k] \in todo'
        PROVE  \/ mem[k] = NoRecord
               \/ mem[k].target = conf[k].target
               \/ k \in plan'[k].after /\ [op |-> "remove", key |-> k] \in todo'
    <3>1. p[k].mount
      BY <2>1, <2>2 DEF StepsOf
    <3>2. plan' = p
      <4>1. ~IsNoop(p)
        BY <3>1, Zenon DEF IsNoop
      <4> QED
        BY <2>1, <4>1
    <3>3. /\ k \in DOMAIN PlanInput(seen).desired
          /\ \/ PlanInput(seen).records[k] = NoRecord
             \/ PlanInput(seen).records[k].target = PlanInput(seen).desired[k].target
             \/ k \in p[k].after /\ p[k].removal # "none"
      BY <3>1, MountFits
    <3>4. PlanInput(seen).records[k] = mem[k]
      BY DEF PlanInput
    <3>5. PlanInput(seen).desired[k] = conf[k]
      BY <3>3 DEF PlanInput
    <3>6. p[k].removal # "none" => [op |-> "remove", key |-> k] \in todo'
      BY <2>1 DEF StepsOf
    <3> QED
      BY <3>2, <3>3, <3>4, <3>5, <3>6
  <2> QED
    BY <2>1, <2>2 DEF PendingFits, RemovalTaken
<1>6. ASSUME NEW k \in Keys,
             SkipMount(k) \/ AttachFails(k) \/ AttachUnidentified(k) \/ UnmountFails(k)
      PROVE  PendingFits' /\ RemovalTaken'
  <2>1. ~Making /\ \E s \in PlanStep : Finish(s, FALSE)
    BY <1>0, <1>6 DEF SkipMount, AttachFails, AttachUnidentified, UnmountFails, PlanStep, Due,
       Making
  <2>2. UNCHANGED <<mem, conf>>
    BY <1>6 DEF SkipMount, AttachFails, AttachUnidentified, UnmountFails, world
  <2> QED
    BY <1>3, <2>1, <2>2
<1>7. ASSUME NEW k \in Keys, ResolveMount(k) PROVE PendingFits' /\ RemovalTaken'
  <2>1. UNCHANGED <<mem, conf>> /\ ~Making
    BY <1>0, <1>7 DEF ResolveMount, Due, world
  <2>2. CASE Finish([op |-> "mount", key |-> k], FALSE)
    BY <1>3, <2>1, <2>2 DEF PlanStep
  <2>3. CASE pc' = "attach" /\ UNCHANGED pass
    BY <2>1, <2>3 DEF PendingFits, RemovalTaken, pass
  <2> QED
    BY <1>7, <2>2, <2>3 DEF ResolveMount
<1>8. ASSUME NEW k \in Keys, AttachMount(k) PROVE PendingFits' /\ RemovalTaken'
  <2>1. /\ UNCHANGED <<conf, todo, plan, bad>> /\ step'.op = "mount"
        /\ mem' = [mem EXCEPT ![k] = RecordOf(k, NewMount(k, step.root))]
    BY <1>8 DEF AttachMount, world, pass
  <2>2. RecordOf(k, NewMount(k, step.root)).target = conf[k].target
    BY DEF RecordOf
  <2> QED
    BY <1>0, <1>8, <2>1, <2>2 DEF AttachMount, PendingFits, RemovalTaken
<1>9. ASSUME NEW k \in Keys, Unmount(k) \/ Drop(k) PROVE PendingFits' /\ RemovalTaken'
  <2> DEFINE s == [op |-> "remove", key |-> k]
  <2>1. UNCHANGED conf /\ ~Making
    BY <1>0, <1>9 DEF Unmount, Drop, Due, Making, world
  <2>2. CASE Finish(s, FALSE) /\ UNCHANGED mem
    BY <1>3, <2>1, <2>2 DEF PlanStep
  <2>3. CASE mem' = [mem EXCEPT ![k] = NoRecord] /\ step' = s /\ UNCHANGED pass
    BY <1>0, <2>1, <2>3 DEF PendingFits, RemovalTaken, pass
  <2> QED
    BY <1>9, <2>2, <2>3 DEF Unmount, Drop
<1>a. ASSUME NEW k \in Keys, VerifyRemoval(k) PROVE PendingFits' /\ RemovalTaken'
  <2>1. UNCHANGED <<mem, conf>> /\ ~Making
    BY <1>0, <1>a DEF VerifyRemoval, Due, world
  <2>2. CASE Finish([op |-> "remove", key |-> k], FALSE)
    BY <1>3, <2>1, <2>2 DEF PlanStep
  <2>3. CASE pc' = "umount" /\ UNCHANGED pass
    BY <2>1, <2>3 DEF PendingFits, RemovalTaken, pass
  <2> QED
    BY <1>a, <2>2, <2>3 DEF VerifyRemoval
<1>b. ASSUME VerifyRollback \/ Rollback \/ RollbackFails PROVE PendingFits' /\ RemovalTaken'
  <2> DEFINE s == [op |-> "mount", key |-> step.key]
  <2>1. UNCHANGED <<mem, conf>> /\ Making /\ step.op # "mount"
    BY <1>b DEF VerifyRollback, Rollback, RollbackFails, StepOK, Making, world
  <2>2. CASE Finish(s, FALSE)
    BY <1>3, <2>1, <2>2, MakingType
  <2>3. CASE /\ step' = [op |-> "undo", key |-> step.key, unique |-> step.unique,
                         pinned |-> Top(conf[step.key].target).unique]
             /\ pc' = "umount" /\ UNCHANGED <<pass, lost>>
    BY <2>1, <2>3 DEF PendingFits, RemovalTaken, Making, pass
  <2> QED
    BY <1>b, <2>2, <2>3, VerifyRollbackIs DEF Rollback, RollbackFails
<1>c. ASSUME NEW late \in BOOLEAN, SaveFails(late), step.op = "mount"
      PROVE  PendingFits' /\ RemovalTaken'
  <2>1. /\ mem' = [mem EXCEPT ![step.key] = step.previous] /\ pc' = "rollback"
        /\ UNCHANGED <<conf, todo, plan, bad>>
        /\ step' = [op |-> "rollback", key |-> step.key, identity |-> step.identity,
                    unique |-> step.unique]
    BY <1>c DEF SaveFails, pass, world
  <2> QED
    BY <1>0, <1>c, <2>1 DEF PendingFits, RemovalTaken, Making
<1>10. ASSUME SaveSucceeds \/ \E late \in BOOLEAN : SaveFails(late) /\ step.op # "mount"
       PROVE  PendingFits' /\ RemovalTaken'
  <2>1. pc = "save" /\ UNCHANGED <<conf, mem>> /\ \E done \in BOOLEAN : Finish(SavedStep, done)
    BY <1>0, <1>10 DEF SaveSucceeds, SaveFails, world
  <2>2. SavedStep \in PlanStep /\ SavedStep.op = step.op /\ SavedStep.key = step.key
    BY <1>0, <2>1 DEF SavedStep, StepType, NoStep, PlanStep
  <2>3. Making => SavedStep = [op |-> "mount", key |-> step.key]
    BY <1>0, <2>1 DEF SavedStep, Making
  <2>4. PendingFits'
    BY <2>1, <2>2, <2>3, FinishPending DEF RemovalTaken
  <2> QED
    BY <2>1, <2>4 DEF Finish, RemovalTaken
<1>11. CASE Crash \/ \E saved \in BOOLEAN : Shutdown(saved)
  BY <1>1, <1>11 DEF Crash, Shutdown, Dies
<1>12. CASE Environment \/ UNCHANGED vars
  <2>1. UNCHANGED <<mem, pc, todo, plan, bad, step>>
    BY <1>12 DEF Environment, Reconfigure, ToggleMember, ToggleReadable, ChangeSource,
         ToggleBlocked, ForeignUnmount, LoosenMount, ForeignMount, Reboot, LoseStateFile,
         Others, pass, vars
  <2>2. UNCHANGED conf \/ pc \in {"idle", "down"}
    BY <1>12 DEF Environment, Reconfigure, ToggleMember, ToggleReadable, ChangeSource,
         ToggleBlocked, ForeignUnmount, LoosenMount, ForeignMount, Reboot, LoseStateFile,
         world, vars
  <2> QED
    BY <1>2, <2>1, <2>2
<1> QED
  BY <1>4, <1>5, <1>6, <1>7, <1>8, <1>9, <1>a, <1>b, <1>c, <1>10, <1>11, <1>12
     DEF Next, Daemon, Failure

\* A mount of byssus that is there after a step that makes none was there before.
LEMMA OwnSurvives ==
    ASSUME Survivors, NEW t \in Targets, NEW m \in Mounts(t)', m.by # Foreign
    PROVE  \E n \in Mounts(t) : Twins(m, n)
BY DEF Survivors

\* Where the mount in hand goes.
LEMMA HandTargetIn ==
    ASSUME TypeOK, pc = "attach" \/ Making
    PROVE  step.key \in Keys /\ HandTarget \in Targets
<1>1. step \in StepType /\ step.op \in {"attach", "mount", "rollback", "undo"}
  BY DEF TypeOK, StepOK, Making
<1>2. step.key \in Keys
  BY <1>1 DEF StepType, NoStep
<1>3. conf[step.key] \in DesiredMount
  BY <1>2, ConfType DEF TypeOK
<1> QED
  BY <1>2, <1>3 DEF HandTarget, DesiredMount

\* When the writer takes no step and byssus makes no mount, what is in hand stays known.
LEMMA HandStays ==
    ASSUME TypeOK, TypeOK', AttachFree, HandKnown, Survivors,
           UNCHANGED <<mem, pc, step>>, UNCHANGED conf \/ pc \in {"idle", "down"},
           nextUnique <= nextUnique' \/ pc = "down"
    PROVE  AttachFree' /\ HandKnown'
<1>1. CASE pc \in {"idle", "down"}
  <2>1. ~Making /\ ~Making'
    BY <1>1 DEF TypeOK, StepOK, Making
  <2> QED
    BY <1>1, <2>1 DEF AttachFree, HandKnown
<1>2. CASE UNCHANGED conf /\ nextUnique <= nextUnique'
  <2>1. HandTarget' = HandTarget
    BY <1>2 DEF HandTarget
  <2>2. ASSUME pc = "attach" PROVE AttachFree'
    <3>1. HandTarget \in Targets /\ \A m \in Mounts(HandTarget) : m.by = Foreign
      BY <2>2, HandTargetIn DEF AttachFree
    <3>2. Mounts(HandTarget)' = {stack'[HandTarget'][i] : i \in DOMAIN stack'[HandTarget']}
      BY DEF Mounts
    <3>3. \A t \in Targets : Mounts(t)' = {stack'[t][i] : i \in DOMAIN stack'[t]}
      BY DEF Mounts
    <3>4. \A t \in Targets : t = HandTarget => \A m \in Mounts(t)' : m.by = Foreign
      BY <3>1, OwnSurvives DEF Twins
    <3>5. \A m \in Mounts(HandTarget)' : m.by = Foreign
      BY <2>1, <3>1, <3>2, <3>3, <3>4
    <3> QED
      BY <2>1, <2>2, <3>5 DEF AttachFree
  <2>3. ASSUME Making PROVE HandKnown'
    <3>1. step.unique < nextUnique /\ nextUnique \in Nat /\ nextUnique' \in Nat
          /\ step.unique \in Nat /\ (pc = "save" => mem[step.key].target = HandTarget)
      BY <2>3, MakingType DEF HandKnown, TypeOK, KernelOK
    <3>2. ASSUME NEW u \in Targets, NEW m \in Mounts(u)'
          PROVE  /\ m.by # Foreign /\ u = HandTarget => m.unique = step.unique
                 /\ m.unique = step.unique =>
                      /\ u = HandTarget /\ m.by # Foreign
                      /\ pc # "umount" => Matches(ReadIdentity(m), step.identity)
      <4>1. CASE \E n \in Mounts(u) : Twins(m, n)
        <5>1. PICK n \in Mounts(u) : Twins(m, n)
          BY <4>1
        <5>2. ReadIdentity(m) = ReadIdentity(n)
          BY <5>1, TwinClaims
        <5> QED
          BY <2>3, <5>1, <5>2 DEF HandKnown, Twins
      <4>2. CASE m.by = Foreign /\ m.unique = nextUnique
        BY <3>1, <4>2
      <4> QED
        BY <4>1, <4>2 DEF Survivors
    <3>3. \A m : ReadIdentity(m)' = ReadIdentity(m)
      BY DEF ReadIdentity
    <3> QED
      BY <1>2, <2>1, <2>3, <3>1, <3>2 DEF HandKnown
  <2> QED
    BY <2>2, <2>3 DEF AttachFree, HandKnown, Making
<1> QED
  BY <1>1, <1>2

\* The mount in hand stays known while a failed save is dealt with.
LEMMA HandMoves ==
    ASSUME HandKnown, Making, UNCHANGED <<stack, nextUnique, conf>>,
           pc' \in {"rollback", "umount"}, step'.key = step.key, step'.unique = step.unique,
           pc' # "umount" => pc # "umount" /\ step'.identity = step.identity
    PROVE  HandKnown'
<1>1. HandTarget' = HandTarget
  BY DEF HandTarget
<1>2. \A u \in Targets : Mounts(u)' = Mounts(u)
  BY DEF Mounts
<1>3. \A m : ReadIdentity(m)' = ReadIdentity(m)
  BY DEF ReadIdentity
<1>4. ASSUME NEW u \in Targets, NEW m \in Mounts(u)'
      PROVE  /\ m.by # Foreign /\ u = HandTarget => m.unique = step.unique
             /\ m.unique = step.unique =>
                  /\ u = HandTarget /\ m.by # Foreign
                  /\ pc # "umount" => Matches(ReadIdentity(m), step.identity)
  BY <1>2 DEF HandKnown
<1> QED
  BY <1>1, <1>3, <1>4 DEF HandKnown

\* The same after every step: the step in hand is made when the target is free of byssus,
\* and the mount made is the one in hand.
LEMMA HandStep ==
    ASSUME TypeOK, TypeOK', RemovalsComeFirst, Bookkeeping, [Next]_vars
    PROVE  AttachFree' /\ HandKnown'
<1> USE DEF Bookkeeping
<1>0. /\ todo \subseteq PlanStep /\ nextUnique \in Nat
      /\ mem \in [Keys -> MountRecord \cup {NoRecord}]
      /\ \A k \in Keys : conf[k].target \in Targets
  BY ConfType DEF TypeOK, PassOK, KernelOK, StateOK, DesiredMount
<1>1. ASSUME \/ pc' \in {"down", "idle", "sources", "targets", "run"}
             \/ pc' # "attach" /\ step'.op \in {"remove", "unmount"}
      PROVE  AttachFree' /\ HandKnown'
  <2>1. ~Making'
    BY <1>1 DEF TypeOK, StepOK, Making
  <2> QED
    BY <1>1, <2>1 DEF AttachFree, HandKnown
<1>2. ASSUME NEW k \in Keys, ResolveMount(k) PROVE AttachFree' /\ HandKnown'
  <2> DEFINE s == [op |-> "mount", key |-> k]
             t == conf[k].target
  <2>1. CASE Finish(s, FALSE)
    BY <1>1, <2>1 DEF Finish
  <2>2. CASE /\ stack[t] = <<>> /\ pc' = "attach"
             /\ step' = [op |-> "attach", key |-> k, root |-> source[conf[k].source]]
    <3>1. Due(s) /\ plan[k].after \cap bad = {} /\ UNCHANGED <<stack, mem, conf>>
      BY <1>2 DEF ResolveMount, world, kernel
    <3>2. s \in todo /\ \A r \in todo : r.op = "mount"
      BY <1>0, <3>1, MountsDueLast DEF Due
    <3>3. mem[k] = NoRecord \/ mem[k].target = t
      <4>1. [op |-> "remove", key |-> k] \notin todo
        BY <3>2
      <4> QED
        BY <3>1, <3>2, <4>1 DEF PendingFits, Due, Making, TypeOK, StepOK
    <3>4. Mounts(HandTarget)' = {}
      <4>1. HandTarget' = t /\ stack'[t] = <<>>
        BY <2>2, <3>1 DEF HandTarget
      <4>2. Mounts(HandTarget)' = {stack'[HandTarget'][i] : i \in DOMAIN stack'[HandTarget']}
        BY DEF Mounts
      <4> QED
        BY <4>1, <4>2
    <3>5. HandTarget' = t /\ step'.key = k
      BY <2>2, <3>1 DEF HandTarget
    <3> QED
      BY <2>2, <3>1, <3>3, <3>4, <3>5 DEF AttachFree, HandKnown, Making
  <2> QED
    BY <1>2, <2>1, <2>2 DEF ResolveMount
<1>3. ASSUME NEW k \in Keys, AttachMount(k) PROVE AttachFree' /\ HandKnown'
  <2> DEFINE m == NewMount(k, step.root)
             t == conf[k].target
  <2>1. /\ pc = "attach" /\ step.key = k /\ FreeIds # {} /\ Push(t, m)
        /\ nextUnique' = nextUnique + 1 /\ UNCHANGED conf
        /\ mem' = [mem EXCEPT ![k] = RecordOf(k, m)]
        /\ step' = [op |-> "mount", key |-> k, previous |-> mem[k],
                    identity |-> ReadIdentity(m), unique |-> m.unique]
        /\ pc' = "save"
    BY <1>3 DEF AttachMount, world
  <2>2. /\ m \in Mount /\ m.unique = nextUnique /\ m.by = k
        /\ \A u \in Targets : Mounts(u)' = IF u = t THEN Mounts(t) \cup {m} ELSE Mounts(u)
    BY <2>1, AttachStacks
  <2>3. HandTarget' = t /\ HandTarget = t
    BY <2>1 DEF HandTarget
  <2>4. mem'[k] = RecordOf(k, m) /\ RecordOf(k, m).target = t
    BY <1>0, <2>1 DEF RecordOf
  <2>5. k # Foreign
    BY ReconcilerAssumption
  <2>6. Matches(ReadIdentity(m), ReadIdentity(m))
    BY DEF Matches
  <2> HIDE DEF m
  <2>7. ASSUME NEW u \in Targets, NEW n \in Mounts(u)'
        PROVE  /\ n.by # Foreign /\ u = t => n.unique = nextUnique
               /\ n.unique = nextUnique =>
                    u = t /\ n.by # Foreign /\ Matches(ReadIdentity(n), ReadIdentity(m))
    <3>1. CASE n = m /\ u = t
      BY <2>2, <2>5, <2>6, <3>1
    <3>2. CASE n \in Mounts(u)
      <4>1. n \in AllMounts /\ n.unique \in Nat
        BY <3>2, MountIn DEF TypeOK, Mount
      <4>2. n.unique < nextUnique
        BY <4>1 DEF StacksApart
      <4>3. u = t => n.by = Foreign
        BY <2>1, <2>3, <3>2 DEF AttachFree
      <4> QED
        BY <1>0, <4>1, <4>2, <4>3
    <3> QED
      BY <2>2, <3>1, <3>2
  <2>8. \A n : ReadIdentity(n)' = ReadIdentity(n)
    BY DEF ReadIdentity
  <2>9. step'.unique = nextUnique /\ step'.identity = ReadIdentity(m) /\ step'.key = k
    BY <2>1, <2>2
  <2>10. nextUnique < nextUnique'
    BY <1>0, <2>1
  <2> QED
    BY <2>1, <2>3, <2>4, <2>7, <2>8, <2>9, <2>10 DEF AttachFree, HandKnown
<1>4. ASSUME \/ Restart \/ ScanMembership \/ ResolveSources \/ InspectAndPlan \/ SaveSucceeds
             \/ Crash \/ \E saved \in BOOLEAN : Shutdown(saved)
             \/ Rollback \/ RollbackFails
      PROVE  AttachFree' /\ HandKnown'
  <2>1. pc' \in {"down", "idle", "sources", "targets", "run"}
    BY <1>4 DEF Restart, ScanMembership, ResolveSources, InspectAndPlan, SaveSucceeds, Crash,
         Shutdown, Rollback, RollbackFails, Finish, Dies
  <2> QED
    BY <1>1, <2>1
<1>5. ASSUME NEW k \in Keys, \/ SkipMount(k) \/ AttachFails(k) \/ UnmountFails(k)
                             \/ AttachUnidentified(k)
      PROVE  AttachFree' /\ HandKnown'
  <2>1. pc' \in {"idle", "run"}
    BY <1>5 DEF SkipMount, AttachFails, UnmountFails, AttachUnidentified, Finish
  <2> QED
    BY <1>1, <2>1
<1>6. ASSUME NEW k \in Keys, VerifyRemoval(k) \/ Unmount(k) \/ Drop(k)
      PROVE  AttachFree' /\ HandKnown'
  <2>1. pc' \in {"idle", "run"} \/ (pc' # "attach" /\ step'.op \in {"remove", "unmount"})
    BY <1>6 DEF VerifyRemoval, Unmount, Drop, Finish
  <2> QED
    BY <1>1, <2>1
<1>8. ASSUME NEW late \in BOOLEAN, SaveFails(late) PROVE AttachFree' /\ HandKnown'
  <2>1. pc = "save" /\ UNCHANGED <<stack, nextUnique, conf>>
        /\ step.op \in {"mount", "remove"}
    BY <1>8 DEF SaveFails, TypeOK, StepOK, kernel, world
  <2>2. CASE step.op = "remove"
    BY <1>1, <1>8, <2>2 DEF SaveFails, Finish
  <2>3. CASE step.op = "mount"
    <3>1. /\ pc' = "rollback" /\ Making
          /\ step' = [op |-> "rollback", key |-> step.key, identity |-> step.identity,
                      unique |-> step.unique]
      BY <1>8, <2>3 DEF SaveFails, Making
    <3> QED
      BY <2>1, <3>1, HandMoves DEF AttachFree
  <2> QED
    BY <2>1, <2>2, <2>3
<1>9. CASE VerifyRollback
  <2>1. pc = "rollback" /\ UNCHANGED <<stack, nextUnique, conf>> /\ Making
    BY <1>9 DEF VerifyRollback, TypeOK, StepOK, Making, kernel, world
  <2>2. CASE Finish([op |-> "mount", key |-> step.key], FALSE)
    BY <1>1, <2>2 DEF Finish
  <2>3. CASE /\ step' = [op |-> "undo", key |-> step.key, unique |-> step.unique,
                         pinned |-> Top(conf[step.key].target).unique]
             /\ pc' = "umount"
    BY <2>1, <2>3, HandMoves DEF AttachFree
  <2> QED
    BY <1>9, <2>2, <2>3, VerifyRollbackIs
<1>7. CASE Environment \/ UNCHANGED vars
  <2>1. UNCHANGED <<mem, pc, step>>
    BY <1>7 DEF Environment, Reconfigure, ToggleMember, ToggleReadable, ChangeSource,
         ToggleBlocked, ForeignUnmount, LoosenMount, ForeignMount, Reboot, LoseStateFile,
         Others, vars
  <2>2. UNCHANGED conf \/ pc \in {"idle", "down"}
    BY <1>7 DEF Environment, Reconfigure, ToggleMember, ToggleReadable, ChangeSource,
         ToggleBlocked, ForeignUnmount, LoosenMount, ForeignMount, Reboot, LoseStateFile,
         world, vars
  <2>3. nextUnique' \in {nextUnique, nextUnique + 1} \/ pc = "down"
    BY <1>7 DEF Environment, Reconfigure, ToggleMember, ToggleReadable, ChangeSource,
         ToggleBlocked, ForeignUnmount, LoosenMount, ForeignMount, Reboot, LoseStateFile,
         kernel, vars
  <2>4. Survivors
    <3>1. CASE \E k \in Keys : AttachMount(k) \/ AttachUnidentified(k)
      <4>1. UNCHANGED <<pc, step>> /\ \E k \in Keys : pc = "attach" /\ (pc' = "save" \/ step' = NoStep)
        BY <2>1, <3>1 DEF AttachMount, AttachUnidentified, Finish
      <4>2. pc = "attach" => step.op = "attach"
        BY DEF TypeOK, StepOK
      <4> QED
        BY <4>1, <4>2 DEF NoStep
    <3> QED
      BY <3>1, StacksStep
  <2> QED
    BY <1>0, <2>1, <2>2, <2>3, <2>4, HandStays
<1> QED
  BY <1>2, <1>3, <1>4, <1>5, <1>6, <1>7, <1>8, <1>9 DEF Next, Daemon, Failure

\* What is pinned stays known, whatever is stacked on it.
LEMMA PinnedStays ==
    ASSUME TypeOK, TypeOK', RemovalsComeFirst, Bookkeeping, [Next]_vars,
           Survivors \/ pc' # "umount"
    PROVE  PinnedKnown'
<1> SUFFICES ASSUME pc' = "umount"
             PROVE  /\ step'.pinned < nextUnique'
                    /\ \A u \in Targets : \A m \in Mounts(u)' :
                          m.unique = step'.pinned =>
                             /\ u = AimTarget'
                             /\ step'.op = "unmount" =>
                                  Matches(ReadIdentity(m), mem'[step'.key].identity)
  <2>1. \A m : ReadIdentity(m)' = ReadIdentity(m)
    BY DEF ReadIdentity
  <2> QED
    BY <2>1 DEF PinnedKnown
<1>0. nextUnique \in Nat /\ step'.pinned \in Nat
  BY PinnedType DEF TypeOK, KernelOK, StepOK, StepType, NoStep
<1>1. CASE /\ pc = "umount" /\ UNCHANGED <<mem, conf, pc, todo, step>>
           /\ nextUnique' \in {nextUnique, nextUnique + 1}
  <2>1. AimTarget' = AimTarget
    BY <1>1 DEF AimTarget
  <2>2. step.pinned < nextUnique
    BY <1>1 DEF Bookkeeping, PinnedKnown
  <2>3. ASSUME NEW u \in Targets, NEW m \in Mounts(u)', m.unique = step.pinned
        PROVE  /\ u = AimTarget
               /\ step.op = "unmount" => Matches(ReadIdentity(m), mem[step.key].identity)
    <3>1. ~(m.by = Foreign /\ m.unique = nextUnique)
      BY <1>0, <1>1, <2>2, <2>3
    <3>2. PICK n \in Mounts(u) : Twins(m, n)
      BY <3>1 DEF Survivors
    <3>3. n.unique = step.pinned /\ ReadIdentity(m) = ReadIdentity(n)
      BY <2>3, <3>2, TwinClaims DEF Twins
    <3> QED
      BY <1>1, <3>3 DEF Bookkeeping, PinnedKnown
  <2> QED
    BY <1>0, <1>1, <2>1, <2>2, <2>3
<1>2. ASSUME NEW t \in Targets, NEW identity, OpenVerified(t, identity),
             UNCHANGED <<stack, nextUnique, mem, conf>>, step'.pinned = Top(t).unique,
             AimTarget' = t, step'.op = "unmount" => identity = mem[step'.key].identity
      PROVE  /\ step'.pinned < nextUnique'
             /\ \A u \in Targets : \A m \in Mounts(u)' :
                   m.unique = step'.pinned =>
                      /\ u = AimTarget'
                      /\ step'.op = "unmount" =>
                           Matches(ReadIdentity(m), mem'[step'.key].identity)
  <2>1. stack[t] # <<>> /\ Matches(ReadIdentity(Top(t)), identity)
    BY <1>2 DEF OpenVerified
  <2>2. Top(t) \in Mounts(t) /\ Top(t) \in AllMounts /\ Top(t).unique < nextUnique
    <3>1. Top(t) \in RangeOf(stack[t])
      BY <2>1, Popped DEF TypeOK, KernelOK, Top
    <3> QED
      BY <3>1, MountsIsRange, AllMountsDef DEF Bookkeeping, StacksApart
  <2>3. ASSUME NEW u \in Targets, NEW m \in Mounts(u), m.unique = Top(t).unique
        PROVE  u = t /\ m = Top(t)
    <3>1. u = t
      BY <2>2, <2>3 DEF Bookkeeping, StacksApart, Distinct
    <3>2. m = Top(t)
      <4>1. \A n, o \in Mounts(t) : n.unique = o.unique => n = o
        BY DEF Bookkeeping, StacksApart, StackApart, Apart, Distinct, Mounts
      <4> QED
        BY <2>2, <2>3, <3>1, <4>1
    <3> QED
      BY <3>1, <3>2
  <2>4. \A u \in Targets : Mounts(u)' = Mounts(u)
    BY <1>2 DEF Mounts
  <2> QED
    BY <1>2, <2>1, <2>2, <2>3, <2>4
<1>3. CASE \E k \in Keys :
              /\ UNCHANGED <<stack, nextUnique, mem, conf>>
              /\ mem[k] # NoRecord /\ mem[k].target \in Targets
              /\ OpenVerified(mem[k].target, mem[k].identity)
              /\ step' = [op |-> "unmount", key |-> k, pinned |-> Top(mem[k].target).unique]
  <2>1. PICK k \in Keys :
              /\ UNCHANGED <<stack, nextUnique, mem, conf>>
              /\ mem[k] # NoRecord /\ mem[k].target \in Targets
              /\ OpenVerified(mem[k].target, mem[k].identity)
              /\ step' = [op |-> "unmount", key |-> k, pinned |-> Top(mem[k].target).unique]
    BY <1>3
  <2>2. AimTarget' = mem[k].target
    BY <2>1 DEF AimTarget
  <2> QED
    BY <1>2, <2>1, <2>2
<1>4. CASE /\ UNCHANGED <<stack, nextUnique, mem, conf>>
           /\ conf[step.key].target \in Targets
           /\ OpenVerified(conf[step.key].target, step.identity)
           /\ step' = [op |-> "undo", key |-> step.key, unique |-> step.unique,
                       pinned |-> Top(conf[step.key].target).unique]
  <2>1. AimTarget' = conf[step.key].target
    BY <1>4 DEF AimTarget
  <2> QED
    BY <1>2, <1>4, <2>1
<1> QED
  BY <1>1, <1>3, <1>4, PinnedFrom

\* A mount of byssus is in the books, given what is in memory, in the state file and in hand.
Accounted(records, file, down, hand, retracted, t, m) ==
    /\ ~down => Claims(records, t, m) \/ m.unique \in retracted
    /\ Claims(file, t, m) \/ m.unique \in hand

\* The mount in hand, and the same once its record has been taken back.
Hand == IF Making THEN {step.unique} ELSE {}
Retracted == IF pc = "save" THEN {} ELSE Hand

\* When there is none.
LEMMA HandEmpty ==
    ASSUME StepOK, pc \notin {"save", "rollback", "umount"} \/ step.op \in {"remove", "unmount"}
    PROVE  Hand = {} /\ Retracted = {} /\ ~Making
<1>1. ~Making
  BY DEF StepOK, Making
<1> QED
  BY <1>1 DEF Hand, Retracted

\* When a step is over, nothing is in hand.
LEMMA HandAfter ==
    ASSUME step' = NoStep
    PROVE  Hand' = {} /\ Retracted' = {}
BY DEF Hand, Retracted, Making, NoStep

\* Books that hold for the mounts that stay still hold for them after the step.
LEMMA StayAccounted ==
    ASSUME MountsAccountedFor, Survivors, lost \subseteq lost',
           \A t \in Targets : \A n \in Mounts(t) :
              /\ n.by # Foreign /\ n.unique \notin lost'
              /\ \E m \in Mounts(t)' : Twins(m, n)
              /\ Accounted(mem, disk, pc = "down", Hand, Retracted, t, n)
              => Accounted(mem', disk', pc' = "down", Hand', Retracted', t, n)
    PROVE  MountsAccountedFor'
<1>1. \A m : ReadIdentity(m)' = ReadIdentity(m)
  BY DEF ReadIdentity
<1>2. \A t, m : /\ Claims(mem, t, m)' = Claims(mem', t, m)
                /\ Claims(disk, t, m)' = Claims(disk', t, m)
                /\ InHand(m) <=> m.unique \in Hand
                /\ InHand(m)' <=> m.unique \in Hand'
                /\ Undone(m) <=> m.unique \in Retracted
                /\ Undone(m)' <=> m.unique \in Retracted'
  BY <1>1 DEF Claims, InHand, Undone, Hand, Retracted
<1>3. ASSUME NEW t \in Targets, NEW m \in Mounts(t)', m.by # Foreign, m.unique \notin lost'
      PROVE  /\ pc' # "down" => Claims(mem, t, m)' \/ Undone(m)'
             /\ Claims(disk, t, m)' \/ InHand(m)'
  <2>1. PICK n \in Mounts(t) : Twins(m, n)
    BY <1>3, OwnSurvives
  <2>2. n.by # Foreign /\ n.unique = m.unique /\ n.unique \notin lost /\ n.unique \notin lost'
    BY <1>3, <2>1 DEF Twins
  <2>3. Accounted(mem, disk, pc = "down", Hand, Retracted, t, n)
    BY <1>2, <2>2 DEF MountsAccountedFor, Accounted
  <2>4. Accounted(mem', disk', pc' = "down", Hand', Retracted', t, n)
    BY <1>3, <2>1, <2>2, <2>3
  <2>5. \A records : Claims(records, t, n) => Claims(records, t, m)
    BY <2>1, TwinClaims
  <2> QED
    BY <1>2, <2>2, <2>4, <2>5 DEF Accounted
<1> QED
  BY <1>3 DEF MountsAccountedFor

\* A record that leaves memory takes the claim to its own mount with it, and no other.
LEMMA OtherClaims ==
    ASSUME NEW k \in Keys, NEW r, mem \in [Keys -> MountRecord \cup {NoRecord}],
           NEW t, NEW n, Claims(mem, t, n),
           ~(mem[k] # NoRecord /\ mem[k].target = t /\ Matches(ReadIdentity(n), mem[k].identity))
    PROVE  Claims([mem EXCEPT ![k] = r], t, n)
<1>1. PICK j \in Keys : /\ mem[j] # NoRecord /\ mem[j].target = t
                        /\ Matches(ReadIdentity(n), mem[j].identity)
  BY DEF Claims
<1>2. j # k
  BY <1>1
<1>3. [mem EXCEPT ![k] = r][j] = mem[j]
  BY <1>2
<1> QED
  BY <1>1, <1>3 DEF Claims

\* After every step of others, and every step of the writer that makes no mount.
LEMMA AccountedStep ==
    ASSUME TypeOK, RemovalsComeFirst, Bookkeeping, [Next]_vars, Survivors,
           \A k \in Keys : ~AttachMount(k) /\ ~AttachUnidentified(k)
    PROVE  MountsAccountedFor'
<1> USE DEF Bookkeeping
<1>0. /\ mem \in [Keys -> MountRecord \cup {NoRecord}]
      /\ pc = "save" => step.op \in {"mount", "remove"}
      /\ pc = "attach" => step.op = "attach"
      /\ step \in StepType /\ StepOK
  BY DEF TypeOK, StateOK, StepOK
<1>1. ASSUME UNCHANGED <<mem, disk, lost>>, pc' = "down" <=> pc = "down", Hand \subseteq Hand',
             Retracted \subseteq Retracted'
      PROVE  MountsAccountedFor'
  BY <1>1, StayAccounted DEF Accounted
<1>2. CASE Restart
  <2>1. UNCHANGED <<lost, disk>> /\ mem' = disk /\ Hand = {}
    BY <1>0, <1>2, HandEmpty DEF Restart
  <2> QED
    BY <2>1, StayAccounted DEF Accounted
<1>3. CASE ScanMembership \/ ResolveSources \/ InspectAndPlan
  <2>1. /\ UNCHANGED <<mem, disk, lost>> /\ Hand = {} /\ Retracted = {}
        /\ pc # "down" /\ pc' # "down"
    BY <1>0, <1>3, HandEmpty DEF ScanMembership, ResolveSources, InspectAndPlan, meter
  <2> QED
    BY <1>1, <2>1
<1>4. ASSUME NEW k \in Keys, \/ SkipMount(k) \/ AttachFails(k) \/ UnmountFails(k)
                             \/ ResolveMount(k) \/ VerifyRemoval(k)
      PROVE  MountsAccountedFor'
  <2>1. /\ UNCHANGED <<mem, disk, lost>>
        /\ pc # "down" /\ pc' # "down"
        /\ pc \notin {"save", "rollback", "umount"} \/ step.op \in {"remove", "unmount"}
    BY <1>4 DEF SkipMount, AttachFails, UnmountFails, ResolveMount, VerifyRemoval, Finish, Due
  <2>2. Hand = {} /\ Retracted = {}
    BY <1>0, <2>1, HandEmpty
  <2> QED
    BY <1>1, <2>1, <2>2
<1>5. ASSUME NEW k \in Keys, Unmount(k) PROVE MountsAccountedFor'
  <2>1. /\ UNCHANGED disk /\ Hand = {} /\ Retracted = {}
        /\ pc = "umount" /\ step.op = "unmount" /\ step.key = k
    BY <1>0, <1>5, HandEmpty DEF Unmount
  <2>2. CASE Finish([op |-> "remove", key |-> k], FALSE) /\ UNCHANGED <<mem, lost>>
    <3>1. pc' # "down"
      BY <2>2 DEF Finish
    <3> QED
      BY <1>1, <2>1, <2>2, <3>1
  <2>3. CASE /\ Attached(mem[k].target) /\ Pop(mem[k].target)
             /\ mem' = [mem EXCEPT ![k] = NoRecord]
             /\ lost' = lost \cup Missed(mem[k].target, step.pinned)
    <3> DEFINE t == mem[k].target
    <3>1. t \in Targets /\ mem[k] # NoRecord
      BY <1>5, PinnedHasRecord DEF Unmount, TypeOK, StateOK, MountRecord
    <3>2. \A u \in Targets : \A n \in Mounts(u)' : Distinct(Top(t), n)
      BY <1>5, <2>3, <3>1, AttachedTop, PopStacks DEF Unmount, TypeOK
    <3>4. PICK p \in Mounts(t) : p.unique = step.pinned
      BY <2>3 DEF Attached
    <3>5. Matches(ReadIdentity(p), mem[k].identity)
      BY <2>1, <3>1, <3>4 DEF PinnedKnown
    <3>3. ASSUME NEW u \in Targets, NEW n \in Mounts(u), \E m \in Mounts(u)' : Twins(m, n),
                 n.unique \notin lost', Claims(mem, u, n)
          PROVE  Claims(mem', u, n)
      <4>1. Distinct(Top(t), n)
        BY <3>2, <3>3 DEF Distinct, Twins
      <4>2. p \in Mount /\ n \in Mount
        BY <3>1, <3>4, MountIn DEF TypeOK
      <4>3. ~(mem[k].target = u /\ Matches(ReadIdentity(n), mem[k].identity))
        <5> SUFFICES ASSUME u = t, Matches(ReadIdentity(n), mem[k].identity) PROVE FALSE
          OBVIOUS
        <5>1. n = p \/ Distinct(n, p)
          BY <3>1, <3>4 DEF StacksApart, StackApart, Apart, Mounts
        <5>2. n = p
          BY <3>5, <4>2, <5>1, OneMatch
        <5>3. step.pinned \in Missed(t, step.pinned)
          BY <3>4, <4>1, <5>2 DEF Missed, Distinct
        <5> QED
          BY <2>3, <3>3, <3>4, <5>2, <5>3
      <4> QED
        BY <1>0, <2>3, <3>3, <4>3, OtherClaims
    <3> QED
      BY <2>1, <2>3, <3>3, StayAccounted DEF Accounted
  <2>4. CASE Attached(mem[k].target)
    BY <1>5, <2>3, <2>4 DEF Unmount
  <2>5. CASE ~Attached(mem[k].target)
    BY <1>5, <2>2, <2>5 DEF Unmount
  <2> QED
    BY <2>4, <2>5
<1>6. ASSUME NEW k \in Keys, Drop(k) PROVE MountsAccountedFor'
  <2>1. /\ UNCHANGED disk /\ Hand = {} /\ Retracted = {} /\ pc = "run"
        /\ lost' = lost \cup {m.unique : m \in ClaimedBy(k)}
        /\ mem' = [mem EXCEPT ![k] = NoRecord]
    BY <1>0, <1>6, HandEmpty DEF Drop, Due
  <2>2. ASSUME NEW u \in Targets, NEW n \in Mounts(u), n.by # Foreign, n.unique \notin lost',
               Claims(mem, u, n)
        PROVE  Claims(mem', u, n)
    <3>1. n \notin ClaimedBy(k)
      BY <2>1, <2>2
    <3>2. n \in AllMounts
      BY DEF AllMounts
    <3>3. ~Matches(ReadIdentity(n), mem[k].identity)
      BY <2>2, <3>1, <3>2 DEF ClaimedBy
    <3> QED
      BY <1>0, <2>1, <2>2, <3>3, OtherClaims
  <2> QED
    BY <2>1, <2>2, StayAccounted DEF Accounted
<1>7. CASE SaveSucceeds
  <2>1. /\ UNCHANGED <<mem, lost>> /\ disk' = mem /\ pc = "save" /\ pc' # "down"
        /\ Retracted = {}
    BY <1>7 DEF SaveSucceeds, Finish, Retracted, meter
  <2> QED
    BY <2>1, StayAccounted DEF Accounted
<1>8. ASSUME NEW late \in BOOLEAN, SaveFails(late) PROVE MountsAccountedFor'
  <2>1. /\ pc = "save" /\ pc' # "down" /\ disk' = (IF late THEN mem ELSE disk)
        /\ step.op \in {"mount", "remove"} /\ Retracted = {} /\ UNCHANGED lost
    BY <1>0, <1>8 DEF SaveFails, Finish, Retracted
  <2>2. CASE step.op = "remove"
    <3>1. UNCHANGED <<mem, lost>> /\ Hand = {}
      BY <1>0, <1>8, <2>2, HandEmpty DEF SaveFails
    <3> QED
      BY <2>1, <3>1, StayAccounted DEF Accounted
  <2>3. CASE step.op = "mount"
    <3> DEFINE k == step.key
    <3>1. /\ k \in Keys /\ HandTarget \in Targets /\ mem[k].target = HandTarget
          /\ Making /\ Hand = {step.unique}
      BY <2>1, <2>3, HandTargetIn DEF HandKnown, Making, Hand
    <3>2. /\ mem' = [mem EXCEPT ![k] = step.previous]
          /\ Hand' = Hand /\ Retracted' = Hand
      <4>1. /\ step' = [op |-> "rollback", key |-> k, identity |-> step.identity,
                        unique |-> step.unique]
            /\ mem' = [mem EXCEPT ![k] = step.previous] /\ pc' = "rollback"
        BY <1>8, <2>3 DEF SaveFails
      <4> QED
        BY <3>1, <4>1 DEF Hand, Retracted, Making
    <3>3. ASSUME NEW u \in Targets, NEW n \in Mounts(u), n.by # Foreign,
                 Claims(mem, u, n), n.unique \notin Hand
          PROVE  Claims(mem', u, n)
      <4>1. u # HandTarget
        BY <3>1, <3>3 DEF HandKnown
      <4> QED
        BY <1>0, <3>1, <3>2, <3>3, <4>1, OtherClaims
    <3> QED
      BY <2>1, <3>2, <3>3, StayAccounted DEF Accounted
  <2> QED
    BY <2>1, <2>2, <2>3
<1>a. CASE VerifyRollback
  <2>1. /\ UNCHANGED <<mem, disk>> /\ pc' # "down" /\ pc = "rollback"
        /\ Retracted = Hand /\ Hand = {step.unique}
    BY <1>0, <1>a, VerifyRollbackIs DEF Finish, Retracted, Hand, Making, StepOK
  <2>2. CASE lost' = lost \cup {step.unique}
    BY <2>1, <2>2, StayAccounted DEF Accounted
  <2>3. CASE /\ step' = [op |-> "undo", key |-> step.key, unique |-> step.unique,
                         pinned |-> Top(conf[step.key].target).unique]
             /\ pc' = "umount" /\ UNCHANGED <<pass, lost>>
    <3>1. Hand' = Hand /\ Retracted' = Hand
      BY <2>1, <2>3 DEF Hand, Retracted, Making
    <3> QED
      BY <1>1, <2>1, <2>3, <3>1
  <2> QED
    BY <1>a, <2>2, <2>3, VerifyRollbackIs
<1>b. ASSUME Rollback \/ RollbackFails PROVE MountsAccountedFor'
  <2>1. /\ UNCHANGED <<mem, disk>> /\ pc' # "down" /\ pc = "umount" /\ Making
        /\ Retracted = {step.unique} /\ Hand = {step.unique} /\ step.op = "undo"
    BY <1>b DEF Rollback, RollbackFails, Finish, Retracted, Hand, Making
  <2>2. CASE lost' = lost \cup {step.unique}
    BY <2>1, <2>2, StayAccounted DEF Accounted
  <2>3. CASE /\ Rollback /\ Attached(HandTarget) /\ Pop(HandTarget)
             /\ lost' = lost \cup Missed(HandTarget, step.unique)
    <3>1. HandTarget \in Targets /\ stack[HandTarget] # <<>>
      BY <2>1, <2>3, HandTargetIn, AttachedTop
    <3>2. \A u \in Targets : \A n \in Mounts(u)' : Distinct(Top(HandTarget), n)
      BY <2>3, <3>1, PopStacks DEF Rollback, TypeOK
    <3>3. ASSUME NEW u \in Targets, NEW n \in Mounts(u), \E m \in Mounts(u)' : Twins(m, n),
                 n.unique \notin lost'
          PROVE  n.unique \notin Hand
      <4>1. Distinct(Top(HandTarget), n)
        BY <3>2, <3>3 DEF Distinct, Twins
      <4> QED
        BY <2>1, <2>3, <3>3, <4>1 DEF Missed, Distinct
    <3> QED
      BY <2>1, <2>3, <3>3, StayAccounted DEF Accounted
  <2>4. CASE Rollback /\ Attached(HandTarget)
    BY <2>3, <2>4 DEF Rollback, HandTarget
  <2>5. CASE Rollback /\ ~Attached(HandTarget)
    BY <2>2, <2>5 DEF Rollback, HandTarget
  <2>6. CASE RollbackFails
    BY <2>2, <2>6 DEF RollbackFails
  <2> QED
    BY <1>b, <2>4, <2>5, <2>6
<1>9. CASE Crash
  <2>1. disk' = disk /\ pc' = "down" /\ lost' = lost \cup Hand
    BY <1>9 DEF Crash, Dies, Hand
  <2> QED
    BY <2>1, StayAccounted DEF Accounted
<1>10. ASSUME NEW saved \in BOOLEAN, Shutdown(saved) PROVE MountsAccountedFor'
  <2>1. /\ disk' = (IF saved THEN mem ELSE disk) /\ lost' = lost
        /\ pc = "idle" /\ pc' = "down" /\ Hand = {} /\ Retracted = {}
    BY <1>0, <1>10, HandEmpty DEF Shutdown, Dies
  <2> QED
    BY <2>1, StayAccounted DEF Accounted
<1>11. CASE Reboot
  <2>1. \A t \in Targets : stack'[t] = <<>>
    BY <1>11 DEF Reboot
  <2>2. \A t \in Targets : Mounts(t)' = {}
    BY <2>1 DEF Mounts
  <2> QED
    BY <2>2 DEF MountsAccountedFor
<1>12. CASE LoseStateFile
  <2>1. /\ UNCHANGED <<mem, pc>>
        /\ lost' = lost \cup {m.unique : m \in {n \in AllMounts : n.by # Foreign}}
    BY <1>12 DEF LoseStateFile
  <2>2. \A t \in Targets : \A n \in Mounts(t) : n.by # Foreign => n.unique \in lost'
    BY <2>1 DEF AllMounts
  <2> QED
    BY <2>1, <2>2, StayAccounted DEF Accounted
<1>13. CASE UNCHANGED vars \/ (Environment /\ ~Reboot /\ ~LoseStateFile)
  <2>1. UNCHANGED <<mem, disk, lost, pc, step>>
    BY <1>13 DEF Environment, Reconfigure, ToggleMember, ToggleReadable, ChangeSource,
         ToggleBlocked, ForeignUnmount, LoosenMount, ForeignMount, Others, vars
  <2> QED
    BY <1>1, <2>1 DEF Hand, Retracted, Making
<1> QED
  BY <1>2, <1>3, <1>4, <1>5, <1>6, <1>7, <1>8, <1>a, <1>b, <1>9, <1>10, <1>11, <1>12, <1>13
     DEF Next, Daemon, Failure

\* After a mount is made: it is in hand, with its record in memory, or it is lost.
LEMMA AttachAccounted ==
    ASSUME TypeOK, RemovalsComeFirst, Bookkeeping, NEW k \in Keys,
           AttachMount(k) \/ AttachUnidentified(k)
    PROVE  MountsAccountedFor'
<1> USE DEF Bookkeeping
<1>0. PICK m, t : m = NewMount(k, step.root) /\ t = conf[k].target
  OBVIOUS
<1>1. /\ pc = "attach" /\ step.key = k /\ FreeIds # {} /\ Push(t, m)
      /\ nextUnique' = nextUnique + 1 /\ UNCHANGED disk /\ pc' # "down"
      /\ lost \subseteq lost'
  BY <1>0 DEF AttachMount, AttachUnidentified, Finish
<1>2. /\ m \in Mount /\ m.unique = nextUnique
      /\ \A u \in Targets : Mounts(u)' = IF u = t THEN Mounts(t) \cup {m} ELSE Mounts(u)
  BY <1>0, <1>1, AttachStacks
<1>3. \A n : ReadIdentity(n)' = ReadIdentity(n)
  BY DEF ReadIdentity
<1>4. mem \in [Keys -> MountRecord \cup {NoRecord}]
  BY DEF TypeOK, StateOK
<1>5. ASSUME NEW u \in Targets, NEW n \in Mounts(u), n.by # Foreign, n.unique \notin lost'
      PROVE  Claims(mem, u, n)' /\ Claims(disk, u, n)'
  <2>1. Claims(mem, u, n) /\ Claims(disk, u, n)
    BY <1>1, <1>5 DEF MountsAccountedFor, InHand, Undone, Making, TypeOK, StepOK
  <2>2. u # t
    BY <1>0, <1>1, <1>5 DEF AttachFree, HandTarget
  <2>3. Claims(mem', u, n)
    <3>1. CASE UNCHANGED mem
      BY <2>1, <3>1
    <3>2. CASE mem' = [mem EXCEPT ![k] = RecordOf(k, m)]
      <4>1. mem[k] = NoRecord \/ mem[k].target # u
        BY <1>0, <1>1, <2>2 DEF AttachFree, HandTarget
      <4> QED
        BY <1>4, <2>1, <3>2, <4>1, OtherClaims
    <3> QED
      BY <1>0, <3>1, <3>2 DEF AttachMount, AttachUnidentified
  <2> QED
    BY <1>1, <1>3, <2>1, <2>3 DEF Claims
<1>6. ASSUME m.unique \notin lost' PROVE Claims(mem, t, m)' /\ InHand(m)'
  <2>1. AttachMount(k)
    BY <1>0, <1>6 DEF AttachUnidentified
  <2>2. mem'[k] = RecordOf(k, m) /\ InHand(m)'
    BY <1>0, <1>4, <2>1 DEF AttachMount, InHand, Making
  <2>3. RecordOf(k, m).target = t /\ Matches(ReadIdentity(m), RecordOf(k, m).identity)
    BY <1>0 DEF RecordOf, Matches
  <2>4. RecordOf(k, m) # NoRecord
    BY <1>2, RecordOfType, NoRecordIsNone DEF TypeOK
  <2> QED
    BY <1>3, <2>2, <2>3, <2>4 DEF Claims
<1>7. ASSUME NEW u \in Targets, NEW n \in Mounts(u)', n.by # Foreign, n.unique \notin lost'
      PROVE  /\ pc' # "down" => Claims(mem, u, n)' \/ Undone(n)'
             /\ Claims(disk, u, n)' \/ InHand(n)'
  <2>1. n \in Mounts(u) \/ (u = t /\ n = m)
    BY <1>2, <1>7
  <2> QED
    BY <1>5, <1>6, <1>7, <2>1
<1> QED
  BY <1>7 DEF MountsAccountedFor

\* The books hold when byssus is first started, and after every step.
LEMMA BooksStep ==
    ASSUME TypeOK, TypeOK', RemovalsComeFirst, Bookkeeping, [Next]_vars
    PROVE  Bookkeeping'
<1>1. StacksApart' /\ (Survivors \/ \E k \in Keys : AttachMount(k) \/ AttachUnidentified(k))
  BY StacksStep
<1>2. PendingFits' /\ RemovalTaken'
  BY PendingStep DEF Bookkeeping
<1>3. AttachFree' /\ HandKnown'
  BY HandStep
<1>5. PinnedKnown'
  <2>1. (\E k \in Keys : AttachMount(k) \/ AttachUnidentified(k)) => pc' # "umount"
    BY DEF AttachMount, AttachUnidentified, Finish
  <2> QED
    BY <1>1, <2>1, PinnedStays
<1>4. MountsAccountedFor'
  BY <1>1, AccountedStep, AttachAccounted
<1> QED
  BY <1>1, <1>2, <1>3, <1>4, <1>5 DEF Bookkeeping

\* In the initial state.
LEMMA BooksInit == Init => Bookkeeping
<1> SUFFICES ASSUME Init PROVE Bookkeeping
  OBVIOUS
<1>1. \A t \in Targets : stack[t] = <<>>
  BY DEF Init
<1>2. \A t \in Targets : Mounts(t) = {} /\ StackApart(stack[t])
  BY <1>1 DEF Mounts, StackApart
<1>3. AllMounts = {}
  BY <1>2 DEF AllMounts
<1>4. StacksApart /\ MountsAccountedFor
  BY <1>2, <1>3 DEF StacksApart, MountsAccountedFor
<1>5. AttachFree /\ HandKnown /\ PinnedKnown /\ PendingFits /\ RemovalTaken
  BY DEF Init, AttachFree, HandKnown, PinnedKnown, PendingFits, RemovalTaken, Making, NoStep
<1> QED
  BY <1>4, <1>5 DEF Bookkeeping

\* Every mount byssus made has its record, in memory and in the state file, whatever
\* fails and whoever interferes, except the mount in hand and those that `lost' names:
\* what try_mount, its rollback, try_unmount and drop_record do to the records never
\* loses a mount otherwise.  It holds with reused mount IDs, too, and across reboots.
THEOREM MountsAccounted == Spec => []MountsAccountedFor
<1>1. TypeOK /\ TypeOK' /\ RemovalsComeFirst /\ Bookkeeping /\ [Next]_vars => Bookkeeping'
  BY BooksStep
<1>2. Bookkeeping => MountsAccountedFor
  BY DEF Bookkeeping
<1> QED
  BY <1>1, <1>2, BooksInit, TypeCorrect, RemovalsFirst, PTL DEF Spec

\* Byssus never stacks a mount on one of its own (try_mount, the check before
\* create_bind), even if others mount and unmount between the plan and the step.
THEOREM OneView == Spec => []OneViewPerTarget
<1>1. TypeOK /\ TypeOK' /\ RemovalsComeFirst /\ Bookkeeping /\ [Next]_vars => Bookkeeping'
  BY BooksStep
<1>2. Bookkeeping => OneViewPerTarget
  BY DEF Bookkeeping, StacksApart, StackApart, Apart, OneViewPerTarget
<1> QED
  BY <1>1, <1>2, BooksInit, TypeCorrect, RemovalsFirst, PTL DEF Spec

(***************************************************************************)
(* Records name their own key's mounts.                                    *)
(***************************************************************************)

\* The identity is that of a mount there has been; while it is there, it is k's and is
\* still what the identity says.
Names(id, k) ==
    /\ id.unique \in 1..(nextUnique - 1)
    /\ \A m \in AllMounts : m.unique = id.unique => m.by = k /\ ReadIdentity(m) = id

KeysNamed ==
    /\ \A k \in Keys : /\ mem[k] # NoRecord => Names(mem[k].identity, k)
                       /\ disk[k] # NoRecord => Names(disk[k].identity, k)
    /\ step.op \in {"mount", "rollback"} => Names(step.identity, step.key)
    /\ step.op = "mount" /\ step.previous # NoRecord => Names(step.previous.identity, step.key)

\* Mounts after a step were there before, or have a new unique ID.
LEMMA OldOrNew ==
    ASSUME TypeOK, RemovalsComeFirst, Bookkeeping, [Next]_vars
    PROVE  \A m \in AllMounts' : \/ \E n \in AllMounts : Twins(m, n)
                                 \/ m.unique = nextUnique
<1>1. ASSUME Survivors, NEW m \in AllMounts'
      PROVE  (\E n \in AllMounts : Twins(m, n)) \/ m.unique = nextUnique
  <2>1. PICK t \in Targets : m \in Mounts(t)'
    BY DEF AllMounts
  <2> QED
    BY <1>1, <2>1 DEF Survivors, AllMounts
<1>2. ASSUME NEW k \in Keys, AttachMount(k) \/ AttachUnidentified(k), NEW m \in AllMounts'
      PROVE  (\E n \in AllMounts : Twins(m, n)) \/ m.unique = nextUnique
  <2> DEFINE n == NewMount(k, step.root)
  <2>1. /\ pc = "attach" /\ step.key = k /\ FreeIds # {}
        /\ Push(conf[k].target, n) /\ nextUnique' = nextUnique + 1
    BY <1>2 DEF AttachMount, AttachUnidentified
  <2>2. /\ n.unique = nextUnique
        /\ \A u \in Targets : Mounts(u)' =
              IF u = conf[k].target THEN Mounts(conf[k].target) \cup {n} ELSE Mounts(u)
    BY <2>1, AttachStacks DEF Bookkeeping
  <2>3. PICK t \in Targets : m \in Mounts(t)'
    BY DEF AllMounts
  <2>4. m \in AllMounts \/ m = n
    BY <2>2, <2>3 DEF AllMounts
  <2> QED
    BY <2>2, <2>4 DEF Twins
<1> QED
  BY <1>1, <1>2, StacksStep

\* What an identity names it names as long as the host runs.
LEMMA NamesStay ==
    ASSUME TypeOK, RemovalsComeFirst, Bookkeeping, "reboot" \notin Allowed, [Next]_vars,
           NEW id, NEW k, Names(id, k)
    PROVE  /\ id.unique \in 1..(nextUnique' - 1)
           /\ \A m \in AllMounts' : m.unique = id.unique => m.by = k /\ ReadIdentity(m) = id
<1>1. /\ nextUnique \in Nat /\ nextUnique' \in Nat /\ nextUnique <= nextUnique'
      /\ id.unique \in Nat /\ id.unique < nextUnique /\ id.unique >= 1
  BY GrowsStep DEF Grows, TypeOK, KernelOK, Bookkeeping, StacksApart, Names
<1>2. ASSUME NEW m \in AllMounts', m.unique = id.unique
      PROVE  m.by = k /\ ReadIdentity(m) = id
  <2>1. PICK n \in AllMounts : Twins(m, n)
    BY <1>1, <1>2, OldOrNew
  <2>2. n.by = k /\ ReadIdentity(n) = id
    BY <1>2, <2>1 DEF Twins, Names
  <2> QED
    BY <2>1, <2>2, TwinClaims DEF Twins
<1> QED
  BY <1>1, <1>2

\* The record made of a mount names it.
LEMMA NewNamed ==
    ASSUME UniqueSupported, TypeOK, Bookkeeping, NEW k \in Keys, AttachMount(k)
    PROVE  LET id == ReadIdentity(NewMount(k, step.root))
           IN  /\ id.unique \in 1..(nextUnique' - 1)
               /\ \A m \in AllMounts' : m.unique = id.unique => m.by = k /\ ReadIdentity(m) = id
<1> DEFINE n == NewMount(k, step.root)
           id == ReadIdentity(n)
<1>1. /\ pc = "attach" /\ step.key = k /\ FreeIds # {}
      /\ Push(conf[k].target, n) /\ nextUnique' = nextUnique + 1
  BY DEF AttachMount
<1>2. /\ n.unique = nextUnique /\ n.by = k
      /\ \A u \in Targets : Mounts(u)' =
            IF u = conf[k].target THEN Mounts(conf[k].target) \cup {n} ELSE Mounts(u)
  BY <1>1, AttachStacks DEF Bookkeeping
<1>3. nextUnique \in Nat \ {0} /\ \A m \in AllMounts : m.unique \in Nat /\ m.unique < nextUnique
  BY MountsTyped DEF TypeOK, KernelOK, Bookkeeping, StacksApart, Mount
<1>4. id.unique = nextUnique
  BY <1>2 DEF ReadIdentity
<1>5. \A m \in AllMounts' : m \in AllMounts \/ m = n
  BY <1>2 DEF AllMounts
<1>6. \A m \in AllMounts' : m.unique = nextUnique => m = n
  BY <1>3, <1>5
<1> QED
  BY <1>1, <1>2, <1>3, <1>4, <1>6

\* No step gives a record the identity of another key's mount.
LEMMA KeysNamedStep ==
    ASSUME UniqueSupported, "reboot" \notin Allowed, TypeOK, TypeOK', RemovalsComeFirst,
           Bookkeeping, KeysNamed, [Next]_vars
    PROVE  KeysNamed'
<1> DEFINE Named(id, k) ==
             /\ id.unique \in 1..(nextUnique' - 1)
             /\ \A m \in AllMounts' : m.unique = id.unique => m.by = k /\ ReadIdentity(m) = id
<1>1. ASSUME NEW id, NEW k, Names(id, k) PROVE Named(id, k)
  BY <1>1, NamesStay
<1>2. ASSUME NEW k \in Keys, AttachMount(k)
      PROVE  Named(ReadIdentity(NewMount(k, step.root)), k)
  BY <1>2, NewNamed
<1> HIDE DEF Named
<1>3. ASSUME NEW k \in Keys, mem'[k] # NoRecord PROVE Named(mem'[k].identity, k)
  <2>1. CASE mem'[k] = mem[k] \/ mem'[k] = disk[k]
    BY <1>1, <1>3, <2>1 DEF KeysNamed
  <2>2. CASE pc = "save" /\ step.op = "mount" /\ k = step.key /\ mem'[k] = step.previous
    BY <1>1, <1>3, <2>2 DEF KeysNamed
  <2>3. CASE AttachMount(k) /\ mem'[k] = RecordOf(k, NewMount(k, step.root))
    <3>1. mem'[k].identity = ReadIdentity(NewMount(k, step.root))
      BY <2>3 DEF RecordOf
    <3> QED
      BY <1>2, <2>3, <3>1
  <2> QED
    BY <1>3, <2>1, <2>2, <2>3, RecordsFrom
<1>4. ASSUME NEW k \in Keys, disk'[k] # NoRecord PROVE Named(disk'[k].identity, k)
  <2>1. disk'[k] = disk[k] \/ disk'[k] = mem[k]
    BY <1>4, RecordsFrom
  <2> QED
    BY <1>1, <1>4, <2>1 DEF KeysNamed
<1>5. ASSUME pc' = "save", step'.op = "mount"
      PROVE  /\ Named(step'.identity, step'.key)
             /\ step'.previous # NoRecord => Named(step'.previous.identity, step'.key)
  <2>1. CASE pc = "save" /\ step' = step
    BY <1>1, <1>5, <2>1 DEF KeysNamed
  <2>2. ASSUME NEW j \in Keys, AttachMount(j)
        PROVE  /\ Named(step'.identity, step'.key)
               /\ step'.previous # NoRecord => Named(step'.previous.identity, step'.key)
    <3>1. /\ step'.identity = ReadIdentity(NewMount(j, step.root))
          /\ step'.previous = mem[j] /\ step'.key = j
      BY <2>2 DEF AttachMount
    <3>2. mem[j] # NoRecord => Named(mem[j].identity, j)
      BY <1>1 DEF KeysNamed
    <3> QED
      BY <1>2, <2>2, <3>1, <3>2
  <2>3. (pc = "save" /\ step' = step) \/ \E j \in Keys : AttachMount(j)
    <3>1. step'.key \in Keys
      BY <1>5 DEF TypeOK, StepOK, StepType, NoStep
    <3> QED
      BY <1>5, <3>1, RecordsFrom
  <2> QED
    BY <2>1, <2>2, <2>3
<1>6. ASSUME pc' = "rollback" PROVE Named(step'.identity, step'.key)
  <2>1. step'.key \in Keys
    BY <1>6 DEF TypeOK, StepOK, StepType, NoStep
  <2>2. \/ pc = "rollback" /\ step' = step
        \/ /\ pc = "save" /\ step.op = "mount"
           /\ step'.identity = step.identity /\ step'.key = step.key
    BY <1>6, <2>1, RecordsFrom
  <2>3. /\ step.op \in {"mount", "rollback"}
        /\ step'.identity = step.identity /\ step'.key = step.key
    BY <2>2 DEF TypeOK, StepOK
  <2>4. Names(step.identity, step.key)
    BY <2>3 DEF KeysNamed
  <2> QED
    BY <1>1, <2>3, <2>4
<1>7. /\ step'.op = "mount" => pc' = "save"
      /\ step'.op = "rollback" => pc' = "rollback"
  BY DEF TypeOK, StepOK
<1> QED
  BY <1>3, <1>4, <1>5, <1>6, <1>7 DEF KeysNamed, Names, Named

(***************************************************************************)
(* What a pass would find.                                                 *)
(***************************************************************************)

\* The input of a pass that begins now.
LEMMA InputIs ==
    ASSUME TypeOK
    PROVE  /\ Wanted0 \subseteq Keys /\ DOMAIN InputNow.desired = Wanted0
           /\ Wanted(InputNow) = Wanted0
           /\ \A k \in Wanted0 : InputNow.desired[k] = conf[k]
           /\ \A k \in Keys : conf[k].target \in Targets
           /\ InputNow.records = mem /\ InputNow.frozen = unreadable
           /\ \A k \in Keys : InputNow.sources[k] = source[conf[k].source]
           /\ \A t \in Targets : InputNow.targets[t] = Inspect(t)
<1>1. /\ InputNow.desired = [k \in Wanted0 |-> conf[k]]
      /\ InputNow.records = mem /\ InputNow.frozen = unreadable
      /\ InputNow.sources = [k \in Keys |-> source[conf[k].source]]
      /\ InputNow.targets = [t \in Targets |-> Inspect(t)]
  BY DEF InputNow, PlanInput
<1>2. Wanted0 \subseteq Keys
  BY DEF Wanted0, TypeOK, WorldOK
<1>3. Wanted(InputNow) = Wanted0
  BY <1>1 DEF Wanted, Wanted0, Frozen
<1>4. \A k \in Keys : conf[k].target \in Targets
  BY ConfType DEF TypeOK, DesiredMount
<1> QED
  BY <1>1, <1>2, <1>3, <1>4

\* A step of the writer changes records and mounts only.
LEMMA InputAfter ==
    ASSUME UNCHANGED world
    PROVE  /\ InputNow'.desired = InputNow.desired /\ InputNow'.frozen = InputNow.frozen
           /\ InputNow'.sources = InputNow.sources /\ InputNow'.records = mem'
           /\ \A t \in Targets : InputNow'.targets[t] = Inspect(t)'
           /\ UNCHANGED <<stack, mem>> => InputNow' = InputNow
           /\ UNCHANGED stack => InputNow'.targets = InputNow.targets
<1>1. Wanted0' = Wanted0
  BY DEF Wanted0, world
<1>2. UNCHANGED stack => \A t \in Targets : Inspect(t)' = Inspect(t)
  BY DEF Inspect, Top, world
<1> QED
  BY <1>1, <1>2 DEF InputNow, PlanInput, world

\* A mount that matches the record of a key is the key's, and is as the record says.
LEMMA NamedMount ==
    ASSUME UniqueSupported, TypeOK, KeysNamed, NEW k \in Keys, mem[k] # NoRecord,
           NEW m \in AllMounts, Matches(ReadIdentity(m), mem[k].identity)
    PROVE  m.by = k /\ ReadIdentity(m) = mem[k].identity
<1>1. Names(mem[k].identity, k)
  BY DEF KeysNamed
<1>2. m.unique \in Nat \ {0}
  BY MountsTyped DEF TypeOK, Mount
<1>3. nextUnique \in Nat
  BY DEF TypeOK, KernelOK
<1>4. m.unique = mem[k].identity.unique
  BY <1>1, <1>2, <1>3 DEF Matches, ReadIdentity, NoUnique, Names
<1> QED
  BY <1>1, <1>4 DEF Names

\* The top of a stack is one of its mounts.
LEMMA TopIn ==
    ASSUME TypeOK, NEW t \in Targets, stack[t] # <<>>
    PROVE  Top(t) \in Mounts(t) /\ Top(t) \in AllMounts
<1>1. stack[t] \in Seq(Mount)
  BY DEF TypeOK, KernelOK
<1>2. Top(t) \in RangeOf(stack[t])
  BY <1>1, Popped DEF Top
<1> QED
  BY <1>2, MountsIsRange DEF AllMounts

\* What a pass takes for a key's view is the key's.
LEMMA VerifiedIs ==
    ASSUME UniqueSupported, TypeOK, KeysNamed, NEW k \in Keys, mem[k] # NoRecord
    PROVE  LET t == mem[k].target
           IN  /\ t \in Targets
               /\ Verified(InputNow, k) <=> OpenVerified(t, mem[k].identity)
               /\ Verified(InputNow, k) =>
                    /\ stack[t] # <<>> /\ t \notin blocked
                    /\ Top(t) \in Mounts(t)
                    /\ Top(t).by = k /\ ReadIdentity(Top(t)) = mem[k].identity
<1> DEFINE t == mem[k].target
<1>1. t \in Targets
  BY DEF TypeOK, StateOK, MountRecord
<1>2. InputNow.targets[t] = Inspect(t) /\ InputNow.records[k] = mem[k]
  BY <1>1, InputIs
<1>3. Verified(InputNow, k) <=> OpenVerified(t, mem[k].identity)
  BY <1>2 DEF Verified, OpenVerified, Inspect, Mounted, NotMounted, TargetUnavailable
<1>4. OpenVerified(t, mem[k].identity) =>
        /\ stack[t] # <<>> /\ t \notin blocked
        /\ Top(t) \in Mounts(t)
        /\ Top(t).by = k /\ ReadIdentity(Top(t)) = mem[k].identity
  BY <1>1, TopIn, NamedMount DEF OpenVerified
<1> QED
  BY <1>1, <1>3, <1>4

\* So no two records describe one mount.
LEMMA OneVerifiedNow ==
    ASSUME UniqueSupported, TypeOK, KeysNamed
    PROVE  OneVerified(InputNow)
<1>1. InputNow.records = mem
  BY InputIs
<1> SUFFICES ASSUME NEW i \in Keys, NEW j \in Keys, mem[i] # NoRecord, mem[j] # NoRecord,
                    mem[i].target = mem[j].target,
                    Verified(InputNow, i), Verified(InputNow, j)
             PROVE  i = j
  BY <1>1 DEF OneVerified
<1> QED
  BY VerifiedIs

(***************************************************************************)
(* What the writer's steps leave of the plan.                              *)
(***************************************************************************)

\* What is found on a target before and after a step.
LEMMA TargetsAre ==
    \A u \in Targets :
        /\ InputNow.targets[u] =
             IF u \in blocked THEN TargetUnavailable
             ELSE IF stack[u] = <<>> THEN NotMounted
             ELSE Mounted(ReadIdentity(Head(stack[u])), TRUE, Head(stack[u]).attrs)
        /\ InputNow'.targets[u] =
             IF u \in blocked' THEN TargetUnavailable
             ELSE IF stack'[u] = <<>> THEN NotMounted
             ELSE Mounted(ReadIdentity(Head(stack'[u])), TRUE, Head(stack'[u]).attrs)
BY DEF InputNow, PlanInput, Inspect, Top

\* A target whose mounts stay looks the same.
LEMMA TargetsStay ==
    ASSUME NEW t, UNCHANGED blocked, \A u \in Targets \ {t} : stack'[u] = stack[u]
    PROVE  \A u \in Targets \ {t} : InputNow'.targets[u] = InputNow.targets[u]
BY TargetsAre

\* What is found of a target before and after.
LEMMA TargetKinds ==
    ASSUME NEW t \in Targets
    PROVE  /\ InputNow.targets[t].kind = IF t \in blocked THEN "Unavailable"
                                        ELSE IF stack[t] = <<>> THEN "NotMounted" ELSE "Mounted"
           /\ InputNow'.targets[t].kind = IF t \in blocked' THEN "Unavailable"
                                         ELSE IF stack'[t] = <<>> THEN "NotMounted" ELSE "Mounted"
           /\ t \notin blocked /\ stack[t] # <<>> =>
                InputNow.targets[t] =
                  Mounted(ReadIdentity(Head(stack[t])), TRUE, Head(stack[t]).attrs)
           /\ t \notin blocked' /\ stack'[t] # <<>> =>
                InputNow'.targets[t] =
                  Mounted(ReadIdentity(Head(stack'[t])), TRUE, Head(stack'[t]).attrs)
BY TargetsAre DEF Mounted, NotMounted, TargetUnavailable

\* Dropping a record.
LEMMA DropLeaves ==
    ASSUME UniqueSupported, TypeOK, KeysNamed, NEW k \in Keys, Drop(k),
           PlanNow[k].removal = "drop"
    PROVE  StepOf(k, InputNow, InputNow') /\ Leaves(k, InputNow, InputNow')
<1>1. /\ UNCHANGED world /\ UNCHANGED stack
      /\ mem' = [mem EXCEPT ![k] = NoRecord] /\ mem \in [Keys -> MountRecord \cup {NoRecord}]
  BY DEF Drop, kernel, TypeOK, StateOK
<1>2. /\ InputNow'.desired = InputNow.desired /\ InputNow'.frozen = InputNow.frozen
      /\ InputNow'.sources = InputNow.sources /\ InputNow'.records = mem'
      /\ InputNow'.targets = InputNow.targets /\ InputNow.records = mem
      /\ Wanted0 \subseteq Keys /\ DOMAIN InputNow.desired = Wanted0
      /\ \A j \in Wanted0 : InputNow.desired[j].target \in Targets
  BY <1>1, InputIs, InputAfter
<1>3. \A j \in Keys \ {k} : InputNow'.records[j] = InputNow.records[j]
  BY <1>1, <1>2
<1>4. InputNow'.records[k] = NoRecord
  BY <1>1, <1>2
<1>5. \A j \in Keys \ {k} : Verified(InputNow', j) <=> Verified(InputNow, j)
  BY <1>2, <1>3, VerifiedStays
<1>6. OneVerified(InputNow)
  BY OneVerifiedNow
<1>7. OneVerified(InputNow')
  BY <1>3, <1>4, <1>5, <1>6, OneVerifiedStays
<1>8. StepOf(k, InputNow, InputNow')
  BY <1>2, <1>3, <1>5, <1>6, <1>7 DEF StepOf
<1> QED
  BY <1>2, <1>4, <1>8, RemovalLeaves DEF PlanNow

\* Unmounting a view: what comes to light below it is not byssus's.
LEMMA UnmountLeaves ==
    ASSUME UniqueSupported, TypeOK, Bookkeeping, KeysNamed, NEW k \in Keys, Unmount(k),
           mem[k] # NoRecord, PlanNow[k].removal = "unmount",
           Top(mem[k].target).unique = step.pinned
    PROVE  /\ mem' = [mem EXCEPT ![k] = NoRecord]
           /\ step' = [op |-> "remove", key |-> k] /\ pc' = "save" /\ UNCHANGED pass
           /\ StepOf(k, InputNow, InputNow') /\ Leaves(k, InputNow, InputNow')
<1> DEFINE t == mem[k].target
<1>1. Verified(InputNow, k)
  BY RemovalMeans DEF PlanNow
<1>2. /\ t \in Targets /\ OpenVerified(t, mem[k].identity)
      /\ stack[t] # <<>> /\ t \notin blocked /\ Top(t) \in Mounts(t) /\ Top(t).by = k
  BY <1>1, VerifiedIs
<1>3. /\ UNCHANGED world /\ Pop(t)
      /\ mem' = [mem EXCEPT ![k] = NoRecord] /\ mem \in [Keys -> MountRecord \cup {NoRecord}]
      /\ step' = [op |-> "remove", key |-> k] /\ pc' = "save" /\ UNCHANGED pass
      /\ stack \in [Targets -> Seq(Mount)]
  <2>1. Attached(t)
    BY <1>2 DEF Attached
  <2> QED
    BY <2>1 DEF Unmount, TypeOK, StateOK, KernelOK
<1>4. /\ stack'[t] = Tail(stack[t]) /\ blocked' = blocked
      /\ \A u \in Targets \ {t} : stack'[u] = stack[u]
  BY <1>2, <1>3 DEF Pop, world
<1>5. /\ InputNow'.desired = InputNow.desired /\ InputNow'.frozen = InputNow.frozen
      /\ InputNow'.sources = InputNow.sources /\ InputNow'.records = mem'
      /\ InputNow.records = mem
      /\ Wanted0 \subseteq Keys /\ DOMAIN InputNow.desired = Wanted0
      /\ \A j \in Wanted0 : InputNow.desired[j].target \in Targets
  BY <1>3, InputIs, InputAfter
<1>6. \A u \in Targets \ {t} : InputNow'.targets[u] = InputNow.targets[u]
  BY <1>4, TargetsStay
<1>7. /\ InputNow'.targets[t].kind # "Unavailable" /\ InputNow.targets[t].kind # "Unavailable"
      /\ stack'[t] = <<>> => InputNow'.targets[t].kind = "NotMounted"
      /\ stack'[t] # <<>> => InputNow'.targets[t].identity = ReadIdentity(Head(stack'[t]))
  <2>1. t \in Targets /\ t \notin blocked' /\ t \notin blocked
    BY <1>2, <1>4
  <2>2. InputNow'.targets[t].kind # "Unavailable" /\ InputNow.targets[t].kind # "Unavailable"
    BY <2>1, TargetKinds
  <2>3. stack'[t] = <<>> => InputNow'.targets[t].kind = "NotMounted"
    BY <2>1, TargetKinds
  <2>4. stack'[t] # <<>> =>
          InputNow'.targets[t] =
            Mounted(ReadIdentity(Head(stack'[t])), TRUE, Head(stack'[t]).attrs)
    BY <2>1, TargetKinds
  <2> QED
    BY <2>2, <2>3, <2>4 DEF Mounted
<1>8. \A j \in Keys \ {k} : InputNow'.records[j] = InputNow.records[j]
  BY <1>3, <1>5
<1>9. ASSUME stack'[t] # <<>>
      PROVE  Head(stack'[t]) \in AllMounts /\ Head(stack'[t]).by = Foreign
  <2>1. stack[t] \in Seq(Mount) /\ StackApart(stack[t])
    BY <1>2, <1>3 DEF Bookkeeping, StacksApart
  <2>2. Head(Tail(stack[t])) \in RangeOf(Tail(stack[t]))
    BY <1>2, <1>4, <1>9, <2>1, Popped
  <2>3. /\ Apart(Head(stack[t]), Head(Tail(stack[t])))
        /\ Head(Tail(stack[t])) \in RangeOf(stack[t])
    <3>1. /\ \A m \in RangeOf(Tail(stack[t])) : Apart(Head(stack[t]), m)
          /\ RangeOf(stack[t]) = RangeOf(Tail(stack[t])) \cup {Head(stack[t])}
      BY <1>2, <2>1, PoppedApart
    <3> QED
      BY <2>2, <3>1
  <2>4. Head(stack[t]).by # Foreign
    BY <1>2, ReconcilerAssumption DEF Top
  <2> QED
    BY <1>2, <1>4, <2>3, <2>4, AllMountsDef DEF Apart
<1>10. ASSUME NEW j \in Keys \ {k}, mem[j] # NoRecord, mem[j].target = t
       PROVE  ~Verified(InputNow', j) /\ ~Verified(InputNow, j)
  <2>1. ~Verified(InputNow, j)
    BY <1>1, <1>5, <1>10, OneVerifiedNow DEF OneVerified
  <2>2. ASSUME Verified(InputNow', j) PROVE FALSE
    <3>1. /\ InputNow'.targets[t].kind = "Mounted"
          /\ Matches(InputNow'.targets[t].identity, mem[j].identity)
      BY <1>5, <1>8, <1>10, <2>2 DEF Verified
    <3>2. stack'[t] # <<>>
      BY <1>7, <3>1
    <3>3. Matches(ReadIdentity(Head(stack'[t])), mem[j].identity)
      BY <1>7, <3>1, <3>2
    <3>4. Head(stack'[t]).by = j
      BY <1>9, <1>10, <3>2, <3>3, NamedMount
    <3> QED
      BY <1>9, <3>2, <3>4, ReconcilerAssumption
  <2> QED
    BY <2>1, <2>2
<1>11. ASSUME NEW j \in Keys \ {k}, mem[j] # NoRecord
       PROVE  /\ Verified(InputNow', j) <=> Verified(InputNow, j)
              /\ InputNow'.targets[mem[j].target].kind = "Unavailable"
                   <=> InputNow.targets[mem[j].target].kind = "Unavailable"
  <2>1. CASE mem[j].target = t
    BY <1>7, <1>10, <1>11, <2>1
  <2>2. CASE mem[j].target # t
    <3>1. mem[j].target \in Targets
      BY <1>11 DEF TypeOK, StateOK, MountRecord
    <3>2. InputNow'.targets[mem[j].target] = InputNow.targets[mem[j].target]
      BY <1>6, <2>2, <3>1
    <3> QED
      BY <1>5, <1>8, <3>2, VerifiedStays
  <2> QED
    BY <2>1, <2>2
<1>12. InputNow'.records[k] = NoRecord
  BY <1>3, <1>5
<1>13. OneVerified(InputNow) /\ OneVerified(InputNow')
  BY <1>5, <1>8, <1>11, <1>12, OneVerifiedNow, OneVerifiedStays
<1>14. StepOf(k, InputNow, InputNow')
  BY <1>5, <1>8, <1>11, <1>13 DEF StepOf
<1> QED
  BY <1>2, <1>3, <1>5, <1>6, <1>7, <1>12, <1>14, RemovalLeaves DEF PlanNow

\* Mounting a member on a target where nothing is mounted.
LEMMA AttachLeaves ==
    ASSUME UniqueSupported, TypeOK, Bookkeeping, KeysNamed, NEW k \in Keys, AttachMount(k),
           k \in Wanted0, stack[conf[k].target] = <<>>, conf[k].target \notin blocked,
           step.root = source[conf[k].source]
    PROVE  /\ StepOf(k, InputNow, InputNow') /\ Leaves(k, InputNow, InputNow')
           /\ ~PlanNow'[k].mount
<1> DEFINE t == conf[k].target
           n == NewMount(k, step.root)
<1>1. /\ UNCHANGED world /\ Push(t, n) /\ pc = "attach" /\ step.key = k /\ FreeIds # {}
      /\ mem' = [mem EXCEPT ![k] = RecordOf(k, n)] /\ nextUnique' = nextUnique + 1
      /\ mem \in [Keys -> MountRecord \cup {NoRecord}]
      /\ stack \in [Targets -> Seq(Mount)] /\ nextUnique \in Nat \ {0}
  BY DEF AttachMount, TypeOK, StateOK, KernelOK
<1>2. n \in Mount /\ n.unique = nextUnique /\ n.by = k
  BY <1>1, AttachStacks DEF Bookkeeping
<1>3. n.root = step.root /\ n.attrs = conf[k].attrs \cup AlwaysOn
  BY DEF NewMount
<1>4. t \in Targets
  BY InputIs
<1> HIDE DEF n
<1>5. /\ stack'[t] # <<>> /\ Head(stack'[t]) = n
      /\ \A u \in Targets \ {t} : stack'[u] = stack[u]
      /\ blocked' = blocked
  BY <1>1, <1>2, <1>4 DEF Push, world
<1>6. /\ InputNow'.desired = InputNow.desired /\ InputNow'.frozen = InputNow.frozen
      /\ InputNow'.sources = InputNow.sources /\ InputNow'.records = mem'
      /\ InputNow.records = mem
      /\ Wanted0 \subseteq Keys /\ DOMAIN InputNow.desired = Wanted0
      /\ Wanted(InputNow) = Wanted0
      /\ \A j \in Wanted0 : InputNow.desired[j].target \in Targets
      /\ InputNow.desired[k] = conf[k] /\ InputNow.sources[k] = source[conf[k].source]
  BY <1>1, InputIs, InputAfter
<1>7. \A u \in Targets \ {t} : InputNow'.targets[u] = InputNow.targets[u]
  BY <1>5, TargetsStay
<1>8. /\ InputNow.targets[t].kind = "NotMounted"
      /\ InputNow'.targets[t] = Mounted(ReadIdentity(n), TRUE, n.attrs)
  BY <1>4, <1>5, TargetKinds
<1>9. \A j \in Keys \ {k} : InputNow'.records[j] = InputNow.records[j]
  BY <1>1, <1>6
<1>10. /\ mem'[k] = RecordOf(k, n)
       /\ mem'[k].source = conf[k].source /\ mem'[k].target = t
       /\ mem'[k].attrs = conf[k].attrs /\ mem'[k].identity = ReadIdentity(n)
  BY <1>1 DEF RecordOf
<1>11. ASSUME NEW j \in Keys \ {k}, mem[j] # NoRecord, mem[j].target = t
       PROVE  ~Verified(InputNow', j) /\ ~Verified(InputNow, j)
  <2>1. ~Verified(InputNow, j)
    BY <1>6, <1>8, <1>11 DEF Verified
  <2>2. ASSUME Verified(InputNow', j) PROVE FALSE
    <3>1. Matches(ReadIdentity(n), mem[j].identity)
      BY <1>6, <1>8, <1>9, <1>11, <2>2 DEF Verified, Mounted
    <3>2. Names(mem[j].identity, j)
      BY <1>11 DEF KeysNamed
    <3>3. mem[j].identity.unique \in 1..(nextUnique - 1)
      BY <3>2 DEF Names
    <3>4. ReadIdentity(n).unique = nextUnique
      BY <1>2 DEF ReadIdentity
    <3> QED
      BY <1>1, <3>1, <3>3, <3>4 DEF Matches, NoUnique
  <2> QED
    BY <2>1, <2>2
<1>12. ASSUME NEW j \in Keys \ {k}, mem[j] # NoRecord
       PROVE  /\ Verified(InputNow', j) <=> Verified(InputNow, j)
              /\ InputNow'.targets[mem[j].target].kind = "Unavailable"
                   <=> InputNow.targets[mem[j].target].kind = "Unavailable"
  <2>1. CASE mem[j].target = t
    BY <1>8, <1>11, <1>12, <2>1 DEF Mounted
  <2>2. CASE mem[j].target # t
    <3>1. mem[j].target \in Targets
      BY <1>12 DEF TypeOK, StateOK, MountRecord
    <3>2. InputNow'.targets[mem[j].target] = InputNow.targets[mem[j].target]
      BY <1>7, <2>2, <3>1
    <3> QED
      BY <1>6, <1>9, <3>2, VerifiedStays
  <2> QED
    BY <2>1, <2>2
<1>13. OneVerified(InputNow)
  BY OneVerifiedNow
<1>14. OneVerified(InputNow')
  <2>1. \A j \in Keys \ {k} :
           /\ InputNow.records[j] # NoRecord => (Verified(InputNow', j) <=> Verified(InputNow, j))
           /\ InputNow.records[j] # NoRecord /\ InputNow.records[j].target = InputNow'.records[k].target
                => ~Verified(InputNow, j)
    BY <1>6, <1>10, <1>11, <1>12
  <2> QED
    BY <1>9, <1>13, <2>1, OneVerifiedStays
<1>15. StepOf(k, InputNow, InputNow')
  BY <1>6, <1>9, <1>12, <1>13, <1>14 DEF StepOf
<1>16. RecordMatchesDesired(InputNow', k) /\ Verified(InputNow', k) /\ UpToDate(InputNow', k)
  <2>1. InputNow'.records[k] # NoRecord
    BY <1>2, <1>6, <1>10, RecordOfType, NoRecordIsNone DEF TypeOK
  <2>2. RecordMatchesDesired(InputNow', k)
    BY <1>6, <1>10, <2>1 DEF RecordMatchesDesired
  <2>3. Verified(InputNow', k)
    BY <1>6, <1>8, <1>10 DEF Verified, Mounted, Matches
  <2>4. InputNow'.records[k].identity.root = step.root
    BY <1>3, <1>6, <1>10 DEF ReadIdentity
  <2>5. UpToDate(InputNow', k)
    BY <1>3, <1>6, <1>8, <1>10, <2>4 DEF UpToDate, Mounted, Enforces
  <2> QED
    BY <2>2, <2>3, <2>5
<1>17. InputNow.sources[k] # Gone
  BY <1>1, <1>6, AttachInHand, PlanAssumption DEF TypeOK
<1>18. InputNow.records[k] = NoRecord \/ InputNow.records[k].target = t
  BY <1>1, <1>6 DEF Bookkeeping, AttachFree, HandTarget
<1> QED
  BY <1>6, <1>7, <1>8, <1>15, <1>16, <1>17, <1>18, MountLeaves DEF PlanNow

(***************************************************************************)
(* A calm pass.                                                            *)
(***************************************************************************)

Take(k) == [op |-> "remove", key |-> k]
Put(k) == [op |-> "mount", key |-> k]

\* The steps whose effects are still to come: all but the one being saved.
Remaining == todo \ (IF pc = "save" THEN {SavedStep} ELSE {})

SourcesNow == [k \in Keys |-> source[conf[k].source]]

\* What the pass has observed is still so.
CalmSeen ==
    /\ pc \notin {"down", "rollback"}
    /\ pc \in {"sources", "targets"} => seen.desired = Wanted0 /\ seen.frozen = unreadable
    /\ pc = "targets" => seen.sources = SourcesNow

\* The steps that remain are those a new plan would have, or more; for the covered members
\* there are none.
CalmTodo ==
    /\ bad = {}
    /\ \A s \in todo : s.key \notin covered
    /\ \A k \in Keys :
         /\ Put(k) \in todo => k \in Wanted0
         /\ Take(k) \in Remaining => PlanNow[k].removal = plan[k].removal
         /\ k \notin covered /\ PlanNow[k].removal # "none" => Take(k) \in Remaining
         /\ k \notin covered /\ PlanNow[k].mount => Put(k) \in Remaining
         /\ k \in covered => /\ k \in Accepted(InputNow)
                             /\ RecordMatchesDesired(InputNow, k) /\ ~Verified(InputNow, k)
    /\ Covered(InputNow) \subseteq covered

\* The mount about to be made is made on a free target.
CalmAttach ==
    /\ stack[HandTarget] = <<>> /\ HandTarget \notin blocked
    /\ step.root = source[conf[step.key].source]
    /\ Put(step.key) \in todo

\* The mount about to be unmounted is the one on top of its target, and the plan still
\* wants it away.
CalmUnmount ==
    /\ step.op = "unmount" /\ Take(step.key) \in todo
    /\ plan[step.key].removal = "unmount"
    /\ Top(mem[step.key].target).unique = step.pinned

Calm ==
    calm => /\ CalmSeen
            /\ pc \in {"idle", "run", "attach", "save", "umount"} => CalmTodo
            /\ pc = "attach" => CalmAttach
            /\ pc = "umount" => CalmUnmount

\* A step for k that leaves the rest of the plan leaves the rest of the steps.
LEMMA CalmStays ==
    ASSUME TypeOK, CalmTodo, NEW k \in Keys, NEW s \in {Take(k), Put(k)}, s \in todo,
           StepOf(k, InputNow, InputNow'), Leaves(k, InputNow, InputNow'),
           s = Put(k) => ~PlanNow'[k].mount /\ Take(k) \notin Remaining,
           UNCHANGED <<world, covered, plan, todo, bad>>, Remaining' = Remaining \ {s}
    PROVE  CalmTodo'
<1>1. k \notin covered
  BY DEF CalmTodo, Take, Put
<1>2. Wanted0' = Wanted0
  BY DEF Wanted0, world
<1>3. PlanNow = Plan(InputNow) /\ PlanNow' = Plan(InputNow')
  BY DEF PlanNow
<1>4. /\ PlanNow'[k].removal = "none"
      /\ PlanNow'[k].mount => PlanNow[k].mount
      /\ Covered(InputNow') \subseteq covered
      /\ \A j \in Keys \ {k} : j \notin covered =>
           /\ PlanNow'[j].removal = PlanNow[j].removal
           /\ PlanNow'[j].mount => PlanNow[j].mount
  BY <1>3 DEF Leaves, CalmTodo
<1>5. Take(k) # Put(k) /\ \A j \in Keys \ {k} : s # Take(j) /\ s # Put(j)
  BY DEF Take, Put
<1>6. Take(k) \notin Remaining'
  BY <1>5
<1>7. ASSUME NEW j \in Keys
      PROVE  /\ Put(j) \in todo' => j \in Wanted0'
             /\ Take(j) \in Remaining' => PlanNow'[j].removal = plan'[j].removal
             /\ j \notin covered' /\ PlanNow'[j].removal # "none" => Take(j) \in Remaining'
             /\ j \notin covered' /\ PlanNow'[j].mount => Put(j) \in Remaining'
             /\ j \in covered' => /\ j \in Accepted(InputNow')
                                  /\ RecordMatchesDesired(InputNow', j)
                                  /\ ~Verified(InputNow', j)
  <2>1. Put(j) \in todo' => j \in Wanted0'
    BY <1>2 DEF CalmTodo
  <2>2. Take(j) \in Remaining => j \notin covered
    <3>1. Take(j) \in Remaining => Take(j) \in todo
      BY DEF Remaining
    <3> QED
      BY <3>1 DEF CalmTodo, Take
  <2>3. Take(j) \in Remaining' => PlanNow'[j].removal = plan'[j].removal
    BY <1>4, <1>6, <2>2 DEF CalmTodo
  <2>4. j \notin covered' /\ PlanNow'[j].removal # "none" => Take(j) \in Remaining'
    BY <1>4, <1>5 DEF CalmTodo
  <2>5. j \notin covered' /\ PlanNow'[j].mount => Put(j) \in Remaining'
    BY <1>4, <1>5 DEF CalmTodo
  <2>6. ASSUME j \in covered'
        PROVE  /\ j \in Accepted(InputNow')
               /\ RecordMatchesDesired(InputNow', j) /\ ~Verified(InputNow', j)
    <3>1. /\ j \in Keys \ {k} /\ j \in Accepted(InputNow)
          /\ RecordMatchesDesired(InputNow, j) /\ ~Verified(InputNow, j)
      BY <1>1, <2>6 DEF CalmTodo
    <3>2. Verified(InputNow', j) <=> Verified(InputNow, j)
      BY <3>1 DEF StepOf, RecordMatchesDesired
    <3> QED
      BY <3>1, <3>2, OthersStay
  <2> QED
    BY <2>1, <2>3, <2>4, <2>5, <2>6
<1>8. bad' = {} /\ \A r \in todo' : r.key \notin covered'
  BY DEF CalmTodo
<1> QED
  BY <1>4, <1>7, <1>8 DEF CalmTodo, Take, Put

\* A step that is over, of which nothing is left to do.
LEMMA CalmFinish ==
    ASSUME TypeOK, CalmTodo, UNCHANGED <<world, stack, mem, covered>>, NEW s, NEW done,
           Finish(s, done), done \/ s.op = "mount",
           pc = "save" => s = SavedStep,
           pc # "save" => \E k \in Keys : s = Put(k) /\ ~PlanNow[k].mount
    PROVE  CalmTodo' /\ pc' \in {"idle", "run"}
<1>1. InputNow' = InputNow
  BY InputAfter
<1>2. PlanNow' = PlanNow /\ Wanted0' = Wanted0
  BY <1>1 DEF PlanNow, Wanted0, world
<1>3. /\ todo' = todo \ {s} /\ bad' = {} /\ pc' \in {"idle", "run"}
      /\ todo' # {} => plan' = plan
  BY DEF Finish, CalmTodo
<1>4. Remaining' = Remaining \ {s}
  <2>1. Remaining' = todo \ {s}
    BY <1>3 DEF Remaining
  <2> QED
    BY <2>1 DEF Remaining
<1>5. pc = "save" => Remaining' = Remaining
  BY <1>4 DEF Remaining
<1>6. Remaining \subseteq todo /\ Remaining' \subseteq todo'
  BY DEF Remaining
<1>7. ASSUME NEW j \in Keys
      PROVE  /\ Put(j) \in todo' => j \in Wanted0'
             /\ Take(j) \in Remaining' => PlanNow'[j].removal = plan'[j].removal
             /\ j \notin covered' /\ PlanNow'[j].removal # "none" => Take(j) \in Remaining'
             /\ j \notin covered' /\ PlanNow'[j].mount => Put(j) \in Remaining'
  <2>1. \A k \in Keys : /\ s = Put(k) => s # Take(j)
                        /\ s = Put(k) /\ s = Put(j) => k = j
    BY DEF Take, Put
  <2>2. Take(j) \in Remaining => Take(j) \in Remaining'
    BY <1>4, <1>5, <2>1
  <2>3. PlanNow[j].mount /\ Put(j) \in Remaining => Put(j) \in Remaining'
    BY <1>4, <1>5, <2>1
  <2>4. Take(j) \in Remaining' => PlanNow[j].removal = plan[j].removal /\ plan' = plan
    BY <1>3, <1>4, <1>6 DEF CalmTodo
  <2> QED
    BY <1>2, <1>3, <2>2, <2>3, <2>4 DEF CalmTodo
<1>8. /\ \A r \in todo' : r.key \notin covered'
      /\ Covered(InputNow') \subseteq covered'
      /\ \A j \in covered' : /\ j \in Accepted(InputNow')
                             /\ RecordMatchesDesired(InputNow', j) /\ ~Verified(InputNow', j)
  <2>1. covered \subseteq Keys
    BY DEF TypeOK, MeterOK
  <2> QED
    BY <1>1, <1>3, <2>1 DEF CalmTodo
<1> QED
  BY <1>3, <1>7, <1>8 DEF CalmTodo, Take, Put

\* The plan that is made is the plan for what there is.
LEMMA CalmPlan ==
    ASSUME TypeOK, CalmSeen, InspectAndPlan
    PROVE  CalmTodo' /\ pc' \in {"idle", "run"}
<1>1. PlanInput(seen) = InputNow
  BY DEF InspectAndPlan, CalmSeen, PlanInput, InputNow, SourcesNow
<1>2. /\ todo' = StepsOf(PlanNow)
      /\ IsNoop(PlanNow) \/ plan' = PlanNow
      /\ pc' \in {"idle", "run"}
      /\ covered' = Covered(InputNow)
      /\ bad' = {} /\ UNCHANGED <<world, stack, mem>>
  BY <1>1 DEF InspectAndPlan, PlanNow, Covered, CoveredBy, kernel
<1>3. InputNow' = InputNow
  BY <1>2, InputAfter
<1>4. PlanNow' = PlanNow /\ Wanted0' = Wanted0 /\ PlanNow = Plan(InputNow)
  BY <1>2, <1>3 DEF PlanNow, Wanted0, world
<1>5. Remaining' = todo'
  BY <1>2 DEF Remaining
<1>6. ASSUME NEW j \in Keys
      PROVE  /\ Take(j) \in todo' <=> PlanNow[j].removal # "none"
             /\ Put(j) \in todo' <=> PlanNow[j].mount
  BY <1>2 DEF StepsOf, Take, Put
<1>7. \A r \in todo' : /\ r.key \in Keys
                       /\ PlanNow[r.key].removal # "none" \/ PlanNow[r.key].mount
  BY <1>2 DEF StepsOf
<1>8. \A j \in covered' : /\ j \in Keys /\ j \in Accepted(InputNow)
                          /\ RecordMatchesDesired(InputNow, j) /\ ~Verified(InputNow, j)
                          /\ PlanNow[j].removal = "none" /\ PlanNow[j].mount = FALSE
  <2>1. ASSUME NEW j \in Covered(InputNow)
        PROVE  /\ j \in Keys /\ j \in Accepted(InputNow)
               /\ RecordMatchesDesired(InputNow, j) /\ ~Verified(InputNow, j)
               /\ PlanNow[j].removal = "none" /\ PlanNow[j].mount = FALSE
    <3>1. j \in Keys /\ "TargetReplaced" \in PlanNow[j].findings
      BY <1>4 DEF Covered
    <3> QED
      BY <1>4, <3>1, ReplacedIf
  <2> QED
    BY <1>2, <2>1
<1>9. ASSUME NEW j \in Keys
      PROVE  /\ Put(j) \in todo' => j \in Wanted0'
             /\ Take(j) \in Remaining' => PlanNow'[j].removal = plan'[j].removal
             /\ j \notin covered' /\ PlanNow'[j].removal # "none" => Take(j) \in Remaining'
             /\ j \notin covered' /\ PlanNow'[j].mount => Put(j) \in Remaining'
  <2>1. PlanNow[j].mount => j \in Wanted0
    <3>1. PlanNow[j].mount => j \in Wanted(InputNow)
      BY <1>4, MountedIsAccepted DEF Accepted
    <3> QED
      BY <3>1, InputIs
  <2>2. PlanNow[j].removal # "none" => plan' = PlanNow
    BY <1>2 DEF IsNoop
  <2> QED
    BY <1>4, <1>5, <1>6, <2>1, <2>2
<1> QED
  BY <1>2, <1>3, <1>7, <1>8, <1>9 DEF CalmTodo, Take, Put

\* Nothing that a plan depends on changes.
LEMMA CalmSame ==
    ASSUME TypeOK, CalmTodo, UNCHANGED <<world, stack, mem, covered, plan, todo, bad>>,
           Remaining' = Remaining
    PROVE  CalmTodo'
<1>1. InputNow' = InputNow
  BY InputAfter
<1>2. PlanNow' = PlanNow /\ Wanted0' = Wanted0
  BY <1>1 DEF PlanNow, Wanted0, world
<1> QED
  BY <1>1, <1>2 DEF CalmTodo, Take, Put

\* What a disturbance leaves is not calm.
LEMMA Disturbed ==
    ASSUME Failure \/ Environment
    PROVE  calm' = FALSE
<1>1. Failure => calm' = FALSE
  BY DEF Failure, AttachUnidentified, AttachFails, UnmountFails, SaveFails, RollbackFails, Crash,
     Shutdown, Disturbance
<1>2. Environment => calm' = FALSE
  BY DEF Environment, Reconfigure, ToggleMember, ToggleReadable, ChangeSource, ToggleBlocked,
     ForeignUnmount, LoosenMount, ForeignMount, Reboot, LoseStateFile, Disturbance
<1> QED
  BY <1>1, <1>2

\* A mount that is due and planned finds its source, and its target free.
LEMMA CalmTarget ==
    ASSUME UniqueSupported, TypeOK, KeysNamed, CalmTodo, NEW k \in Keys, Due(Put(k)),
           PlanNow[k].mount
    PROVE  /\ source[conf[k].source] # Gone
           /\ conf[k].target \notin blocked /\ stack[conf[k].target] = <<>>
<1> DEFINE t == conf[k].target
<1>1. pc = "run" /\ Put(k) \in todo
  BY DEF Due
<1>2. /\ \A r \in todo : r.op = "mount"
      /\ Remaining = todo
  BY <1>1, MountsDueLast DEF TypeOK, PassOK, Put, Remaining
<1>3. \A j \in Keys : Take(j) \notin todo
  BY <1>2 DEF Take
<1>4. k \in Wanted0 /\ k \notin covered
  BY <1>1 DEF CalmTodo, Put
<1>5. \A j \in Keys \ covered : PlanNow[j].removal = "none"
  BY <1>2, <1>3 DEF CalmTodo
<1>6. /\ InputNow.desired[k] = conf[k] /\ t \in Targets
      /\ InputNow.sources[k] = source[conf[k].source]
  BY <1>4, InputIs
<1>7. PlanNow = Plan(InputNow)
  BY DEF PlanNow
<1>8. /\ InputNow.sources[k] # Gone
      /\ InputNow.targets[t].kind # "Unavailable"
      /\ InputNow.targets[t].kind = "Mounted" =>
           PlanNow[k].removal # "none" \/ FreedBy(InputNow, t) # {}
  BY <1>6, <1>7, MountNeeds
<1>9. ASSUME NEW f \in FreedBy(InputNow, t) PROVE FALSE
  <2>1. f \in Keys /\ f \in Departing(InputNow) /\ DepartingRemoval(InputNow, f) = "unmount"
    BY <1>9 DEF FreedBy, Freeing, Departing
  <2>2. PlanNow[f].removal = "unmount"
    BY <1>7, <2>1, DepartingIsRemoved
  <2>3. f \in covered
    BY <1>5, <2>1, <2>2
  <2>4. f \in Accepted(InputNow) /\ RecordMatchesDesired(InputNow, f)
    BY <2>1, <2>3 DEF CalmTodo
  <2> QED
    BY <2>1, <2>4 DEF Departing
<1>10. InputNow.targets[t].kind # "Mounted" /\ InputNow.targets[t].kind # "Unavailable"
  BY <1>4, <1>5, <1>8, <1>9
<1> QED
  BY <1>6, <1>8, <1>10, TargetKinds

\* Every step of the writer keeps a calm pass as it is planned.
LEMMA CalmStep ==
    ASSUME UniqueSupported, TypeOK, RemovalsComeFirst, Bookkeeping, KeysNamed, Calm,
           [Next]_vars
    PROVE  Calm'
<1> SUFFICES ASSUME calm'
             PROVE  /\ CalmSeen'
                    /\ pc' \in {"idle", "run", "attach", "save", "umount"} => CalmTodo'
                    /\ pc' = "attach" => CalmAttach'
                    /\ pc' = "umount" => CalmUnmount'
  BY DEF Calm
<1> USE DEF Calm
<1>1. CASE UNCHANGED vars
  <2>1. /\ UNCHANGED <<world, stack, mem, covered, plan, todo, bad, seen, pc, step, calm>>
        /\ Remaining' = Remaining
    BY <1>1 DEF vars, kernel, pass, meter, Remaining, SavedStep
  <2>2. CalmSeen'
    BY <2>1 DEF CalmSeen, SourcesNow, Wanted0, world
  <2>3. pc' \in {"idle", "run", "attach", "save", "umount"} => CalmTodo'
    BY <2>1, CalmSame
  <2>5. pc' = "umount" => CalmUnmount'
    BY <2>1 DEF CalmUnmount, Top, Take
  <2>4. pc' = "attach" => CalmAttach'
    BY <2>1 DEF CalmAttach, HandTarget, world, Put
  <2> QED
    BY <2>2, <2>3, <2>4, <2>5
<1>2. CASE Failure \/ Environment
  BY <1>2, Disturbed
<1>3. CASE Restart
  BY <1>3 DEF Restart, CalmSeen, meter
<1>4. CASE ScanMembership
  <2>1. /\ UNCHANGED world /\ pc' = "sources"
        /\ seen'.desired = Wanted0 /\ seen'.frozen = unreadable
    BY <1>4 DEF ScanMembership, NothingSeen, Wanted0
  <2> QED
    BY <2>1 DEF CalmSeen, Wanted0, world
<1>5. CASE ResolveSources
  <2>1. /\ UNCHANGED world /\ pc = "sources" /\ pc' = "targets" /\ calm
        /\ seen' = [seen EXCEPT !.sources = SourcesNow]
    BY <1>5 DEF ResolveSources, SourcesNow, meter
  <2>2. seen'.desired = seen.desired /\ seen'.frozen = seen.frozen /\ seen'.sources = SourcesNow
    BY <2>1 DEF TypeOK, PassOK
  <2>3. SourcesNow' = SourcesNow /\ Wanted0' = Wanted0 /\ unreadable' = unreadable
    BY <2>1 DEF SourcesNow, Wanted0, world
  <2> QED
    BY <2>1, <2>2, <2>3 DEF CalmSeen
<1>6. CASE InspectAndPlan
  <2>1. pc' \in {"idle", "run"} /\ CalmTodo'
    BY <1>6, CalmPlan DEF InspectAndPlan
  <2> QED
    BY <2>1 DEF CalmSeen
<1>7. ASSUME NEW k \in Keys, SkipMount(k) PROVE FALSE
  <2>1. calm /\ pc = "run" /\ plan[k].after \cap bad # {}
    BY <1>7 DEF SkipMount, Due, meter
  <2> QED
    BY <2>1 DEF CalmTodo
<1>8. ASSUME NEW k \in Keys, ResolveMount(k)
      PROVE  /\ CalmSeen' /\ CalmTodo'
             /\ pc' = "attach" => CalmAttach'
             /\ pc' # "umount"
  <2> DEFINE d == conf[k]
  <2>1. /\ calm /\ pc = "run" /\ Due(Put(k)) /\ Put(k) \in todo /\ CalmTodo
        /\ UNCHANGED <<world, stack, mem, covered>>
    BY <1>8 DEF ResolveMount, Due, Put, meter, kernel
  <2>2. CASE source[d.source] = Gone \/ d.target \in blocked \/ stack[d.target] # <<>>
    <3>1. Finish(Put(k), FALSE)
      BY <1>8, <2>2 DEF ResolveMount, Put
    <3>2. ~PlanNow[k].mount
      BY <2>1, <2>2, CalmTarget
    <3>3. CalmTodo' /\ pc' \in {"idle", "run"}
      <4>1. Put(k).op = "mount"
        BY DEF Put
      <4> QED
        BY <2>1, <3>1, <3>2, <4>1, CalmFinish
    <3> QED
      BY <3>3 DEF CalmSeen
  <2>3. CASE ~(source[d.source] = Gone \/ d.target \in blocked \/ stack[d.target] # <<>>)
    <3>1. /\ step' = [op |-> "attach", key |-> k, root |-> source[d.source]]
          /\ pc' = "attach" /\ UNCHANGED <<plan, todo, bad>>
      BY <1>8, <2>3 DEF ResolveMount, pass
    <3>2. Remaining' = Remaining
      BY <2>1, <3>1 DEF Remaining
    <3>3. CalmTodo'
      BY <2>1, <3>1, <3>2, CalmSame
    <3>4. step'.key = k /\ step'.root = source[d.source]
      BY <3>1
    <3>5. HandTarget' = d.target
      BY <2>1, <3>4 DEF HandTarget, world
    <3>6. CalmAttach'
      BY <2>1, <2>3, <3>1, <3>4, <3>5 DEF CalmAttach, world, Put
    <3> QED
      BY <3>1, <3>3, <3>6 DEF CalmSeen
  <2> QED
    BY <2>2, <2>3
<1>9. ASSUME NEW k \in Keys, AttachMount(k) PROVE pc' = "save" /\ CalmTodo'
  <2>1. /\ calm /\ pc = "attach" /\ pc' = "save" /\ step.key = k /\ CalmTodo /\ CalmAttach
        /\ UNCHANGED <<world, covered, plan, todo, bad>>
        /\ step'.op = "mount" /\ step'.key = k
    BY <1>9 DEF AttachMount, meter, pass
  <2>2. /\ stack[conf[k].target] = <<>> /\ conf[k].target \notin blocked
        /\ step.root = source[conf[k].source] /\ Put(k) \in todo /\ k \in Wanted0
    BY <2>1 DEF CalmAttach, HandTarget, CalmTodo
  <2>3. /\ StepOf(k, InputNow, InputNow') /\ Leaves(k, InputNow, InputNow')
        /\ ~PlanNow'[k].mount
    BY <1>9, <2>2, AttachLeaves
  <2>4. Remaining' = Remaining \ {Put(k)}
    BY <2>1 DEF Remaining, SavedStep, Put
  <2>5. Take(k) \notin Remaining
    BY <2>1 DEF RemovalsComeFirst, Remaining, Take
  <2> QED
    BY <2>1, <2>2, <2>3, <2>4, <2>5, CalmStays
<1>a. ASSUME NEW k \in Keys, VerifyRemoval(k) PROVE CalmTodo' /\ CalmUnmount' /\ pc' = "umount"
  <2>1. /\ calm /\ pc = "run" /\ CalmTodo /\ Take(k) \in todo
        /\ UNCHANGED <<world, stack, mem, covered>> /\ plan[k].removal = "unmount"
    BY <1>a DEF VerifyRemoval, Due, meter, kernel, Take
  <2>2. Remaining = todo
    BY <2>1 DEF Remaining
  <2>3. PlanNow[k].removal = "unmount"
    BY <2>1, <2>2 DEF CalmTodo
  <2>4. mem[k] # NoRecord /\ Verified(InputNow, k)
    <3>1. InputNow.records[k] # NoRecord /\ Verified(InputNow, k)
      BY <2>1, <2>3, RemovalsHaveRecords, RemovalMeans DEF PlanNow
    <3> QED
      BY <3>1, InputIs
  <2>5. OpenVerified(mem[k].target, mem[k].identity)
    BY <2>4, VerifiedIs
  <2>6. /\ step' = [op |-> "unmount", key |-> k, pinned |-> Top(mem[k].target).unique]
        /\ pc' = "umount" /\ UNCHANGED <<plan, todo, bad>>
    BY <1>a, <2>5 DEF VerifyRemoval, pass
  <2>7. Remaining' = Remaining
    BY <2>2, <2>6 DEF Remaining
  <2>8. CalmTodo'
    BY <2>1, <2>6, <2>7, CalmSame
  <2> QED
    BY <2>1, <2>6, <2>8 DEF CalmUnmount, Top, Take
<1>b. ~VerifyRollback /\ ~Rollback
  <2>1. VerifyRollback \/ Rollback => calm
    BY DEF VerifyRollback, Rollback, meter
  <2> QED
    BY <2>1 DEF VerifyRollback, Rollback, CalmSeen, CalmUnmount
<1>10. ASSUME NEW k \in Keys, Unmount(k) \/ Drop(k) PROVE pc' = "save" /\ CalmTodo'
  <2>1. /\ calm /\ pc # "save" /\ CalmTodo /\ Take(k) \in todo
        /\ UNCHANGED <<world, covered>>
        /\ plan[k].removal = IF Unmount(k) THEN "unmount" ELSE "drop"
        /\ Unmount(k) => Top(mem[k].target).unique = step.pinned
    <3>1. CASE Unmount(k)
      BY <3>1 DEF Unmount, CalmUnmount, meter, Take
    <3>2. CASE Drop(k) /\ ~Unmount(k)
      BY <3>2 DEF Drop, Due, meter, Take
    <3> QED
      BY <1>10, <3>1, <3>2
  <2>2. Remaining = todo
    BY <2>1 DEF Remaining
  <2>3. PlanNow[k].removal = plan[k].removal
    BY <2>1, <2>2 DEF CalmTodo
  <2>4. mem[k] # NoRecord
    <3>1. InputNow.records[k] # NoRecord
      BY <2>1, <2>3, RemovalsHaveRecords DEF PlanNow
    <3> QED
      BY <3>1, InputIs
  <2>5. /\ StepOf(k, InputNow, InputNow') /\ Leaves(k, InputNow, InputNow')
        /\ pc' = "save" /\ step' = Take(k) /\ UNCHANGED pass
    <3>1. CASE Unmount(k)
      BY <2>1, <2>3, <2>4, <3>1, UnmountLeaves DEF Take
    <3>2. CASE Drop(k) /\ ~Unmount(k)
      BY <2>1, <2>3, <3>2, DropLeaves DEF Drop, Take
    <3> QED
      BY <1>10, <3>1, <3>2
  <2>6. /\ pc' = "save" /\ step' = Take(k) /\ UNCHANGED <<plan, todo, bad>>
    BY <2>5 DEF pass
  <2>7. Remaining' = Remaining \ {Take(k)}
    BY <2>2, <2>6 DEF Remaining, SavedStep, Take
  <2>8. Take(k) # Put(k)
    BY DEF Take, Put
  <2> QED
    BY <2>1, <2>5, <2>6, <2>7, <2>8, CalmStays
<1>11. CASE SaveSucceeds
  <2>1. /\ calm /\ pc = "save" /\ CalmTodo /\ UNCHANGED <<world, stack, mem, covered>>
        /\ Finish(SavedStep, TRUE)
    BY <1>11 DEF SaveSucceeds, meter, kernel
  <2>2. CalmTodo' /\ pc' \in {"idle", "run"}
    BY <2>1, CalmFinish
  <2> QED
    BY <2>2 DEF CalmSeen
<1>12. ASSUME pc' = "save", CalmTodo'
       PROVE  /\ CalmSeen'
              /\ pc' \in {"idle", "run", "attach", "save", "umount"} => CalmTodo'
              /\ pc' = "attach" => CalmAttach'
              /\ pc' = "umount" => CalmUnmount'
  BY <1>12 DEF CalmSeen
<1>13. ASSUME pc' = "umount", CalmTodo', CalmUnmount' PROVE CalmSeen'
  BY <1>13 DEF CalmSeen
<1> QED
  <2>1. CASE \E k \in Keys : SkipMount(k) \/ ResolveMount(k) \/ AttachMount(k)
                               \/ Unmount(k) \/ Drop(k)
    BY <1>7, <1>8, <1>9, <1>10, <1>12, <2>1
  <2>2. CASE \E k \in Keys : VerifyRemoval(k)
    BY <1>a, <1>13, <2>2
  <2> QED
    BY <1>1, <1>2, <1>3, <1>4, <1>5, <1>6, <1>11, <1>b, <2>1, <2>2 DEF Next, Daemon

(***************************************************************************)
(* When a calm pass has ended.                                             *)
(***************************************************************************)

\* No step remains, but for the members that wait.
LEMMA NothingLeft ==
    ASSUME TypeOK, RemovalsComeFirst, Calm, calm, pc = "idle"
    PROVE  /\ CalmTodo
           /\ \A k \in Keys \ covered : PlanNow[k].removal = "none" /\ PlanNow[k].mount = FALSE
           /\ \A k \in Keys :
                Waits(k) \/ (PlanNow[k].removal = "none" /\ PlanNow[k].mount = FALSE)
<1>1. CalmTodo /\ Remaining = {}
  BY DEF Calm, RemovalsComeFirst, Remaining
<1>2. PlanNow = Plan(InputNow) /\ PlanNow \in [Keys -> KeyPlan]
  BY PlanType DEF PlanNow
<1>3. \A k \in Keys \ covered : PlanNow[k].removal = "none" /\ PlanNow[k].mount = FALSE
  BY <1>1, <1>2 DEF CalmTodo, KeyPlan
<1>4. ASSUME NEW k \in Keys, k \in covered
      PROVE  Waits(k) \/ (PlanNow[k].removal = "none" /\ PlanNow[k].mount = FALSE)
  <2>1. /\ k \in Accepted(InputNow) /\ RecordMatchesDesired(InputNow, k)
        /\ ~Verified(InputNow, k)
    BY <1>1, <1>4 DEF CalmTodo
  <2>2. /\ k \in Wanted0 /\ InputNow.desired[k] = conf[k] /\ InputNow.records = mem
        /\ conf[k].target \in Targets
    BY <2>1, InputIs DEF Accepted
  <2>3. CASE stack[conf[k].target] = <<>>
    BY <1>4, <2>1, <2>2, <2>3 DEF Waits, RecordMatchesDesired
  <2>4. CASE stack[conf[k].target] # <<>>
    <3>1. InputNow.targets[InputNow.desired[k].target].kind # "NotMounted"
      BY <2>2, <2>4, TargetKinds
    <3>2. RecordedMember(InputNow, k).removal = "none" /\ RecordedMember(InputNow, k).mount = FALSE
      BY <2>1, <3>1, RecordedFields
    <3> QED
      BY <1>2, <2>1, <3>2, PlanCases
  <2> QED
    BY <2>3, <2>4
<1> QED
  BY <1>1, <1>3, <1>4

\* What is on the target of a member that could not be mounted there is not byssus's to
\* remove.
LEMMA TakenByOthers ==
    ASSUME UniqueSupported, TypeOK, RemovalsComeFirst, Bookkeeping, KeysNamed, Calm, calm,
           pc = "idle", NEW k \in Keys, k \in Accepted(InputNow),
           ~(RecordMatchesDesired(InputNow, k) /\ Verified(InputNow, k)),
           InputNow.targets[conf[k].target].kind = "Mounted"
    PROVE  Occupied(conf[k].target)
<1> DEFINE t == conf[k].target
<1>1. /\ k \in Wanted0 /\ InputNow.desired[k] = conf[k] /\ InputNow.records = mem
      /\ t \in Targets /\ InputNow.frozen = unreadable
  BY InputIs DEF Accepted
<1>2. t \notin blocked /\ stack[t] # <<>>
  BY <1>1, TargetKinds
<1>3. Top(t) \in Mounts(t) /\ Top(t) \in AllMounts
  BY <1>1, <1>2, TopIn
<1> SUFFICES ASSUME Top(t).by # Foreign, Top(t).unique \notin lost,
                    GroupOf[Top(t).by] \notin unreadable
             PROVE  FALSE
  BY <1>2 DEF Occupied
<1>4. PICK j \in Keys : /\ mem[j] # NoRecord /\ mem[j].target = t
                        /\ Matches(ReadIdentity(Top(t)), mem[j].identity)
  <2>1. ~Undone(Top(t))
    BY DEF TypeOK, StepOK, Undone, InHand, Making
  <2> QED
    BY <1>1, <1>3, <2>1 DEF Bookkeeping, MountsAccountedFor, Claims
<1>5. GroupOf[j] \notin unreadable
  BY <1>3, <1>4, NamedMount
<1>6. Verified(InputNow, j)
  <2>1. OpenVerified(mem[j].target, mem[j].identity)
    BY <1>2, <1>4 DEF OpenVerified
  <2> QED
    BY <1>4, <2>1, VerifiedIs
<1>7. PlanNow[j].removal = "none"
  <2>1. j \notin covered
    BY <1>6, NothingLeft DEF CalmTodo
  <2> QED
    BY <2>1, NothingLeft
<1>8. j \notin Departing(InputNow)
  <2>1. DepartingRemoval(InputNow, j) # "none"
    BY <1>6, DepartingRemovals DEF Verified
  <2> QED
    BY <1>7, <2>1, DepartingIsRemoved DEF PlanNow
<1>9. j \in Accepted(InputNow) /\ RecordMatchesDesired(InputNow, j)
  BY <1>1, <1>4, <1>5, <1>8 DEF Departing, Frozen
<1>10. InputNow.desired[j].target = InputNow.desired[k].target
  BY <1>1, <1>4, <1>9 DEF RecordMatchesDesired
<1>11. j = k
  BY <1>9, <1>10, AcceptedTargetsDiffer
<1> QED
  BY <1>6, <1>9, <1>11

\* A view that needs no step is in its place.
LEMMA UpToDateInPlace ==
    ASSUME UniqueSupported, TypeOK, KeysNamed, NEW k \in Keys, k \in Wanted0,
           RecordMatchesDesired(InputNow, k), Verified(InputNow, k), UpToDate(InputNow, k)
    PROVE  InPlace(k)
<1> DEFINE t == conf[k].target
<1>1. /\ InputNow.desired[k] = conf[k] /\ InputNow.records = mem /\ t \in Targets
      /\ InputNow.sources[k] = source[conf[k].source]
  BY InputIs
<1>2. mem[k] # NoRecord /\ mem[k].source = conf[k].source /\ mem[k].target = t
  BY <1>1 DEF RecordMatchesDesired
<1>3. /\ stack[t] # <<>> /\ t \notin blocked
      /\ Top(t).by = k /\ ReadIdentity(Top(t)) = mem[k].identity
  BY <1>2, VerifiedIs
<1>4. InputNow.targets[t] = Mounted(ReadIdentity(Head(stack[t])), TRUE, Head(stack[t]).attrs)
  BY <1>1, <1>3, TargetKinds
<1>5. /\ source[conf[k].source] = mem[k].identity.root
      /\ mem[k].attrs = conf[k].attrs
      /\ Enforces(Top(t).attrs, conf[k].attrs)
  BY <1>1, <1>2, <1>4 DEF UpToDate, Mounted, Top
<1>6. Top(t).root = mem[k].identity.root
  <2>1. ReadIdentity(Top(t)).root = Top(t).root
    BY DEF ReadIdentity
  <2> QED
    BY <1>3, <2>1
<1>7. mem[k] = RecordOf(k, Top(t))
  <2>1. mem[k] \in MountRecord
    BY <1>2 DEF TypeOK, StateOK
  <2>2. mem[k] = [source |-> mem[k].source, target |-> mem[k].target, attrs |-> mem[k].attrs,
                  identity |-> mem[k].identity]
    BY <2>1 DEF MountRecord
  <2> QED
    BY <1>2, <1>3, <1>5, <2>2 DEF RecordOf
<1> QED
  BY <1>2, <1>3, <1>5, <1>6, <1>7 DEF InPlace

\* Each key for which nothing is left to do is settled.
LEMMA SettledIf ==
    ASSUME UniqueSupported, TypeOK, RemovalsComeFirst, Bookkeeping, KeysNamed, Calm, calm,
           pc = "idle", NEW k \in Keys, GroupOf[k] \notin unreadable,
           PlanNow[k].removal = "none", PlanNow[k].mount = FALSE
    PROVE  Settled(k)
<1> DEFINE t == conf[k].target
<1>1. /\ InputNow.records = mem /\ InputNow.frozen = unreadable /\ t \in Targets
      /\ Wanted(InputNow) = Wanted0 /\ PlanNow = Plan(InputNow)
      /\ \A j \in Wanted0 : j \in Keys /\ InputNow.desired[j] = conf[j]
      /\ InputNow.sources[k] = source[conf[k].source]
  BY InputIs DEF PlanNow
<1>2. CASE mem[k] = NoRecord
  <2>1. CASE k \notin Wanted0
    BY <1>2, <2>1 DEF Settled
  <2>2. CASE k \in Wanted0 /\ k \notin Accepted(InputNow)
    <3>1. Claimants(InputNow, k) # {k}
      BY <1>1, <2>2 DEF Accepted
    <3>2. PICK j \in Claimants(InputNow, k) : j # k
      BY <1>1, <2>2, <3>1 DEF Claimants
    <3>3. Contested(k)
      BY <1>1, <2>2, <3>2 DEF Claimants, Contested
    <3> QED
      BY <1>2, <3>3 DEF Settled
  <2>3. CASE k \in Wanted0 /\ k \in Accepted(InputNow)
    <3>1. ~RecordMatchesDesired(InputNow, k) /\ k \notin Departing(InputNow)
      BY <1>1, <1>2 DEF RecordMatchesDesired, Departing
    <3>2. UnrecordedMember(InputNow, k).mount = FALSE
      BY <1>1, <2>3, <3>1, PlanCases
    <3>3. InputNow.desired[k].target = t
      BY <1>1, <2>3
    <3>4. \/ InputNow.targets[t].kind = "Mounted"
          \/ InputNow.targets[t].kind = "Unavailable"
          \/ InputNow.sources[k] = Gone
      <4>1. ~Mountable(InputNow, k)
        BY <3>2, UnrecordedMounts
      <4> QED
        BY <3>1, <3>3, <4>1 DEF Mountable
    <3>5. InputNow.targets[t].kind = "Mounted" => Occupied(t)
      BY <2>3, <3>1, TakenByOthers
    <3>6. InputNow.targets[t].kind = "Unavailable" => t \in blocked
      BY <1>1, TargetKinds
    <3> QED
      BY <1>1, <1>2, <3>4, <3>5, <3>6 DEF Settled
  <2> QED
    BY <2>1, <2>2, <2>3
<1>3. CASE mem[k] # NoRecord /\ k \in Departing(InputNow)
  <2>1. DepartingRemoval(InputNow, k) = "none"
    BY <1>1, <1>3, DepartingIsRemoved
  <2>2. InputNow.targets[mem[k].target].kind = "Unavailable"
    BY <1>1, <2>1, DepartingRemovals
  <2>3. mem[k].target \in Targets
    BY <1>3 DEF TypeOK, StateOK, MountRecord
  <2>4. mem[k].target \in blocked
    BY <2>2, <2>3, TargetKinds
  <2> QED
    BY <1>3, <2>4 DEF Settled
<1>4. CASE mem[k] # NoRecord /\ k \notin Departing(InputNow)
  <2>1. /\ k \in Accepted(InputNow) /\ RecordMatchesDesired(InputNow, k)
        /\ k \in Wanted0 /\ InputNow.desired[k] = conf[k]
    BY <1>1, <1>4 DEF Departing, Frozen, Accepted
  <2>2. mem[k].target = t /\ mem[k].source = conf[k].source
    BY <1>1, <2>1 DEF RecordMatchesDesired
  <2>3. RecordedMember(InputNow, k).removal = "none" /\ RecordedMember(InputNow, k).mount = FALSE
    BY <1>1, <2>1, PlanCases
  <2>4. CASE InputNow.targets[t].kind = "Unavailable"
    <3>1. t \in blocked
      BY <1>1, <2>4, TargetKinds
    <3> QED
      BY <1>4, <2>2, <3>1 DEF Settled
  <2>5. CASE InputNow.targets[t].kind = "NotMounted"
    <3>1. RecordedMember(InputNow, k) = UnmountedMember(InputNow, k)
      BY <2>1, <2>5 DEF RecordedMember
    <3>2. UnmountedMember(InputNow, k).removal # "none" \/ UnmountedMember(InputNow, k).mount
      BY DEF UnmountedMember, Step
    <3> QED
      BY <2>3, <3>1, <3>2
  <2>6. CASE InputNow.targets[t].kind = "Mounted" /\ ~Verified(InputNow, k)
    <3>1. Occupied(t)
      BY <2>1, <2>6, TakenByOthers
    <3> QED
      BY <1>4, <2>1, <2>2, <3>1 DEF Settled
  <2>7. CASE InputNow.targets[t].kind = "Mounted" /\ Verified(InputNow, k)
    <3>1. RecordedMember(InputNow, k) = VerifiedMember(InputNow, k)
      BY <2>1, <2>7, Zenon DEF RecordedMember
    <3>2. VerifiedMember(InputNow, k).removal = "none" => UpToDate(InputNow, k)
      BY DEF VerifiedMember, Step
    <3>3. InPlace(k)
      BY <2>1, <2>3, <2>7, <3>1, <3>2, UpToDateInPlace
    <3> QED
      BY <2>1, <3>3 DEF Settled
  <2> QED
    BY <1>1, <2>4, <2>5, <2>6, <2>7, TargetKinds
<1> QED
  BY <1>2, <1>3, <1>4

\* In the initial state nothing is recorded and no pass is calm.
LEMMA CalmInit == Init => KeysNamed /\ Calm
BY DEF Init, KeysNamed, Calm, NoRecords, NoStep

\* One pass that nobody disturbs is enough: every member of a readable group has its view,
\* or has none and no record for a reason that the decision table names, or waits for
\* another pass because this one took a view off its target that it had planned with
\* (observe, Plan, execute: each step leaves of the plan what it has not done yet).
THEOREM CalmPassSettlesHolds ==
    ASSUME UniqueSupported, "reboot" \notin Allowed
    PROVE  Spec => []CalmPassSettles
<1>1. /\ TypeOK /\ TypeOK' /\ RemovalsComeFirst /\ Bookkeeping /\ KeysNamed /\ [Next]_vars
           => Bookkeeping' /\ KeysNamed'
      /\ TypeOK /\ RemovalsComeFirst /\ Bookkeeping /\ KeysNamed /\ Calm /\ [Next]_vars
           => Calm'
  BY BooksStep, KeysNamedStep, CalmStep
<1>2. TypeOK /\ RemovalsComeFirst /\ Bookkeeping /\ KeysNamed /\ Calm => CalmPassSettles
  BY NothingLeft, SettledIf DEF CalmPassSettles
<1> QED
  BY <1>1, <1>2, BooksInit, CalmInit, TypeCorrect, RemovalsFirst, PTL DEF Spec

\* And it is the last: nothing is left to do but for the members that wait, so byssus
\* never removes and makes the same view over and over.
THEOREM CalmPassIsFinalHolds ==
    ASSUME UniqueSupported, "reboot" \notin Allowed
    PROVE  Spec => []CalmPassIsFinal
<1>1. /\ TypeOK /\ TypeOK' /\ RemovalsComeFirst /\ Bookkeeping /\ KeysNamed /\ [Next]_vars
           => Bookkeeping' /\ KeysNamed'
      /\ TypeOK /\ RemovalsComeFirst /\ Bookkeeping /\ KeysNamed /\ Calm /\ [Next]_vars
           => Calm'
  BY BooksStep, KeysNamedStep, CalmStep
<1>2. TypeOK /\ RemovalsComeFirst /\ Bookkeeping /\ KeysNamed /\ Calm => CalmPassIsFinal
  BY NothingLeft DEF CalmPassIsFinal
<1> QED
  BY <1>1, <1>2, BooksInit, CalmInit, TypeCorrect, RemovalsFirst, PTL DEF Spec

(***************************************************************************)
(* The promise about mounts: what the writer keeps, and what it does not.  *)
(***************************************************************************)

\* A record in memory claims only mounts that the state file names, or the one in hand:
\* what is unmounted on the word of a record has been written down before.
MemListed ==
    pc # "down" =>
        \A t \in Targets : \A m \in Mounts(t) :
            m.by # Foreign /\ Claims(mem, t, m) => Claims(disk, t, m) \/ InHand(m)

\* The record a rollback would put back is about the same target and an older mount.
PreviousOld ==
    pc = "save" /\ step.op = "mount" /\ step.previous # NoRecord =>
        /\ step.previous.target = HandTarget
        /\ step.previous.identity.unique # step.unique

\* Only the new record is about the mount in hand, and none once it has been put back.
HandNew ==
    Making =>
        \A k \in Keys : mem[k] # NoRecord /\ mem[k].identity.unique = step.unique
                         => pc = "save" /\ k = step.key

\* The configuration stays while a pass runs.
LEMMA ConfStays ==
    ASSUME [Next]_vars, pc \notin {"idle", "down"}
    PROVE  UNCHANGED conf
<1>1. CASE Daemon
  BY <1>1 DEF Daemon, Restart, ScanMembership, ResolveSources, InspectAndPlan, SkipMount,
     ResolveMount, AttachMount, VerifyRemoval, Unmount, Drop, SaveSucceeds, VerifyRollback,
     Rollback, world
<1>2. CASE Failure
  BY <1>2 DEF Failure, AttachUnidentified, AttachFails, UnmountFails, SaveFails,
     RollbackFails, Crash, Shutdown, world
<1>3. CASE Environment
  BY <1>3 DEF Environment, Reconfigure, ToggleMember, ToggleReadable, ChangeSource,
     ToggleBlocked, ForeignUnmount, LoosenMount, ForeignMount, Reboot, LoseStateFile, world
<1> QED
  BY <1>1, <1>2, <1>3 DEF Next, vars, world

\* A mount is made with the record it replaces in hand, which is older.
LEMMA PreviousOldStep ==
    ASSUME UniqueSupported, TypeOK, TypeOK', Bookkeeping, KeysNamed, PreviousOld, [Next]_vars
    PROVE  PreviousOld'
<1> SUFFICES ASSUME pc' = "save", step'.op = "mount", step'.previous # NoRecord
             PROVE  /\ step'.previous.target = HandTarget'
                    /\ step'.previous.identity.unique # step'.unique
  BY DEF PreviousOld
<1>1. CASE pc = "save" /\ step' = step
  <2>1. UNCHANGED conf
    BY <1>1, ConfStays
  <2> QED
    BY <1>1, <2>1 DEF PreviousOld, HandTarget
<1>2. ASSUME NEW k \in Keys, AttachMount(k)
      PROVE  /\ step'.previous.target = HandTarget'
             /\ step'.previous.identity.unique # step'.unique
  <2>1. /\ pc = "attach" /\ step.key = k /\ UNCHANGED conf /\ FreeIds # {}
        /\ step'.key = k /\ step'.previous = mem[k]
        /\ step'.unique = NewMount(k, step.root).unique
    BY <1>2 DEF AttachMount, world
  <2>2. step'.unique = nextUnique /\ nextUnique \in Nat
    BY <2>1, AttachInHand, NewMountType DEF TypeOK, KernelOK
  <2>3. mem[k].target = HandTarget /\ HandTarget' = HandTarget
    BY <2>1 DEF Bookkeeping, AttachFree, HandTarget
  <2>4. mem[k].identity.unique \in 1..(nextUnique - 1)
    BY <2>1 DEF KeysNamed, Names
  <2> QED
    BY <2>1, <2>2, <2>3, <2>4
<1>3. step'.key \in Keys
  BY DEF TypeOK, StepOK, StepType, NoStep
<1> QED
  BY <1>1, <1>2, <1>3, RecordsFrom

\* A mount comes into hand when it is made, and is then verified or undone.
LEMMA MakingFrom ==
    ASSUME TypeOK, [Next]_vars, Making'
    PROVE  \/ \E k \in Keys : AttachMount(k)
           \/ /\ Making /\ step'.unique = step.unique /\ step'.key = step.key
              /\ \/ UNCHANGED <<mem, pc>>
                 \/ UNCHANGED mem /\ pc # "save" /\ pc' # "save"
                 \/ /\ pc = "save" /\ step.op = "mount"
                    /\ mem' = [mem EXCEPT ![step.key] = step.previous]
<1>1. CASE Environment \/ UNCHANGED vars
  <2>1. UNCHANGED <<mem, pc, step>>
    BY <1>1 DEF Environment, Reconfigure, ToggleMember, ToggleReadable, ChangeSource,
       ToggleBlocked, ForeignUnmount, LoosenMount, ForeignMount, Reboot, LoseStateFile,
       Others, vars
  <2> QED
    BY <2>1 DEF Making
<1>2. CASE VerifyRollback
  <2>1. CASE step' = [op |-> "undo", key |-> step.key, unique |-> step.unique,
                      pinned |-> Top(conf[step.key].target).unique]
    <3>1. step.op = "rollback" /\ UNCHANGED mem /\ pc # "save" /\ pc' # "save"
      BY <1>2, VerifyRollbackIs DEF TypeOK, StepOK, Finish
    <3> QED
      BY <2>1, <3>1 DEF Making
  <2> QED
    BY <1>2, <2>1, VerifyRollbackIs DEF Finish, Making, NoStep
<1>3. ASSUME NEW late \in BOOLEAN, SaveFails(late)
      PROVE  /\ Making /\ step'.unique = step.unique /\ step'.key = step.key
             /\ pc = "save" /\ step.op = "mount"
             /\ mem' = [mem EXCEPT ![step.key] = step.previous]
  <2>1. pc = "save" /\ step.op \in {"mount", "remove"}
    BY <1>3 DEF SaveFails, TypeOK, StepOK
  <2>2. step.op = "mount"
    BY <1>3, <2>1 DEF SaveFails, Finish, Making, NoStep
  <2>3. /\ step' = [op |-> "rollback", key |-> step.key, identity |-> step.identity,
                    unique |-> step.unique]
        /\ mem' = [mem EXCEPT ![step.key] = step.previous]
    BY <1>3, <2>2 DEF SaveFails
  <2> QED
    BY <2>1, <2>2, <2>3 DEF Making
<1>4. ~(\/ Restart \/ ScanMembership \/ ResolveSources \/ InspectAndPlan \/ SaveSucceeds
        \/ Crash \/ Rollback \/ RollbackFails
        \/ \E saved \in BOOLEAN : Shutdown(saved))
  BY DEF Restart, ScanMembership, ResolveSources, InspectAndPlan, SaveSucceeds, Crash,
     Rollback, RollbackFails, Shutdown, Dies, Finish, Making, NoStep, TypeOK, StepOK
<1>5. ASSUME NEW k \in Keys, VerifyRemoval(k) PROVE FALSE
  <2>1. CASE OpenVerified(mem[k].target, mem[k].identity)
    <3>1. step' = [op |-> "unmount", key |-> k, pinned |-> Top(mem[k].target).unique]
      BY <1>5, <2>1 DEF VerifyRemoval
    <3> QED
      BY <3>1 DEF Making
  <2> QED
    BY <1>5, <2>1 DEF VerifyRemoval, Finish, Making, NoStep
<1>6. ASSUME NEW k \in Keys, \/ SkipMount(k) \/ ResolveMount(k) \/ Drop(k) \/ Unmount(k)
                             \/ AttachUnidentified(k) \/ AttachFails(k) \/ UnmountFails(k)
      PROVE  FALSE
  BY <1>6 DEF SkipMount, ResolveMount, Drop, Unmount, AttachUnidentified, AttachFails,
     UnmountFails, Finish, Making, NoStep
<1> QED
  BY <1>1, <1>2, <1>3, <1>4, <1>5, <1>6 DEF Next, Daemon, Failure

\* It is newer than every record there was.
LEMMA HandNewStep ==
    ASSUME UniqueSupported, TypeOK, Bookkeeping, KeysNamed, PreviousOld, HandNew, [Next]_vars
    PROVE  HandNew'
<1> SUFFICES ASSUME Making', NEW j \in Keys, mem'[j] # NoRecord,
                    mem'[j].identity.unique = step'.unique
             PROVE  pc' = "save" /\ j = step'.key
  BY DEF HandNew
<1>0. mem \in [Keys -> MountRecord \cup {NoRecord}]
  BY DEF TypeOK, StateOK
<1>1. ASSUME NEW k \in Keys, AttachMount(k) PROVE pc' = "save" /\ j = step'.key
  <2>1. /\ pc = "attach" /\ step.key = k /\ FreeIds # {} /\ pc' = "save" /\ step'.key = k
        /\ step'.unique = NewMount(k, step.root).unique
        /\ j # k => mem'[j] = mem[j]
    BY <1>0, <1>1 DEF AttachMount
  <2>2. step'.unique = nextUnique /\ nextUnique \in Nat
    BY <2>1, AttachInHand, NewMountType DEF TypeOK, KernelOK
  <2>3. j # k => mem[j].identity.unique \in 1..(nextUnique - 1)
    BY <2>1 DEF KeysNamed, Names
  <2> QED
    BY <2>1, <2>2, <2>3
<1>2. ASSUME Making, step'.unique = step.unique, step'.key = step.key, UNCHANGED mem,
             UNCHANGED pc \/ pc # "save"
      PROVE  pc' = "save" /\ j = step'.key
  BY <1>2 DEF HandNew
<1>3. ASSUME Making, step'.unique = step.unique, step'.key = step.key, pc = "save",
             step.op = "mount", mem' = [mem EXCEPT ![step.key] = step.previous]
      PROVE  FALSE
  BY <1>0, <1>3 DEF HandNew, PreviousOld
<1> QED
  BY <1>1, <1>2, <1>3, MakingFrom

\* What the mounts that stay must show.
LEMMA ListedStay ==
    ASSUME MemListed, Survivors,
           \A t \in Targets : \A n \in Mounts(t) :
              /\ n.by # Foreign
              /\ \E m \in Mounts(t)' : Twins(m, n)
              /\ pc # "down" /\ Claims(mem, t, n) => Claims(disk, t, n) \/ n.unique \in Hand
              /\ Claims(mem', t, n)
              => Claims(disk', t, n) \/ n.unique \in Hand'
    PROVE  MemListed'
<1>1. \A m : ReadIdentity(m)' = ReadIdentity(m)
  BY DEF ReadIdentity
<1>2. \A t, m : /\ Claims(mem, t, m)' = Claims(mem', t, m)
                /\ Claims(disk, t, m)' = Claims(disk', t, m)
                /\ InHand(m) <=> m.unique \in Hand
                /\ InHand(m)' <=> m.unique \in Hand'
  BY <1>1 DEF Claims, InHand, Hand
<1>3. ASSUME NEW t \in Targets, NEW m \in Mounts(t)', m.by # Foreign, Claims(mem', t, m)
      PROVE  Claims(disk', t, m) \/ m.unique \in Hand'
  <2>1. PICK n \in Mounts(t) : Twins(m, n) /\ Twins(n, m)
    BY <1>3, OwnSurvives DEF Twins
  <2>2. n.by # Foreign /\ n.unique = m.unique
    BY <1>3, <2>1 DEF Twins
  <2>3. \A records : Claims(records, t, n) <=> Claims(records, t, m)
    BY <2>1, TwinClaims
  <2>4. pc # "down" /\ Claims(mem, t, n) => Claims(disk, t, n) \/ n.unique \in Hand
    BY <1>2, <2>2 DEF MemListed
  <2> QED
    BY <1>3, <2>1, <2>2, <2>3, <2>4
<1> QED
  BY <1>2, <1>3 DEF MemListed

\* A claim in the records with one entry put back or in is that entry's, or was there.
LEMMA ClaimsExcept ==
    ASSUME NEW k, NEW records, \A j \in Keys \ {k} : records[j] = mem[j],
           NEW t, NEW n, Claims(records, t, n)
    PROVE  \/ \E j \in Keys \ {k} : /\ mem[j] # NoRecord /\ mem[j].target = t
                                    /\ Matches(ReadIdentity(n), mem[j].identity)
           \/ /\ records[k] # NoRecord /\ records[k].target = t
              /\ Matches(ReadIdentity(n), records[k].identity)
BY DEF Claims

\* An identity names the mount it matches.
LEMMA NamedIs ==
    ASSUME UniqueSupported, TypeOK, NEW id, NEW k, Names(id, k), NEW m \in AllMounts,
           Matches(ReadIdentity(m), id)
    PROVE  m.unique = id.unique /\ m.by = k
<1>1. m.unique \in Nat \ {0} /\ nextUnique \in Nat
  BY MountsTyped DEF TypeOK, Mount, KernelOK
<1>2. m.unique = id.unique
  BY <1>1 DEF Matches, ReadIdentity, NoUnique, Names
<1> QED
  BY <1>2 DEF Names

\* When a save has failed, and the record of the mount in hand goes.
LEMMA ListedRollback ==
    ASSUME UniqueSupported, TypeOK, Bookkeeping, KeysNamed, MemListed, PreviousOld, Survivors,
           NEW late \in BOOLEAN, SaveFails(late), step.op = "mount"
    PROVE  MemListed'
<1> DEFINE k == step.key
<1>1. /\ pc = "save" /\ mem' = [mem EXCEPT ![k] = step.previous]
      /\ disk' = (IF late THEN mem ELSE disk)
  BY DEF SaveFails
<1>2. /\ k \in Keys /\ Hand = {step.unique}
      /\ mem \in [Keys -> MountRecord \cup {NoRecord}]
      /\ Names(step.identity, k)
      /\ step.previous # NoRecord => Names(step.previous.identity, k)
  BY <1>1, HandTargetIn DEF TypeOK, StateOK, KeysNamed, Hand, Making
<1> SUFFICES ASSUME NEW t \in Targets, NEW n \in Mounts(t), n.by # Foreign,
                    Claims(mem, t, n) => Claims(disk, t, n) \/ n.unique \in Hand,
                    Claims(mem', t, n)
             PROVE  Claims(disk', t, n)
  BY <1>1, ListedStay
<1>3. n \in AllMounts
  BY DEF AllMounts
<1>4. CASE \E j \in Keys \ {k} : /\ mem[j] # NoRecord /\ mem[j].target = t
                                 /\ Matches(ReadIdentity(n), mem[j].identity)
  <2>1. PICK j \in Keys \ {k} : /\ mem[j] # NoRecord /\ mem[j].target = t
                                /\ Matches(ReadIdentity(n), mem[j].identity)
    BY <1>4
  <2>2. Claims(mem, t, n)
    BY <2>1 DEF Claims
  <2>3. n.by = j
    BY <1>3, <2>1, NamedMount
  <2>4. n.unique \notin Hand
    <3>1. SUFFICES ASSUME n.unique = step.unique PROVE FALSE
      BY <1>2
    <3>2. Matches(ReadIdentity(n), step.identity)
      BY <1>1, <3>1 DEF Bookkeeping, HandKnown, Making
    <3>3. n.by = k
      BY <1>2, <1>3, <3>2, NamedIs
    <3> QED
      BY <2>1, <2>3, <3>3
  <2> QED
    BY <1>1, <2>2, <2>4
<1>5. CASE /\ step.previous # NoRecord /\ step.previous.target = t
           /\ Matches(ReadIdentity(n), step.previous.identity)
  <2>1. t = HandTarget /\ step.previous.identity.unique # step.unique
    BY <1>1, <1>5 DEF PreviousOld
  <2>2. n.unique = step.unique
    BY <1>1, <2>1 DEF Bookkeeping, HandKnown, Making
  <2>3. n.unique = step.previous.identity.unique
    BY <1>2, <1>3, <1>5, NamedIs
  <2> QED
    BY <2>1, <2>2, <2>3
<1>6. mem'[k] = step.previous /\ \A j \in Keys \ {k} : mem'[j] = mem[j]
  BY <1>1, <1>2
<1>7. \/ \E j \in Keys \ {k} : /\ mem[j] # NoRecord /\ mem[j].target = t
                               /\ Matches(ReadIdentity(n), mem[j].identity)
      \/ /\ mem'[k] # NoRecord /\ mem'[k].target = t
         /\ Matches(ReadIdentity(n), mem'[k].identity)
  <2> HIDE DEF k
  <2> QED
    BY <1>6, ClaimsExcept
<1> QED
  BY <1>4, <1>5, <1>6, <1>7, Zenon

\* After every step the records in memory claim what is written down.
LEMMA MemListedStep ==
    ASSUME UniqueSupported, "reboot" \notin Allowed, TypeOK, RemovalsComeFirst, Bookkeeping,
           KeysNamed, MemListed, PreviousOld, HandNew, [Next]_vars
    PROVE  MemListed'
<1>0. /\ mem \in [Keys -> MountRecord \cup {NoRecord}]
      /\ pc = "save" => step.op \in {"mount", "remove"}
      /\ pc = "attach" => step.op = "attach"
  BY DEF TypeOK, StateOK, StepOK
<1>1. CASE \E k \in Keys : AttachMount(k) \/ AttachUnidentified(k)
  <2>0. PICK k \in Keys : AttachMount(k) \/ AttachUnidentified(k)
    BY <1>1
  <2>1. PICK n : /\ n = NewMount(k, step.root)
                 /\ AttachMount(k) \/ AttachUnidentified(k)
    BY <2>0
  <2>2. /\ pc = "attach" /\ step.key = k /\ FreeIds # {} /\ Push(conf[k].target, n)
        /\ nextUnique' = nextUnique + 1 /\ UNCHANGED disk /\ Hand = {}
    BY <2>1, HandEmpty DEF AttachMount, AttachUnidentified, TypeOK
  <2>3. /\ n.unique = nextUnique
        /\ \A u \in Targets : Mounts(u)' =
              IF u = conf[k].target THEN Mounts(conf[k].target) \cup {n} ELSE Mounts(u)
    BY <2>1, <2>2, AttachStacks DEF Bookkeeping
  <2>4. \A m \in AllMounts : m.unique < nextUnique /\ m.unique \in Nat
    BY MountsTyped DEF TypeOK, Bookkeeping, StacksApart, Mount
  <2>5. \A m : ReadIdentity(m)' = ReadIdentity(m)
    BY DEF ReadIdentity
  <2>6. \A j \in Keys : mem[j] # NoRecord => mem[j].identity.unique < nextUnique
    BY DEF KeysNamed, Names, TypeOK, KernelOK
  <2>7. ASSUME NEW t \in Targets, NEW m \in Mounts(t), m.by # Foreign, Claims(mem', t, m)
        PROVE  Claims(disk', t, m)
    <3>1. m \in AllMounts
      BY DEF AllMounts
    <3>2. Claims(mem, t, m)
      <4>1. CASE UNCHANGED mem
        BY <2>7, <4>1
      <4>2. CASE AttachMount(k)
        <5>1. mem' = [mem EXCEPT ![k] = RecordOf(k, n)]
          BY <2>1, <4>2 DEF AttachMount
        <5>2. t # conf[k].target
          BY <2>2, <2>7 DEF Bookkeeping, AttachFree, HandTarget
        <5>3. RecordOf(k, n).target = conf[k].target
          BY DEF RecordOf
        <5>4. mem'[k] = RecordOf(k, n) /\ \A j \in Keys \ {k} : mem'[j] = mem[j]
          BY <1>0, <5>1
        <5>5. \E j \in Keys \ {k} : /\ mem[j] # NoRecord /\ mem[j].target = t
                                   /\ Matches(ReadIdentity(m), mem[j].identity)
          BY <2>7, <5>2, <5>3, <5>4, ClaimsExcept
        <5> QED
          BY <5>5 DEF Claims
      <4> QED
        BY <2>1, <4>1, <4>2 DEF AttachUnidentified
    <3> QED
      BY <2>2, <2>7, <3>2 DEF MemListed, InHand, Hand
  <2>8. ASSUME Claims(mem', conf[k].target, n) PROVE n.unique \in Hand'
    <3>1. CASE UNCHANGED mem
      <4>1. PICK j \in Keys : mem[j] # NoRecord /\ Matches(ReadIdentity(n), mem[j].identity)
        BY <2>8, <3>1 DEF Claims
      <4>2. n.unique = mem[j].identity.unique
        BY <2>3, <4>1 DEF Matches, ReadIdentity, NoUnique, KeysNamed, Names, TypeOK, KernelOK
      <4> QED
        BY <2>3, <2>6, <4>1, <4>2 DEF TypeOK, KernelOK
    <3>2. CASE AttachMount(k)
      BY <2>1, <3>2 DEF AttachMount, Hand, Making
    <3> QED
      BY <2>1, <3>1, <3>2 DEF AttachUnidentified
  <2>9. \A t, m : /\ Claims(mem, t, m)' = Claims(mem', t, m)
                  /\ Claims(disk, t, m)' = Claims(disk', t, m)
                  /\ InHand(m)' <=> m.unique \in Hand'
    BY <2>5 DEF Claims, InHand, Hand
  <2>10. ASSUME NEW t \in Targets, NEW m \in Mounts(t)', m.by # Foreign, Claims(mem', t, m)
         PROVE  Claims(disk', t, m) \/ m.unique \in Hand'
    <3>1. m \in Mounts(t) \/ (m = n /\ t = conf[k].target)
      BY <2>3
    <3> QED
      BY <2>7, <2>8, <2>10, <3>1
  <2> QED
    BY <2>9, <2>10 DEF MemListed
<1>2. CASE Survivors
  <2> USE <1>2
  <2>1. ASSUME UNCHANGED mem, pc # "down" \/ pc' = "down",
               disk' = mem \/ (disk' = disk /\ Hand \subseteq Hand')
        PROVE  MemListed'
    <3>1. CASE pc' = "down"
      BY <3>1 DEF MemListed
    <3>2. CASE pc # "down"
      BY <2>1, <3>2, ListedStay
    <3> QED
      BY <2>1, <3>1, <3>2
  <2>2. CASE Restart
    <3>1. mem' = disk /\ disk' = disk
      BY <2>2 DEF Restart
    <3> QED
      BY <3>1, ListedStay
  <2>3. ASSUME Crash \/ \E saved \in BOOLEAN : Shutdown(saved) PROVE MemListed'
    BY <2>3 DEF Crash, Shutdown, Dies, MemListed
  <2>4. CASE ScanMembership \/ ResolveSources \/ InspectAndPlan
    <3>1. /\ UNCHANGED <<mem, disk>> /\ pc # "down" /\ Hand = {}
      BY <2>4, HandEmpty DEF ScanMembership, ResolveSources, InspectAndPlan, TypeOK
    <3> QED
      BY <2>1, <3>1
  <2>5. ASSUME NEW k \in Keys, \/ SkipMount(k) \/ AttachFails(k) \/ UnmountFails(k)
                               \/ ResolveMount(k) \/ VerifyRemoval(k)
        PROVE  MemListed'
    <3>1. /\ UNCHANGED <<mem, disk>> /\ pc # "down" /\ Hand = {}
      BY <2>5, HandEmpty DEF SkipMount, AttachFails, UnmountFails, ResolveMount, VerifyRemoval,
         Due, TypeOK
    <3> QED
      BY <2>1, <3>1
  <2>6. ASSUME NEW k \in Keys, Unmount(k) \/ Drop(k) PROVE MemListed'
    <3>1. /\ UNCHANGED disk /\ pc # "down" /\ Hand = {}
          /\ UNCHANGED mem \/ mem' = [mem EXCEPT ![k] = NoRecord]
      BY <2>6, HandEmpty DEF Unmount, Drop, Due, TypeOK
    <3>2. ASSUME mem' = [mem EXCEPT ![k] = NoRecord] PROVE MemListed'
      <4>1. ASSUME NEW t, NEW n, Claims(mem', t, n) PROVE Claims(mem, t, n)
        <5>1. mem'[k] = NoRecord /\ \A j \in Keys \ {k} : mem'[j] = mem[j]
          BY <1>0, <3>2
        <5>2. \E j \in Keys \ {k} : /\ mem[j] # NoRecord /\ mem[j].target = t
                                   /\ Matches(ReadIdentity(n), mem[j].identity)
          BY <4>1, <5>1, ClaimsExcept
        <5> QED
          BY <5>2 DEF Claims
      <4> QED
        BY <3>1, <4>1, ListedStay
    <3> QED
      BY <2>1, <3>1, <3>2
  <2>7. CASE SaveSucceeds
    BY <2>1, <2>7 DEF SaveSucceeds
  <2>8. ASSUME NEW late \in BOOLEAN, SaveFails(late) PROVE MemListed'
    <3>1. pc = "save" /\ disk' = (IF late THEN mem ELSE disk)
      BY <2>8 DEF SaveFails
    <3>2. CASE step.op = "remove"
      <4>1. UNCHANGED mem /\ Hand = {}
        BY <2>8, <3>2, HandEmpty DEF SaveFails, TypeOK
      <4> QED
        BY <2>1, <3>1, <4>1
    <3> QED
      BY <1>0, <2>8, <3>1, <3>2, ListedRollback
  <2>9. CASE LoseStateFile
    BY <2>9 DEF LoseStateFile, MemListed
  <2>10. CASE UNCHANGED vars \/ (Environment /\ ~LoseStateFile)
    <3>1. UNCHANGED <<mem, disk, pc, step>>
      BY <2>10 DEF Environment, Reconfigure, ToggleMember, ToggleReadable, ChangeSource,
         ToggleBlocked, ForeignUnmount, LoosenMount, ForeignMount, Reboot, Others, vars
    <3>2. Hand' = Hand
      BY <3>1 DEF Hand, Making
    <3> QED
      BY <2>1, <3>1, <3>2
  <2>11. ASSUME VerifyRollback \/ Rollback \/ RollbackFails PROVE MemListed'
    <3>1. UNCHANGED <<mem, disk>> /\ Making /\ pc \notin {"down", "save"}
      BY <2>11 DEF VerifyRollback, Rollback, RollbackFails, TypeOK, StepOK, Making
    <3>2. ASSUME NEW t \in Targets, NEW n \in Mounts(t), n.unique = step.unique,
                 Claims(mem, t, n)
          PROVE  FALSE
      <4>1. PICK j \in Keys : mem[j] # NoRecord /\ Matches(ReadIdentity(n), mem[j].identity)
        BY <3>2 DEF Claims
      <4>2. n \in AllMounts /\ Names(mem[j].identity, j)
        BY <4>1 DEF AllMounts, KeysNamed
      <4>3. n.unique = mem[j].identity.unique
        BY <4>1, <4>2, NamedIs
      <4> QED
        BY <3>1, <3>2, <4>1, <4>3 DEF HandNew
    <3>3. ASSUME NEW t \in Targets, NEW n \in Mounts(t), n.by # Foreign,
                 pc # "down" /\ Claims(mem, t, n) => Claims(disk, t, n) \/ n.unique \in Hand,
                 Claims(mem', t, n)
          PROVE  Claims(disk', t, n)
      BY <3>1, <3>2, <3>3 DEF Hand
    <3> QED
      BY <3>3, ListedStay
  <2> QED
    BY <1>1, <2>2, <2>3, <2>4, <2>5, <2>6, <2>7, <2>8, <2>9, <2>10, <2>11
       DEF Next, Daemon, Failure
<1> QED
  BY <1>1, <1>2, StacksStep

\* Whose a mount is, given what the state file holds and which mount is in hand.
StandingIn(records, hand, t, m) ==
    IF m.by = Foreign THEN "foreign"
    ELSE IF m.unique \in hand THEN "hand"
    ELSE IF Claims(records, t, m) THEN "kept"
    ELSE "stray"

\* Before and after a step.
LEMMA StandingsAre ==
    \A s, x :
        /\ x \in Standings(s) <=>
             \E t \in Targets : \E m \in Mounts(t) :
                m.unique = x /\ StandingIn(disk, Hand, t, m) = s
        /\ x \in Standings(s)' <=>
             \E t \in Targets : \E m \in Mounts(t)' :
                m.unique = x /\ StandingIn(disk', Hand', t, m) = s
<1>1. \A m : ReadIdentity(m)' = ReadIdentity(m)
  BY DEF ReadIdentity
<1>2. \A t, m : /\ Claims(disk, t, m)' = Claims(disk', t, m)
                /\ InHand(m) <=> m.unique \in Hand
                /\ InHand(m)' <=> m.unique \in Hand'
  BY <1>1 DEF Claims, InHand, Hand
<1>3. \A t, m : /\ Standing(t, m) = StandingIn(disk, Hand, t, m)
                /\ Standing(t, m)' = StandingIn(disk', Hand', t, m)
  BY <1>2 DEF Standing, StandingIn
<1>4. \A s : /\ Standings(s) =
                  UNION {{m.unique : m \in {n \in Mounts(t) : Standing(t, n) = s}} : t \in Targets}
             /\ Standings(s)' =
                  UNION {{m.unique : m \in {n \in Mounts(t)' : Standing(t, n)' = s}} : t \in Targets}
  BY DEF Standings
<1> QED
  BY <1>3, <1>4

\* A unique ID is that of one mount.
LEMMA OnePlace ==
    ASSUME StacksApart, NEW t \in Targets, NEW u \in Targets,
           NEW m \in Mounts(t), NEW n \in Mounts(u), m.unique = n.unique
    PROVE  t = u /\ m = n
<1>1. t = u
  BY DEF StacksApart, Distinct
<1>2. PICK i \in DOMAIN stack[t], j \in DOMAIN stack[t] : m = stack[t][i] /\ n = stack[t][j]
  BY <1>1 DEF Mounts
<1>3. i = j
  BY <1>2 DEF StacksApart, StackApart, Apart, Distinct
<1> QED
  BY <1>1, <1>2, <1>3

\* So a mount has one standing.
LEMMA OneStanding ==
    ASSUME StacksApart, NEW t \in Targets, NEW m \in Mounts(t)
    PROVE  \A s : m.unique \in Standings(s) <=> StandingIn(disk, Hand, t, m) = s
BY StandingsAre, OnePlace

\* Mounts that stay keep their standing.
LEMMA StandingsStay ==
    ASSUME \A t \in Targets : \A m \in Mounts(t)' : \E n \in Mounts(t) : Twins(m, n),
           \A t \in Targets : \A n \in Mounts(t) : \E m \in Mounts(t)' : Twins(m, n),
           disk' = disk, Hand' = Hand
    PROVE  \A s : Standings(s)' = Standings(s)
<1>1. \A t, m, n : Twins(m, n) =>
         m.unique = n.unique /\ StandingIn(disk', Hand', t, m) = StandingIn(disk, Hand, t, n)
  <2> SUFFICES ASSUME NEW t, NEW m, NEW n, Twins(m, n)
               PROVE  /\ m.unique = n.unique
                      /\ StandingIn(disk, Hand, t, m) = StandingIn(disk, Hand, t, n)
    OBVIOUS
  <2>1. Claims(disk, t, m) <=> Claims(disk, t, n)
    <3>1. Twins(n, m)
      BY DEF Twins
    <3> QED
      BY <3>1, TwinClaims
  <2> QED
    BY <2>1 DEF Twins, StandingIn
<1>2. \A s, x : x \in Standings(s)' <=> x \in Standings(s)
  BY <1>1, StandingsAre
<1> QED
  BY <1>2

\* The mounts that a removal leaves.
LEMMA PopMounts ==
    ASSUME KernelOK, StacksApart, NEW t \in Targets, stack[t] # <<>>, Pop(t),
           UNCHANGED nextUnique
    PROVE  /\ Top(t) \in Mounts(t)
           /\ \A u \in Targets :
                 Mounts(u)' = {m \in Mounts(u) : m.unique # Top(t).unique}
<1>1. /\ Top(t) \in Mounts(t)
      /\ \A u \in Targets : Mounts(u)' \subseteq Mounts(u)
      /\ \A u \in Targets : \A n \in Mounts(u)' : Distinct(Top(t), n)
  BY PopStacks
<1>2. \A u \in Targets : stack'[u] = IF u = t THEN Tail(stack[t]) ELSE stack[u]
  BY DEF KernelOK, Pop
<1>3. stack[t] \in Seq(Mount) /\ StackApart(stack[t])
  BY DEF KernelOK, StacksApart
<1>4. RangeOf(stack[t]) = RangeOf(Tail(stack[t])) \cup {Top(t)}
  BY <1>3, PoppedApart DEF Top
<1>5. ASSUME NEW u \in Targets, NEW m \in Mounts(u), m.unique # Top(t).unique
      PROVE  m \in Mounts(u)'
  BY <1>2, <1>4, <1>5, MountsIsRange
<1> QED
  BY <1>1, <1>5 DEF Distinct

\* A mount taken down is gone from the ledger, and no other.
LEMMA StandingsPop ==
    ASSUME KernelOK, StacksApart, NEW t \in Targets, stack[t] # <<>>, Pop(t),
           UNCHANGED nextUnique, disk' = disk, Hand' = Hand
    PROVE  \A s : Standings(s)' = Standings(s) \ {Top(t).unique}
<1>1. \A u \in Targets : Mounts(u)' = {m \in Mounts(u) : m.unique # Top(t).unique}
  BY PopMounts
<1>2. \A s, x : x \in Standings(s)' <=> x \in Standings(s) /\ x # Top(t).unique
  BY <1>1, StandingsAre
<1> QED
  BY <1>2

\* A mount put up joins the ledger, and the others keep their standing.
LEMMA StandingsPush ==
    ASSUME KernelOK, StacksApart, NEW t \in Targets, NEW m, m.unique = nextUnique,
           \A u \in Targets : Mounts(u)' = IF u = t THEN Mounts(t) \cup {m} ELSE Mounts(u),
           disk' = disk, Hand' = Hand \/ (Hand = {} /\ Hand' = {nextUnique})
    PROVE  \A s : Standings(s)' =
              Standings(s) \cup (IF StandingIn(disk', Hand', t, m) = s THEN {nextUnique} ELSE {})
<1>1. ASSUME NEW u \in Targets, NEW n \in Mounts(u)
      PROVE  n.unique \in Hand' <=> n.unique \in Hand
  <2>1. n.unique < nextUnique /\ nextUnique \in Nat /\ n \in Mount
    BY MountIn DEF StacksApart, AllMounts, KernelOK
  <2>2. n.unique # nextUnique
    BY <2>1 DEF Mount
  <2> QED
    BY <2>2
<1>2. \A u \in Targets : \A n \in Mounts(u) :
         StandingIn(disk', Hand', u, n) = StandingIn(disk, Hand, u, n)
  BY <1>1 DEF StandingIn
<1>3. ASSUME NEW s, NEW x
      PROVE  x \in Standings(s)' <=>
                \/ x \in Standings(s)
                \/ x = nextUnique /\ StandingIn(disk', Hand', t, m) = s
  <2>1. ASSUME x \in Standings(s)'
        PROVE  x \in Standings(s) \/ (x = nextUnique /\ StandingIn(disk', Hand', t, m) = s)
    <3>1. PICK u \in Targets : \E n \in Mounts(u)' :
             n.unique = x /\ StandingIn(disk', Hand', u, n) = s
      BY <2>1, StandingsAre
    <3>2. PICK n \in Mounts(u)' : n.unique = x /\ StandingIn(disk', Hand', u, n) = s
      BY <3>1
    <3>3. n \in Mounts(u) \/ (u = t /\ n = m)
      OBVIOUS
    <3> QED
      BY <1>2, <3>2, <3>3, StandingsAre
  <2>2. ASSUME x \in Standings(s) PROVE x \in Standings(s)'
    <3>1. PICK u \in Targets : \E n \in Mounts(u) :
             n.unique = x /\ StandingIn(disk, Hand, u, n) = s
      BY <2>2, StandingsAre
    <3>2. PICK n \in Mounts(u) : n.unique = x /\ StandingIn(disk, Hand, u, n) = s
      BY <3>1
    <3>3. n \in Mounts(u)'
      OBVIOUS
    <3> QED
      BY <1>2, <3>2, <3>3, StandingsAre
  <2>3. ASSUME x = nextUnique, StandingIn(disk', Hand', t, m) = s PROVE x \in Standings(s)'
    <3>1. m \in Mounts(t)'
      OBVIOUS
    <3> QED
      BY <2>3, <3>1, StandingsAre
  <2> QED
    BY <2>1, <2>2, <2>3
<1> QED
  BY <1>3

\* When mounts go, the state file is written or the mount in hand is settled: the others
\* keep their standing, or they are disowned.
LEMMA Resettled ==
    ASSUME StacksApart, UNCHANGED nextUnique, Hand' = {} \/ Hand' = Hand, NEW gone,
           \A t \in Targets : Mounts(t)' = {m \in Mounts(t) : m.unique \notin gone},
           \A t \in Targets : \A m \in Mounts(t) :
              m.by # Foreign /\ m.unique \notin gone /\ Claims(disk', t, m)
                => Claims(disk, t, m) \/ m.unique \in Hand
    PROVE  \E disowned \in SUBSET ((Standings("kept") \cup Standings("hand")) \ gone) :
              /\ Standings("foreign")' = Standings("foreign") \ gone
              /\ Standings("stray")' = (Standings("stray") \ gone) \cup disowned
              /\ Hand' = {} =>
                   /\ Standings("hand")' = {}
                   /\ Standings("kept")' =
                        (Standings("kept") \cup Standings("hand")) \ (gone \cup disowned)
              /\ Hand' = Hand =>
                   /\ Standings("hand")' = Standings("hand") \ gone
                   /\ Standings("kept")' = Standings("kept") \ (gone \cup disowned)
                   /\ disowned \subseteq Standings("kept")
              /\ disk' = disk => disowned \subseteq Standings("hand")
<1> DEFINE disowned ==
      {x \in (Standings("kept") \cup Standings("hand")) \ gone : x \in Standings("stray")'}
           Was(t, m) == StandingIn(disk, Hand, t, m)
           Is(t, m) == StandingIn(disk', Hand', t, m)
<1>1. ASSUME NEW t \in Targets, NEW m \in Mounts(t), NEW s
      PROVE  /\ m.unique \in Standings(s) <=> Was(t, m) = s
             /\ m.unique \in Standings(s)' <=> m.unique \notin gone /\ Is(t, m) = s
  <2>1. m.unique \in Standings(s) <=> Was(t, m) = s
    BY OneStanding
  <2>2. ASSUME m.unique \in Standings(s)' PROVE m.unique \notin gone /\ Is(t, m) = s
    <3>1. PICK u \in Targets : \E n \in Mounts(u)' :
             n.unique = m.unique /\ StandingIn(disk', Hand', u, n) = s
      BY <2>2, StandingsAre
    <3>2. PICK n \in Mounts(u)' : n.unique = m.unique /\ StandingIn(disk', Hand', u, n) = s
      BY <3>1
    <3>3. n \in Mounts(u) /\ n.unique \notin gone
      BY <3>2
    <3>4. u = t /\ n = m
      BY <3>2, <3>3, OnePlace
    <3> QED
      BY <3>2, <3>3, <3>4
  <2>3. ASSUME m.unique \notin gone, Is(t, m) = s PROVE m.unique \in Standings(s)'
    <3>1. m \in Mounts(t)'
      BY <2>3
    <3> QED
      BY <2>3, <3>1, StandingsAre
  <2> QED
    BY <2>1, <2>2, <2>3
<1>2. ASSUME NEW t \in Targets, NEW m \in Mounts(t)
      PROVE  /\ Was(t, m) = "foreign" <=> Is(t, m) = "foreign"
             /\ Was(t, m) \in {"foreign", "hand", "kept", "stray"}
             /\ Is(t, m) \in {"foreign", "hand", "kept", "stray"}
             /\ m.unique \notin gone /\ Is(t, m) = "kept" => Was(t, m) \in {"hand", "kept"}
             /\ Hand' = {} => Is(t, m) # "hand"
             /\ Hand' = Hand => (Is(t, m) = "hand" <=> Was(t, m) = "hand")
             /\ disk' = disk /\ Was(t, m) = "kept" => Is(t, m) = "kept"
  BY DEF StandingIn
<1>3. \A s, x : x \in Standings(s) \/ x \in Standings(s)' =>
         \E t \in Targets : \E m \in Mounts(t) : m.unique = x
  BY StandingsAre
<1> HIDE DEF Was, Is
<1>4. ASSUME NEW x
      PROVE  /\ x \in Standings("foreign")' <=> x \in Standings("foreign") \ gone
             /\ x \in Standings("stray")' <=>
                  x \in Standings("stray") \ gone \/ x \in disowned
             /\ Hand' = {} =>
                  /\ x \notin Standings("hand")'
                  /\ x \in Standings("kept")' <=>
                       /\ x \in Standings("kept") \cup Standings("hand")
                       /\ x \notin gone /\ x \notin disowned
             /\ Hand' = Hand =>
                  /\ x \in Standings("hand")' <=> x \in Standings("hand") \ gone
                  /\ x \in Standings("kept")' <=>
                       x \in Standings("kept") /\ x \notin gone /\ x \notin disowned
                  /\ x \in disowned => x \in Standings("kept")
             /\ disk' = disk /\ x \in disowned => x \in Standings("hand")
  <2>1. CASE \E t \in Targets : \E m \in Mounts(t) : m.unique = x
    <3>1. PICK t \in Targets : \E m \in Mounts(t) : m.unique = x
      BY <2>1
    <3>2. PICK m \in Mounts(t) : m.unique = x
      BY <3>1
    <3>3. \A s : /\ x \in Standings(s) <=> Was(t, m) = s
                 /\ x \in Standings(s)' <=> x \notin gone /\ Is(t, m) = s
      BY <1>1, <3>2
    <3> QED
      BY <1>2, <3>2, <3>3
  <2>2. CASE ~\E t \in Targets : \E m \in Mounts(t) : m.unique = x
    BY <1>3, <2>2
  <2> QED
    BY <2>1, <2>2
<1>5. disowned \in SUBSET ((Standings("kept") \cup Standings("hand")) \ gone)
  OBVIOUS
<1> HIDE DEF disowned
<1>6. /\ Standings("foreign")' = Standings("foreign") \ gone
      /\ Standings("stray")' = (Standings("stray") \ gone) \cup disowned
      /\ disk' = disk => disowned \subseteq Standings("hand")
  BY <1>4
<1>7. ASSUME Hand' = {}
      PROVE  /\ Standings("hand")' = {}
             /\ Standings("kept")' =
                  (Standings("kept") \cup Standings("hand")) \ (gone \cup disowned)
  BY <1>4, <1>7
<1>8. ASSUME Hand' = Hand
      PROVE  /\ Standings("hand")' = Standings("hand") \ gone
             /\ Standings("kept")' = Standings("kept") \ (gone \cup disowned)
             /\ disowned \subseteq Standings("kept")
  BY <1>4, <1>8
<1> QED
  BY <1>5, <1>6, <1>7, <1>8

\* Once the state file has been written, or the writer has died, nothing is in hand: the
\* mount that was is kept or disowned, and no mount is kept that was disowned.  When a save
\* has failed the mount in hand is still there to be undone.
LEMMA HandSettles ==
    ASSUME StacksApart, UNCHANGED <<stack, nextUnique>>, Hand' = {} \/ Hand' = Hand,
           \A t \in Targets : \A m \in Mounts(t) :
              m.by # Foreign /\ Claims(disk', t, m) => Claims(disk, t, m) \/ m.unique \in Hand
    PROVE  /\ Hand' = {} =>
                \E disowned \in SUBSET (Standings("kept") \cup Standings("hand")) :
                   Ledger!SettleHand(disowned)
           /\ Hand' = Hand =>
                \E disowned \in SUBSET Standings("kept") : Ledger!Retract(disowned)
<1>1. \A t \in Targets : Mounts(t)' = {m \in Mounts(t) : m.unique \notin {}}
  BY DEF Mounts
<1>2. PICK disowned \in SUBSET ((Standings("kept") \cup Standings("hand")) \ {}) :
              /\ Standings("foreign")' = Standings("foreign") \ {}
              /\ Standings("stray")' = (Standings("stray") \ {}) \cup disowned
              /\ Hand' = {} =>
                   /\ Standings("hand")' = {}
                   /\ Standings("kept")' =
                        (Standings("kept") \cup Standings("hand")) \ ({} \cup disowned)
              /\ Hand' = Hand =>
                   /\ Standings("hand")' = Standings("hand") \ {}
                   /\ Standings("kept")' = Standings("kept") \ ({} \cup disowned)
                   /\ disowned \subseteq Standings("kept")
              /\ disk' = disk => disowned \subseteq Standings("hand")
  BY <1>1, Resettled
<1>3. Hand' = {} => Ledger!SettleHand(disowned)
  BY <1>2 DEF Ledger!SettleHand
<1>4. Hand' = Hand => Ledger!Retract(disowned) /\ disowned \in SUBSET Standings("kept")
  BY <1>2 DEF Ledger!Retract
<1> QED
  BY <1>2, <1>3, <1>4

\* Every step of the writer moves the pass on.
LEMMA TurnMoves ==
    ASSUME TypeOK, Daemon \/ Failure
    PROVE  <<pc, todo>>' # <<pc, todo>>
<1>1. ASSUME NEW s, Due(s), NEW done, Finish(s, done) PROVE todo' # todo
  BY <1>1 DEF Due, Finish
<1>2. CASE \/ Restart \/ ScanMembership \/ ResolveSources \/ InspectAndPlan \/ SaveSucceeds
           \/ VerifyRollback \/ Rollback \/ RollbackFails
           \/ \E late \in BOOLEAN : SaveFails(late)
           \/ Crash \/ \E saved \in BOOLEAN : Shutdown(saved)
  <2>1. CASE VerifyRollback
    BY <2>1, VerifyRollbackIs DEF Finish
  <2>2. CASE \E late \in BOOLEAN : SaveFails(late)
    BY <2>2 DEF SaveFails, Finish
  <2>3. CASE \/ Restart \/ ScanMembership \/ ResolveSources \/ InspectAndPlan \/ SaveSucceeds
             \/ Rollback \/ RollbackFails
             \/ Crash \/ \E saved \in BOOLEAN : Shutdown(saved)
    <3>1. pc' # pc
      BY <2>3 DEF Restart, ScanMembership, ResolveSources, InspectAndPlan, SaveSucceeds,
         Rollback, RollbackFails, Crash, Shutdown, Dies, Finish
    <3> QED
      BY <3>1
  <2> QED
    BY <1>2, <2>1, <2>2, <2>3
<1>3. ASSUME NEW k \in Keys, \/ AttachMount(k) \/ AttachUnidentified(k) \/ AttachFails(k)
                             \/ Unmount(k) \/ UnmountFails(k)
      PROVE  pc' # pc
  BY <1>3 DEF AttachMount, AttachUnidentified, AttachFails, Unmount, UnmountFails, Finish
<1>4. ASSUME NEW k \in Keys, Drop(k) PROVE pc' # pc
  BY <1>4 DEF Drop, Due
<1>5. ASSUME NEW k \in Keys, ResolveMount(k) PROVE pc' # pc \/ todo' # todo
  <2>1. CASE Finish([op |-> "mount", key |-> k], FALSE)
    BY <1>1, <1>5, <2>1 DEF ResolveMount
  <2>2. CASE pc' = "attach"
    BY <1>5, <2>2 DEF ResolveMount, Due
  <2> QED
    BY <1>5, <2>1, <2>2 DEF ResolveMount
<1>6. ASSUME NEW k \in Keys, VerifyRemoval(k) PROVE pc' # pc \/ todo' # todo
  <2>1. CASE Finish([op |-> "remove", key |-> k], FALSE)
    BY <1>1, <1>6, <2>1 DEF VerifyRemoval
  <2>2. CASE pc' = "umount"
    BY <1>6, <2>2 DEF VerifyRemoval, Due
  <2> QED
    BY <1>6, <2>1, <2>2 DEF VerifyRemoval
<1>7. ASSUME NEW k \in Keys, SkipMount(k) PROVE todo' # todo
  BY <1>1, <1>7 DEF SkipMount
<1> QED
  BY <1>2, <1>3, <1>4, <1>5, <1>6, <1>7 DEF Daemon, Failure

\* On one stack: the pinned mount, while it is there, and what lies over it.
AimIn(s, p) == {s[i].unique : i \in {j \in DOMAIN s : s[j].unique = p}}

OverIn(s, p) ==
    {s[i].unique : i \in {j \in DOMAIN s : \E l \in DOMAIN s : j < l /\ s[l].unique = p}}

\* Where the mounts of a stack are once one is put on top, or the top one is gone.
LEMMA PushedAt ==
    ASSUME NEW s \in Seq(Mount), NEW m \in Mount
    PROVE  /\ Len(s) \in Nat /\ DOMAIN s = 1..Len(s)
           /\ DOMAIN (<<m>> \o s) = 1..(Len(s) + 1) /\ (<<m>> \o s)[1] = m
           /\ \A i \in 1..Len(s) : (<<m>> \o s)[i + 1] = s[i]
<1> DEFINE q == <<m>> \o s
<1>1. /\ Len(s) \in Nat /\ DOMAIN s = 1..Len(s)
      /\ <<m>> \in Seq(Mount) /\ Len(<<m>>) = 1 /\ <<m>>[1] = m
  BY LenProperties
<1>2. /\ q \in Seq(Mount) /\ Len(q) = Len(s) + 1
      /\ \A i \in 1..(1 + Len(s)) : q[i] = IF i <= 1 THEN m ELSE s[i - 1]
  BY <1>1, ConcatProperties
<1>3. DOMAIN q = 1..(Len(s) + 1)
  BY <1>2, LenProperties
<1> HIDE DEF q
<1>4. ASSUME NEW i \in 1..Len(s) PROVE q[i + 1] = s[i]
  <2>1. i + 1 \in 1..(1 + Len(s)) /\ ~(i + 1 <= 1) /\ (i + 1) - 1 = i
    BY <1>1
  <2> QED
    BY <1>2, <2>1
<1>5. q[1] = m
  BY <1>1, <1>2
<1> QED
  BY <1>1, <1>3, <1>4, <1>5 DEF q

LEMMA PoppedAt ==
    ASSUME NEW s \in Seq(Mount), s # <<>>
    PROVE  /\ Len(s) \in Nat \ {0} /\ DOMAIN s = 1..Len(s) /\ Head(s) = s[1]
           /\ DOMAIN Tail(s) = 1..(Len(s) - 1)
           /\ \A i \in 1..(Len(s) - 1) : Tail(s)[i] = s[i + 1]
<1>1. /\ Tail(s) \in Seq(Mount)
      /\ Len(Tail(s)) = Len(s) - 1
      /\ \A i \in 1..Len(Tail(s)) : Tail(s)[i] = s[i + 1]
  BY HeadTailProperties
<1> QED
  BY <1>1, EmptySeq, LenProperties

\* A mount on top has nothing over it.
LEMMA AimTop ==
    ASSUME NEW s \in Seq(Mount), s # <<>>, StackApart(s)
    PROVE  AimIn(s, Head(s).unique) = {Head(s).unique} /\ OverIn(s, Head(s).unique) = {}
<1>1. Len(s) \in Nat \ {0} /\ DOMAIN s = 1..Len(s) /\ Head(s) = s[1]
  BY PoppedAt
<1>2. \A i \in DOMAIN s : s[i].unique = Head(s).unique => i = 1
  BY <1>1 DEF StackApart, Apart, Distinct
<1>3. AimIn(s, Head(s).unique) = {Head(s).unique}
  BY <1>1 DEF AimIn
<1>4. OverIn(s, Head(s).unique) = {}
  BY <1>1, <1>2 DEF OverIn
<1> QED
  BY <1>3, <1>4

\* A mount put on top of the pinned one lies over it.
LEMMA AimPushed ==
    ASSUME NEW s \in Seq(Mount), NEW m \in Mount, NEW p, m.unique # p
    PROVE  /\ AimIn(<<m>> \o s, p) = AimIn(s, p)
           /\ OverIn(<<m>> \o s, p) =
                 OverIn(s, p) \cup (IF AimIn(s, p) = {} THEN {} ELSE {m.unique})
<1> DEFINE q == <<m>> \o s
<1>1. /\ Len(s) \in Nat /\ DOMAIN s = 1..Len(s)
      /\ DOMAIN q = 1..(Len(s) + 1) /\ q[1] = m
      /\ \A i \in 1..Len(s) : q[i + 1] = s[i]
  BY PushedAt
<1> HIDE DEF q
<1>2. ASSUME NEW i \in DOMAIN q, i # 1
      PROVE  i - 1 \in DOMAIN s /\ q[i] = s[i - 1]
  <2>1. i - 1 \in 1..Len(s) /\ (i - 1) + 1 = i
    BY <1>1, <1>2
  <2> QED
    BY <1>1, <2>1
<1>3. \A i \in DOMAIN s : i + 1 \in DOMAIN q /\ q[i + 1] = s[i]
  BY <1>1
<1>4. ASSUME NEW x PROVE x \in AimIn(q, p) <=> x \in AimIn(s, p)
  BY <1>1, <1>2, <1>3 DEF AimIn
<1>5. ASSUME NEW x, x \in OverIn(q, p)
      PROVE  x \in OverIn(s, p) \/ (AimIn(s, p) # {} /\ x = m.unique)
  <2>1. PICK j \in DOMAIN q, l \in DOMAIN q : x = q[j].unique /\ j < l /\ q[l].unique = p
    BY <1>5 DEF OverIn
  <2>2. l - 1 \in DOMAIN s /\ s[l - 1].unique = p /\ l # 1
    BY <1>1, <1>2, <2>1
  <2>3. CASE j = 1
    BY <1>1, <2>1, <2>2, <2>3 DEF AimIn
  <2>4. CASE j # 1
    <3>1. j - 1 \in DOMAIN s /\ x = s[j - 1].unique /\ j - 1 < l - 1
      BY <1>1, <1>2, <2>1, <2>4
    <3> QED
      BY <2>2, <3>1 DEF OverIn
  <2> QED
    BY <2>3, <2>4
<1>6. ASSUME NEW x, x \in OverIn(s, p) PROVE x \in OverIn(q, p)
  <2>1. PICK j \in DOMAIN s, l \in DOMAIN s : x = s[j].unique /\ j < l /\ s[l].unique = p
    BY <1>6 DEF OverIn
  <2>2. j + 1 \in DOMAIN q /\ l + 1 \in DOMAIN q /\ j + 1 < l + 1
    BY <1>1, <1>3, <2>1
  <2>3. x = q[j + 1].unique /\ q[l + 1].unique = p
    BY <1>3, <2>1
  <2> QED
    BY <2>2, <2>3 DEF OverIn
<1>7. ASSUME AimIn(s, p) # {} PROVE m.unique \in OverIn(q, p)
  <2>1. PICK l \in DOMAIN s : s[l].unique = p
    BY <1>7 DEF AimIn
  <2>2. l + 1 \in DOMAIN q /\ q[l + 1].unique = p /\ 1 < l + 1 /\ 1 \in DOMAIN q
    BY <1>1, <1>3, <2>1
  <2> QED
    BY <1>1, <2>2 DEF OverIn
<1>8. AimIn(q, p) = AimIn(s, p)
  BY <1>4
<1>9. OverIn(q, p) = OverIn(s, p) \cup (IF AimIn(s, p) = {} THEN {} ELSE {m.unique})
  BY <1>5, <1>6, <1>7
<1> QED
  BY <1>8, <1>9 DEF q

\* A mount taken off is not aimed at, nor over the pinned one, any more; and the pinned
\* one goes after what lies over it.
LEMMA AimPopped ==
    ASSUME NEW s \in Seq(Mount), s # <<>>, StackApart(s), NEW p
    PROVE  /\ AimIn(Tail(s), p) = AimIn(s, p) \ {Head(s).unique}
           /\ OverIn(Tail(s), p) = OverIn(s, p) \ {Head(s).unique}
           /\ Head(s).unique \in AimIn(s, p) => OverIn(s, p) = {}
           /\ AimIn(s, p) # {} =>
                 Head(s).unique \in IF OverIn(s, p) = {} THEN AimIn(s, p) ELSE OverIn(s, p)
<1> DEFINE r == Tail(s)
<1>1. /\ Len(s) \in Nat \ {0} /\ DOMAIN s = 1..Len(s) /\ Head(s) = s[1]
      /\ DOMAIN r = 1..(Len(s) - 1)
      /\ \A i \in 1..(Len(s) - 1) : r[i] = s[i + 1]
  BY PoppedAt
<1> HIDE DEF r
<1>2. \A i \in DOMAIN s : s[i].unique = Head(s).unique => i = 1
  BY <1>1 DEF StackApart, Apart, Distinct
<1>3. \A i \in DOMAIN r : i + 1 \in DOMAIN s /\ i + 1 # 1 /\ r[i] = s[i + 1]
  BY <1>1
<1>4. ASSUME NEW i \in DOMAIN s, i # 1 PROVE i - 1 \in DOMAIN r /\ r[i - 1] = s[i]
  <2>1. i - 1 \in 1..(Len(s) - 1) /\ (i - 1) + 1 = i
    BY <1>1, <1>4
  <2> QED
    BY <1>1, <2>1
<1>5. AimIn(r, p) = AimIn(s, p) \ {Head(s).unique}
  <2>1. ASSUME NEW x \in AimIn(r, p) PROVE x \in AimIn(s, p) \ {Head(s).unique}
    <3>1. PICK i \in DOMAIN r : x = r[i].unique /\ x = p
      BY <2>1 DEF AimIn
    <3>2. i + 1 \in DOMAIN s /\ i + 1 # 1 /\ s[i + 1].unique = x
      BY <1>3, <3>1
    <3> QED
      BY <1>2, <3>1, <3>2 DEF AimIn
  <2>2. ASSUME NEW x \in AimIn(s, p), x # Head(s).unique PROVE x \in AimIn(r, p)
    <3>1. PICK i \in DOMAIN s : x = s[i].unique /\ x = p
      BY <2>2 DEF AimIn
    <3>2. i - 1 \in DOMAIN r /\ r[i - 1].unique = x
      BY <1>1, <1>4, <2>2, <3>1
    <3> QED
      BY <3>1, <3>2 DEF AimIn
  <2> QED
    BY <2>1, <2>2
<1>6. OverIn(r, p) = OverIn(s, p) \ {Head(s).unique}
  <2>1. ASSUME NEW x \in OverIn(r, p) PROVE x \in OverIn(s, p) \ {Head(s).unique}
    <3>1. PICK j \in DOMAIN r, l \in DOMAIN r : x = r[j].unique /\ j < l /\ r[l].unique = p
      BY <2>1 DEF OverIn
    <3>2. j + 1 \in DOMAIN s /\ j + 1 # 1 /\ s[j + 1].unique = x
      BY <1>3, <3>1
    <3>3. l + 1 \in DOMAIN s /\ s[l + 1].unique = p /\ j + 1 < l + 1
      BY <1>1, <1>3, <3>1
    <3> QED
      BY <1>2, <3>2, <3>3 DEF OverIn
  <2>2. ASSUME NEW x \in OverIn(s, p), x # Head(s).unique PROVE x \in OverIn(r, p)
    <3>1. PICK j \in DOMAIN s, l \in DOMAIN s : x = s[j].unique /\ j < l /\ s[l].unique = p
      BY <2>2 DEF OverIn
    <3>2. j # 1 /\ l # 1
      BY <1>1, <2>2, <3>1
    <3>3. /\ j - 1 \in DOMAIN r /\ r[j - 1].unique = x
          /\ l - 1 \in DOMAIN r /\ r[l - 1].unique = p
      BY <1>4, <3>1, <3>2
    <3>4. j - 1 < l - 1
      BY <1>1, <3>1
    <3> QED
      BY <3>3, <3>4 DEF OverIn
  <2> QED
    BY <2>1, <2>2
<1>7. ASSUME Head(s).unique \in AimIn(s, p) PROVE OverIn(s, p) = {}
  <2>1. Head(s).unique = p
    BY <1>7 DEF AimIn
  <2> QED
    BY <2>1, AimTop
<1>8. ASSUME AimIn(s, p) # {}
      PROVE  Head(s).unique \in IF OverIn(s, p) = {} THEN AimIn(s, p) ELSE OverIn(s, p)
  <2>1. PICK l \in DOMAIN s : s[l].unique = p
    BY <1>8 DEF AimIn
  <2>2. CASE l = 1
    <3>1. Head(s).unique = p
      BY <1>1, <2>1, <2>2
    <3> QED
      BY <3>1, AimTop
  <2>3. CASE l # 1
    <3>1. 1 < l /\ 1 \in DOMAIN s
      BY <1>1, <2>3
    <3>2. Head(s).unique \in OverIn(s, p)
      BY <1>1, <2>1, <3>1 DEF OverIn
    <3> QED
      BY <3>2
  <2> QED
    BY <2>2, <2>3
<1> QED
  BY <1>5, <1>6, <1>7, <1>8 DEF r

\* Restrictions do not matter.
LEMMA AimSame ==
    ASSUME NEW s, NEW r, DOMAIN r = DOMAIN s, \A i \in DOMAIN s : r[i].unique = s[i].unique,
           NEW p
    PROVE  AimIn(r, p) = AimIn(s, p) /\ OverIn(r, p) = OverIn(s, p)
<1>1. \A x : /\ x \in AimIn(r, p) <=> x \in AimIn(s, p)
             /\ x \in OverIn(r, p) <=> x \in OverIn(s, p)
  BY DEF AimIn, OverIn
<1> QED
  BY <1>1

\* What the ledger says the writer aims at.
LEMMA AimsAre ==
    /\ pc = "umount" => /\ Aim = AimIn(stack[AimTarget], step.pinned)
                        /\ Over = OverIn(stack[AimTarget], step.pinned)
    /\ pc # "umount" => Aim = {} /\ Over = {}
    /\ pc' = "umount" => /\ Aim' = AimIn(stack'[AimTarget'], step'.pinned)
                         /\ Over' = OverIn(stack'[AimTarget'], step'.pinned)
    /\ pc' # "umount" => Aim' = {} /\ Over' = {}
<1>1. /\ Attached(AimTarget) <=>
             \E i \in DOMAIN stack[AimTarget] : stack[AimTarget][i].unique = step.pinned
      /\ Attached(AimTarget)' <=>
             \E i \in DOMAIN stack'[AimTarget'] : stack'[AimTarget'][i].unique = step'.pinned
  BY DEF Attached, Mounts
<1>2. \A s, p : AimIn(s, p) = IF \E i \in DOMAIN s : s[i].unique = p THEN {p} ELSE {}
  BY DEF AimIn
<1>3. /\ Aim = IF pc = "umount" /\ Attached(AimTarget) THEN {step.pinned} ELSE {}
      /\ Aim' = IF pc' = "umount" /\ Attached(AimTarget)' THEN {step'.pinned} ELSE {}
  BY DEF Aim
<1>4. /\ Over = IF pc # "umount" THEN {} ELSE OverIn(stack[AimTarget], step.pinned)
      /\ Over' = IF pc' # "umount" THEN {} ELSE OverIn(stack'[AimTarget'], step'.pinned)
  BY DEF Over, OverIn
<1> QED
  BY <1>1, <1>2, <1>3, <1>4

\* Nothing happens to the mounts and to what is known of them.
LEMMA LedgerSame ==
    ASSUME UNCHANGED <<stack, nextUnique, disk>>, Hand' = Hand
    PROVE  UNCHANGED Ledger!mounts
<1>1. \A t \in Targets : Mounts(t)' = Mounts(t)
  BY DEF Mounts
<1>2. \A s : Standings(s)' = Standings(s)
  BY <1>1, StandingsStay DEF Twins
<1> QED
  BY <1>2 DEF Ledger!mounts

\* A mount in memory's records is one the state file names.
LEMMA PinnedKept ==
    ASSUME UniqueSupported, TypeOK, Bookkeeping, KeysNamed, MemListed, pc # "down", Hand = {},
           NEW k \in Keys, mem[k] # NoRecord, mem[k].target \in Targets,
           NEW m \in Mounts(mem[k].target), Matches(ReadIdentity(m), mem[k].identity)
    PROVE  m.by # Foreign /\ m.unique \in Standings("kept")
<1>1. m \in AllMounts
  BY DEF AllMounts
<1>2. m.by = k /\ k # Foreign /\ Claims(mem, mem[k].target, m)
  BY <1>1, NamedMount, ReconcilerAssumption DEF Claims
<1>3. ~InHand(m)
  BY DEF InHand, Hand
<1>4. StandingIn(disk, Hand, mem[k].target, m) = "kept"
  BY <1>2, <1>3 DEF MemListed, StandingIn
<1> QED
  BY <1>2, <1>4, StandingsAre

\* The mount of byssus on the target where one is made is the mount in hand.
LEMMA HandHeld ==
    ASSUME TypeOK, Bookkeeping, Making, NEW m \in Mounts(HandTarget), m.by # Foreign
    PROVE  m.unique \in Standings("hand")
<1>1. HandTarget \in Targets
  BY HandTargetIn
<1>2. m.unique \in Hand
  BY <1>1 DEF Bookkeeping, HandKnown, Hand
<1>3. StandingIn(disk, Hand, HandTarget, m) = "hand"
  BY <1>2 DEF StandingIn
<1> QED
  BY <1>1, <1>3, StandingsAre

\* The top of a stack with a mount of byssus that something names is that mount, or foreign.
LEMMA TopNotStray ==
    ASSUME TypeOK, Bookkeeping, NEW t \in Targets, NEW m \in Mounts(t), m.by # Foreign,
           m.unique \notin Standings("stray")
    PROVE  stack[t] # <<>> /\ Top(t).unique \notin Standings("stray")
<1>1. stack[t] # <<>>
  BY DEF Mounts
<1>2. Top(t) \in Mounts(t)
  BY <1>1, TopIn
<1>3. CASE Top(t).by = Foreign
  <2>1. StandingIn(disk, Hand, t, Top(t)) = "foreign"
    BY <1>3 DEF StandingIn
  <2> QED
    BY <1>1, <1>2, <2>1, OneStanding DEF Bookkeeping
<1>4. CASE Top(t).by # Foreign
  <2>1. Top(t) = m
    BY <1>2, <1>4 DEF Bookkeeping, StacksApart, StackApart, Apart, Mounts
  <2> QED
    BY <1>1, <2>1
<1> QED
  BY <1>3, <1>4

\* The mount aimed at, and its target.
LEMMA AimIs ==
    ASSUME TypeOK, RemovalsComeFirst, pc = "umount"
    PROVE  /\ AimTarget \in Targets /\ step.key \in Keys
           /\ step.op = "unmount" => /\ mem[step.key] # NoRecord
                                     /\ AimTarget = mem[step.key].target
           /\ step.op = "undo" => Making /\ AimTarget = HandTarget
<1>1. step.key \in Keys /\ step.op \in {"unmount", "undo"}
  BY PinnedType DEF TypeOK, StepOK
<1>2. CASE step.op = "unmount"
  <2>1. mem[step.key] # NoRecord
    BY <1>1, <1>2, PinnedHasRecord
  <2>2. mem[step.key].target \in Targets
    BY <1>1, <2>1 DEF TypeOK, StateOK, MountRecord
  <2> QED
    BY <1>1, <1>2, <2>1, <2>2 DEF AimTarget
<1>3. CASE step.op = "undo"
  <2>1. Making /\ AimTarget = HandTarget
    BY <1>3 DEF Making, AimTarget, HandTarget
  <2> QED
    BY <1>1, <1>3, <2>1, HandTargetIn
<1> QED
  BY <1>1, <1>2, <1>3

\* It is kept or in hand.
LEMMA PinnedNamed ==
    ASSUME UniqueSupported, TypeOK, RemovalsComeFirst, Bookkeeping, KeysNamed, MemListed,
           PinnedOwn, pc = "umount", NEW m \in Mounts(AimTarget), m.unique = step.pinned
    PROVE  m.by # Foreign /\ m.unique \notin Standings("stray")
<1>1. step.op \in {"unmount", "undo"} /\ AimTarget \in Targets /\ step.key \in Keys
  BY AimIs DEF TypeOK, StepOK
<1>2. CASE step.op = "unmount"
  <2>1. Hand = {}
    BY <1>2, HandEmpty DEF TypeOK
  <2>2. /\ mem[step.key] # NoRecord /\ AimTarget = mem[step.key].target
        /\ Matches(ReadIdentity(m), mem[step.key].identity)
    BY <1>1, <1>2, AimIs DEF Bookkeeping, PinnedKnown
  <2>3. m.by # Foreign /\ m.unique \in Standings("kept")
    BY <1>1, <2>1, <2>2, PinnedKept
  <2> QED
    BY <1>1, <2>3, OneStanding DEF Bookkeeping
<1>3. CASE step.op = "undo"
  <2>1. m \in AllMounts
    BY <1>1 DEF AllMounts
  <2>2. m.by # Foreign
    BY <2>1 DEF PinnedOwn, Own
  <2>3. m.unique \in Standings("hand")
    BY <1>3, <2>2, AimIs, HandHeld
  <2> QED
    BY <1>1, <2>2, <2>3, OneStanding DEF Bookkeeping
<1> QED
  BY <1>1, <1>2, <1>3

\* umount2 takes down what is aimed at, or what lies over it.
LEMMA TopAimed ==
    ASSUME UniqueSupported, TypeOK, RemovalsComeFirst, Bookkeeping, KeysNamed, MemListed,
           PinnedOwn, pc = "umount", Attached(AimTarget)
    PROVE  /\ AimTarget \in Targets /\ stack[AimTarget] # <<>>
           /\ Top(AimTarget).unique \notin Standings("stray")
           /\ Top(AimTarget).unique \in IF Over = {} THEN Aim ELSE Over
<1> DEFINE t == AimTarget
<1>1. t \in Targets /\ step.key \in Keys
  BY AimIs
<1>2. PICK m \in Mounts(t) : m.unique = step.pinned
  BY DEF Attached
<1>3. stack[t] # <<>> /\ Top(t).unique \notin Standings("stray")
  <2>1. m.by # Foreign /\ m.unique \notin Standings("stray")
    BY <1>2, PinnedNamed
  <2> QED
    BY <1>1, <2>1, TopNotStray
<1>4. stack[t] \in Seq(Mount) /\ StackApart(stack[t])
  BY <1>1 DEF TypeOK, KernelOK, Bookkeeping, StacksApart
<1>5. Aim = AimIn(stack[t], step.pinned) /\ Over = OverIn(stack[t], step.pinned)
  BY AimsAre
<1>6. AimIn(stack[t], step.pinned) # {}
  BY <1>2 DEF AimIn, Mounts
<1>7. Head(stack[t]).unique \in IF Over = {} THEN Aim ELSE Over
  BY <1>3, <1>4, <1>5, <1>6, AimPopped
<1> QED
  BY <1>1, <1>3, <1>7 DEF Top

\* Nothing in hand is nothing in the ledger's hand.
LEMMA NoHand ==
    ASSUME Hand = {}
    PROVE  Standings("hand") = {}
BY StandingsAre DEF StandingIn

\* A mount verified before it is unmounted is aimed at.
LEMMA LedgerAims ==
    ASSUME TypeOK, Bookkeeping, NEW t \in Targets, stack[t] # <<>>,
           UNCHANGED <<stack, nextUnique, disk>>, Hand' = Hand, pc' = "umount",
           AimTarget' = t, step'.pinned = Top(t).unique,
           Top(t).unique \in IF Standings("hand") = {} THEN Standings("kept")
                             ELSE Standings("hand")
    PROVE  \E m \in Standings("kept") \cup Standings("hand") : Ledger!TakeAim(m)
<1>1. stack[t] \in Seq(Mount) /\ StackApart(stack[t])
  BY DEF TypeOK, KernelOK, Bookkeeping, StacksApart
<1>2. Aim' = {Top(t).unique} /\ Over' = {}
  BY <1>1, AimsAre, AimTop DEF Top
<1>3. UNCHANGED Ledger!mounts
  BY LedgerSame
<1>4. Ledger!TakeAim(Top(t).unique)
  BY <1>2, <1>3 DEF Ledger!TakeAim
<1> QED
  BY <1>4

\* The check before a removal takes aim, or is all there is to it.
LEMMA LedgerVerifies ==
    ASSUME UniqueSupported, TypeOK, RemovalsComeFirst, Bookkeeping, KeysNamed, MemListed,
           NEW k \in Keys, VerifyRemoval(k)
    PROVE  \/ pc' # "umount" /\ UNCHANGED Ledger!mounts
           \/ \E m \in Standings("kept") \cup Standings("hand") : Ledger!TakeAim(m)
<1> DEFINE t == mem[k].target
<1>1. /\ UNCHANGED <<stack, nextUnique, disk, mem>> /\ pc = "run"
      /\ mem[k] # NoRecord /\ Hand = {}
  BY RemovalHasRecord, HandEmpty DEF VerifyRemoval, Due, kernel, TypeOK
<1>2. t \in Targets
  BY <1>1 DEF TypeOK, StateOK, MountRecord
<1>3. CASE OpenVerified(t, mem[k].identity)
  <2>1. step' = [op |-> "unmount", key |-> k, pinned |-> Top(t).unique] /\ pc' = "umount"
    BY <1>3 DEF VerifyRemoval
  <2>2. stack[t] # <<>> /\ Matches(ReadIdentity(Top(t)), mem[k].identity)
    BY <1>3 DEF OpenVerified
  <2>3. Top(t).unique \in Standings("kept")
    <3>1. Top(t) \in Mounts(t)
      BY <1>2, <2>2, TopIn
    <3> QED
      BY <1>1, <1>2, <2>2, <3>1, PinnedKept
  <2>4. AimTarget' = t /\ Hand' = {}
    BY <1>1, <2>1 DEF AimTarget, Hand, Making
  <2> QED
    BY <1>1, <1>2, <2>1, <2>2, <2>3, <2>4, NoHand, LedgerAims
<1>4. CASE ~OpenVerified(t, mem[k].identity)
  <2>1. pc' # "umount" /\ step' = NoStep
    BY <1>4 DEF VerifyRemoval, Finish
  <2> QED
    BY <1>1, <2>1, HandAfter, LedgerSame
<1> QED
  BY <1>3, <1>4

\* So does the check before a rollback, or the mount in hand is settled.
LEMMA LedgerVerifiesHand ==
    ASSUME UniqueSupported, TypeOK, Bookkeeping, KeysNamed, VerifyRollback
    PROVE  \/ /\ pc' # "umount"
              /\ \E disowned \in SUBSET (Standings("kept") \cup Standings("hand")) :
                    Ledger!SettleHand(disowned)
           \/ \E m \in Standings("kept") \cup Standings("hand") : Ledger!TakeAim(m)
<1> DEFINE t == conf[step.key].target
<1>1. /\ pc = "rollback" /\ UNCHANGED <<stack, nextUnique, disk, mem, conf>>
      /\ step.op = "rollback" /\ Making
  BY DEF VerifyRollback, kernel, world, TypeOK, StepOK, Making
<1>2. t = HandTarget /\ t \in Targets /\ step.key \in Keys
  BY <1>1, HandTargetIn DEF HandTarget
<1>3. CASE /\ OpenVerified(t, step.identity) /\ pc' = "umount"
           /\ step' = [op |-> "undo", key |-> step.key, unique |-> step.unique,
                       pinned |-> Top(t).unique]
  <2>1. stack[t] # <<>> /\ Matches(ReadIdentity(Top(t)), step.identity)
    BY <1>3 DEF OpenVerified
  <2>2. Top(t) \in Mounts(t) /\ Top(t) \in AllMounts
    BY <1>2, <2>1, TopIn
  <2>3. Top(t).by = step.key /\ step.key # Foreign
    BY <1>1, <1>2, <2>1, <2>2, NamedIs, ReconcilerAssumption DEF KeysNamed
  <2>4. Top(t).unique \in Standings("hand")
    BY <1>1, <1>2, <2>2, <2>3, HandHeld
  <2>5. AimTarget' = t /\ Hand' = Hand
    BY <1>1, <1>3 DEF AimTarget, Hand, Making
  <2> QED
    BY <1>1, <1>2, <1>3, <2>1, <2>4, <2>5, LedgerAims
<1>4. CASE Finish([op |-> "mount", key |-> step.key], FALSE)
  <2>1. pc' # "umount" /\ step' = NoStep
    BY <1>4 DEF Finish
  <2> QED
    BY <1>1, <2>1, HandAfter, HandSettles DEF Bookkeeping
<1> QED
  BY <1>3, <1>4, VerifyRollbackIs

\* A removal takes down what the writer aims at, or what lies over it.
LEMMA LedgerRemoval ==
    ASSUME UniqueSupported, TypeOK, RemovalsComeFirst, Bookkeeping, KeysNamed, MemListed,
           PinnedOwn, NEW k \in Keys, Unmount(k)
    PROVE  \/ UNCHANGED Ledger!mounts
           \/ \E m \in Aim \cup Over, disowned \in SUBSET Standings("hand") :
                 Ledger!TakeDown(m, disowned)
<1> DEFINE t == AimTarget
<1>1. /\ UNCHANGED <<nextUnique, disk>> /\ pc = "umount" /\ step.op = "unmount"
      /\ t = mem[k].target /\ Hand = {}
  BY HandEmpty DEF Unmount, AimTarget, TypeOK
<1>2. Hand' = {}
  BY DEF Unmount, Finish, Hand, Making, NoStep
<1>3. CASE ~Attached(t)
  <2>1. UNCHANGED stack
    BY <1>1, <1>3 DEF Unmount
  <2> QED
    BY <1>1, <1>2, <2>1, LedgerSame
<1>4. CASE Attached(t)
  <2>1. Pop(t)
    BY <1>1, <1>4 DEF Unmount
  <2>2. /\ t \in Targets /\ stack[t] # <<>>
        /\ Top(t).unique \notin Standings("stray")
        /\ Top(t).unique \in IF Over = {} THEN Aim ELSE Over
    BY <1>1, <1>4, TopAimed
  <2>3. \A s : Standings(s)' = Standings(s) \ {Top(t).unique}
    BY <1>1, <1>2, <2>1, <2>2, StandingsPop DEF TypeOK, Bookkeeping
  <2>4. Standings("hand") = {} /\ Standings("stray")' = Standings("stray")
    BY <1>1, <2>2, <2>3, NoHand
  <2>5. Ledger!TakeDown(Top(t).unique, {})
    BY <1>1, <2>2, <2>3, <2>4 DEF Ledger!TakeDown
  <2>6. Top(t).unique \in Aim \cup Over /\ {} \in SUBSET Standings("hand")
    BY <2>2
  <2> QED
    BY <2>5, <2>6
<1> QED
  BY <1>3, <1>4

\* So does a rollback, which also settles the mount in hand.
LEMMA LedgerRollback ==
    ASSUME UniqueSupported, TypeOK, RemovalsComeFirst, Bookkeeping, KeysNamed, MemListed,
           PinnedOwn, Rollback
    PROVE  \/ \E disowned \in SUBSET (Standings("kept") \cup Standings("hand")) :
                 Ledger!SettleHand(disowned)
           \/ \E m \in Aim \cup Over, disowned \in SUBSET Standings("hand") :
                 Ledger!TakeDown(m, disowned)
<1> DEFINE t == AimTarget
           gone == {Top(t).unique}
<1>1. /\ UNCHANGED <<nextUnique, disk>> /\ pc = "umount" /\ t = conf[step.key].target
      /\ step' = NoStep
  BY DEF Rollback, AimTarget, Finish
<1>2. Hand' = {}
  BY <1>1, HandAfter
<1>3. CASE ~Attached(t)
  <2>1. UNCHANGED stack
    BY <1>1, <1>3 DEF Rollback
  <2> QED
    BY <1>1, <1>2, <2>1, HandSettles DEF Bookkeeping
<1>4. CASE Attached(t)
  <2>1. Pop(t)
    BY <1>1, <1>4 DEF Rollback
  <2>2. /\ t \in Targets /\ stack[t] # <<>>
        /\ Top(t).unique \notin Standings("stray")
        /\ Top(t).unique \in IF Over = {} THEN Aim ELSE Over
    BY <1>1, <1>4, TopAimed
  <2>3. \A u \in Targets : Mounts(u)' = {m \in Mounts(u) : m.unique \notin gone}
    BY <1>1, <2>1, <2>2, PopMounts DEF TypeOK, Bookkeeping
  <2>4. StacksApart
    BY DEF Bookkeeping
  <2> HIDE DEF gone
  <2>5. PICK disowned \in SUBSET ((Standings("kept") \cup Standings("hand")) \ gone) :
              /\ Standings("foreign")' = Standings("foreign") \ gone
              /\ Standings("stray")' = (Standings("stray") \ gone) \cup disowned
              /\ Standings("hand")' = {}
              /\ Standings("kept")' =
                   (Standings("kept") \cup Standings("hand")) \ (gone \cup disowned)
              /\ disowned \subseteq Standings("hand")
    <3>1. disk' = disk /\ UNCHANGED nextUnique
      BY <1>1
    <3>2. \A u \in Targets : \A m \in Mounts(u) :
             m.by # Foreign /\ m.unique \notin gone /\ Claims(disk', u, m)
               => Claims(disk, u, m) \/ m.unique \in Hand
      BY <3>1
    <3>3. \E disowned \in SUBSET ((Standings("kept") \cup Standings("hand")) \ gone) :
              /\ Standings("foreign")' = Standings("foreign") \ gone
              /\ Standings("stray")' = (Standings("stray") \ gone) \cup disowned
              /\ Hand' = {} =>
                   /\ Standings("hand")' = {}
                   /\ Standings("kept")' =
                        (Standings("kept") \cup Standings("hand")) \ (gone \cup disowned)
              /\ Hand' = Hand =>
                   /\ Standings("hand")' = Standings("hand") \ gone
                   /\ Standings("kept")' = Standings("kept") \ (gone \cup disowned)
                   /\ disowned \subseteq Standings("kept")
              /\ disk' = disk => disowned \subseteq Standings("hand")
      BY <1>2, <2>3, <2>4, <3>1, <3>2, Resettled
    <3> QED
      BY <1>2, <3>1, <3>3
  <2>6. Ledger!TakeDown(Top(t).unique, disowned)
    BY <1>1, <2>2, <2>5 DEF Ledger!TakeDown, gone
  <2>7. Top(t).unique \in Aim \cup Over /\ disowned \in SUBSET Standings("hand")
    BY <2>2, <2>5
  <2> QED
    BY <2>6, <2>7
<1> QED
  BY <1>3, <1>4

\* When the state file is written, or the writer dies, the mount in hand is settled.
LEMMA LedgerSave ==
    ASSUME TypeOK, Bookkeeping, MemListed,
           \/ SaveSucceeds \/ RollbackFails \/ \E late \in BOOLEAN : SaveFails(late)
           \/ Crash \/ \E saved \in BOOLEAN : Shutdown(saved)
    PROVE  \/ \E disowned \in SUBSET (Standings("kept") \cup Standings("hand")) :
                 Ledger!SettleHand(disowned)
           \/ \E disowned \in SUBSET Standings("kept") : Ledger!Retract(disowned)
<1>1. pc # "down" /\ disk' \in {disk, mem} /\ UNCHANGED <<stack, nextUnique>>
  BY DEF SaveSucceeds, RollbackFails, SaveFails, Crash, Shutdown, kernel
<1>2. Hand' = {} \/ Hand' = Hand
  <2>1. ASSUME NEW late \in BOOLEAN, SaveFails(late), Making' PROVE Hand' = Hand
    <3>1. ~\E k \in Keys : AttachMount(k)
      BY <2>1 DEF SaveFails, AttachMount
    <3>2. Making /\ step'.unique = step.unique
      BY <2>1, <3>1, MakingFrom DEF Next, Failure
    <3> QED
      BY <2>1, <3>2 DEF Hand
  <2>2. ASSUME \/ SaveSucceeds \/ RollbackFails \/ Crash
               \/ \E saved \in BOOLEAN : Shutdown(saved)
        PROVE  step' = NoStep
    BY <2>2 DEF SaveSucceeds, RollbackFails, Crash, Shutdown, Dies, Finish
  <2> QED
    BY <2>1, <2>2, HandAfter DEF Hand
<1>3. \A t \in Targets : \A m \in Mounts(t) :
         m.by # Foreign /\ Claims(disk', t, m) => Claims(disk, t, m) \/ m.unique \in Hand
  BY <1>1 DEF MemListed, InHand, Hand
<1> QED
  BY <1>1, <1>2, <1>3, HandSettles DEF Bookkeeping

\* A mount put up is in hand, or nothing will name it.
LEMMA LedgerAttach ==
    ASSUME UniqueSupported, TypeOK, Bookkeeping, KeysNamed, NEW k \in Keys
    PROVE  /\ AttachMount(k) => Ledger!Make
           /\ AttachUnidentified(k) => Ledger!MakeUnknown
<1>0. PICK m, t : m = NewMount(k, step.root) /\ t = conf[k].target
  OBVIOUS
<1>1. ASSUME AttachMount(k) \/ AttachUnidentified(k)
      PROVE  /\ t \in Targets /\ m.unique = nextUnique /\ m.by = k /\ k # Foreign
             /\ \A u \in Targets : Mounts(u)' = IF u = t THEN Mounts(t) \cup {m} ELSE Mounts(u)
             /\ nextUnique' = nextUnique + 1 /\ disk' = disk /\ Hand = {}
  <2>1. /\ pc = "attach" /\ step.key = k /\ FreeIds # {} /\ Push(t, m)
        /\ nextUnique' = nextUnique + 1 /\ disk' = disk
    BY <1>0, <1>1 DEF AttachMount, AttachUnidentified
  <2>2. t \in Targets /\ k # Foreign /\ Hand = {}
    BY <1>0, <2>1, ConfType, HandEmpty, ReconcilerAssumption DEF TypeOK, DesiredMount
  <2> QED
    BY <1>0, <2>1, <2>2, AttachStacks DEF Bookkeeping
<1>2. Hand = {} => Standings("hand") = {}
  BY StandingsAre DEF StandingIn
<1>3. ASSUME AttachMount(k) \/ AttachUnidentified(k), Hand' \in {{}, {nextUnique}}
      PROVE  \A s : Standings(s)' =
                Standings(s) \cup (IF StandingIn(disk', Hand', t, m) = s THEN {nextUnique} ELSE {})
  <2>1. /\ t \in Targets /\ m.unique = nextUnique
        /\ \A u \in Targets : Mounts(u)' = IF u = t THEN Mounts(t) \cup {m} ELSE Mounts(u)
        /\ disk' = disk /\ (Hand' = Hand \/ (Hand = {} /\ Hand' = {nextUnique}))
    BY <1>1, <1>3
  <2>2. KernelOK /\ StacksApart
    BY DEF TypeOK, Bookkeeping
  <2> QED
    BY <2>1, <2>2, StandingsPush
<1>4. ASSUME AttachMount(k) PROVE Ledger!Make
  <2>1. Hand' = {nextUnique}
    BY <1>0, <1>1, <1>4 DEF AttachMount, Hand, Making
  <2>2. StandingIn(disk', Hand', t, m) = "hand"
    BY <1>1, <1>4, <2>1 DEF StandingIn
  <2>3. \A s : Standings(s)' = Standings(s) \cup (IF s = "hand" THEN {nextUnique} ELSE {})
    BY <1>3, <1>4, <2>1, <2>2
  <2> QED
    BY <1>1, <1>2, <1>4, <2>3 DEF Ledger!Make
<1>5. ASSUME AttachUnidentified(k) PROVE Ledger!MakeUnknown
  <2>1. Hand' = {}
    BY <1>5, HandAfter DEF AttachUnidentified, Finish
  <2>2. ~Claims(disk, t, m)
    <3>1. nextUnique \in Nat \ {0}
      BY DEF TypeOK, KernelOK
    <3>2. SUFFICES ASSUME NEW j \in Keys, disk[j] # NoRecord,
                          Matches(ReadIdentity(m), disk[j].identity)
                   PROVE  FALSE
      BY DEF Claims
    <3>3. disk[j].identity.unique \in 1..(nextUnique - 1)
      BY <3>2 DEF KeysNamed, Names
    <3> QED
      BY <1>1, <1>5, <3>1, <3>2, <3>3 DEF Matches, ReadIdentity, NoUnique
  <2>3. StandingIn(disk', Hand', t, m) = "stray"
    BY <1>1, <1>5, <2>1, <2>2 DEF StandingIn
  <2>4. \A s : Standings(s)' = Standings(s) \cup (IF s = "stray" THEN {nextUnique} ELSE {})
    BY <1>3, <1>5, <2>1, <2>3
  <2> QED
    BY <1>1, <1>5, <2>4 DEF Ledger!MakeUnknown
<1> QED
  BY <1>4, <1>5

\* What is aimed at stays while nothing is put up or taken down.
LEMMA AimStays ==
    ASSUME UNCHANGED <<pc, step>>, pc = "umount" => UNCHANGED <<mem, conf>>,
           pc = "umount" =>
              /\ DOMAIN stack'[AimTarget] = DOMAIN stack[AimTarget]
              /\ \A i \in DOMAIN stack[AimTarget] :
                    stack'[AimTarget][i].unique = stack[AimTarget][i].unique
    PROVE  Aim' = Aim /\ Over' = Over
<1>1. CASE pc = "umount"
  <2>1. AimTarget' = AimTarget
    BY <1>1 DEF AimTarget
  <2>2. /\ AimIn(stack'[AimTarget], step.pinned) = AimIn(stack[AimTarget], step.pinned)
        /\ OverIn(stack'[AimTarget], step.pinned) = OverIn(stack[AimTarget], step.pinned)
    BY <1>1, AimSame
  <2> QED
    BY <1>1, <2>1, <2>2, AimsAre
<1>2. CASE pc # "umount"
  BY <1>2, AimsAre
<1> QED
  BY <1>1, <1>2

\* What others put up lies over the mount that is aimed at, or elsewhere.
LEMMA AimPush ==
    ASSUME TypeOK, RemovalsComeFirst, Bookkeeping, UNCHANGED <<pc, step>>,
           pc = "umount" => UNCHANGED <<mem, conf>>,
           NEW t \in Targets, NEW m \in Mount, m.unique = nextUnique, Push(t, m)
    PROVE  Aim' = Aim /\ Over' \in {Over} \cup {Over \cup {nextUnique} : p \in Aim}
<1>1. CASE pc # "umount"
  BY <1>1, AimsAre
<1>2. CASE pc = "umount"
  <2>1. AimTarget' = AimTarget /\ AimTarget \in Targets
    BY <1>2, AimIs DEF AimTarget
  <2>2. m.unique # step.pinned
    <3>1. step.pinned < nextUnique /\ nextUnique \in Nat /\ step.pinned \in Nat
      BY <1>2, PinnedType DEF Bookkeeping, PinnedKnown, TypeOK, KernelOK
    <3> QED
      BY <3>1
  <2>3. /\ stack[AimTarget] \in Seq(Mount)
        /\ stack'[AimTarget] = IF AimTarget = t THEN <<m>> \o stack[t] ELSE stack[AimTarget]
    BY <2>1 DEF TypeOK, KernelOK, Push
  <2>4. CASE AimTarget # t
    BY <1>2, <2>1, <2>3, <2>4, AimsAre
  <2>5. CASE AimTarget = t
    <3>1. /\ AimIn(stack'[t], step.pinned) = AimIn(stack[t], step.pinned)
          /\ OverIn(stack'[t], step.pinned) =
               OverIn(stack[t], step.pinned) \cup
                  (IF AimIn(stack[t], step.pinned) = {} THEN {} ELSE {m.unique})
      <4>1. \A s \in Seq(Mount) :
               /\ AimIn(<<m>> \o s, step.pinned) = AimIn(s, step.pinned)
               /\ OverIn(<<m>> \o s, step.pinned) =
                     OverIn(s, step.pinned) \cup
                        (IF AimIn(s, step.pinned) = {} THEN {} ELSE {m.unique})
        BY <2>2, AimPushed
      <4>2. stack'[t] = <<m>> \o stack[t] /\ stack[t] \in Seq(Mount)
        BY <2>3, <2>5
      <4> QED
        BY <4>1, <4>2, Zenon
    <3>2. /\ Aim' = Aim
          /\ Over' = Over \cup (IF Aim = {} THEN {} ELSE {nextUnique})
      BY <1>2, <2>1, <2>5, <3>1, AimsAre
    <3> QED
      BY <3>2
  <2> QED
    BY <2>4, <2>5
<1> QED
  BY <1>1, <1>2

\* What others take down is not aimed at any more; it goes before what it lies over.
LEMMA AimPop ==
    ASSUME TypeOK, RemovalsComeFirst, Bookkeeping, UNCHANGED <<pc, step>>,
           pc = "umount" => UNCHANGED <<mem, conf>>,
           NEW t \in Targets, stack[t] # <<>>, Pop(t)
    PROVE  /\ Aim' = Aim \ {Top(t).unique} /\ Over' = Over \ {Top(t).unique}
           /\ Top(t).unique \in Aim => Over = {}
<1>1. CASE pc # "umount"
  BY <1>1, AimsAre
<1>2. CASE pc = "umount"
  <2>1. AimTarget' = AimTarget /\ AimTarget \in Targets
    BY <1>2, AimIs DEF AimTarget
  <2>2. /\ stack[AimTarget] \in Seq(Mount) /\ StackApart(stack[AimTarget])
        /\ stack'[AimTarget] = IF AimTarget = t THEN Tail(stack[t]) ELSE stack[AimTarget]
    BY <2>1 DEF TypeOK, KernelOK, Pop, Bookkeeping, StacksApart
  <2>3. CASE AimTarget # t
    <3>1. Top(t) \in Mounts(t)
      BY TopIn
    <3>2. \A i \in DOMAIN stack[AimTarget] : stack[AimTarget][i].unique # Top(t).unique
      BY <2>1, <2>3, <3>1 DEF Bookkeeping, StacksApart, Distinct, Mounts
    <3>3. /\ Top(t).unique \notin AimIn(stack[AimTarget], step.pinned)
          /\ Top(t).unique \notin OverIn(stack[AimTarget], step.pinned)
      BY <3>2 DEF AimIn, OverIn
    <3> QED
      BY <1>2, <2>1, <2>2, <2>3, <3>3, AimsAre
  <2>4. CASE AimTarget = t
    <3>1. /\ AimIn(stack'[t], step.pinned) = AimIn(stack[t], step.pinned) \ {Top(t).unique}
          /\ OverIn(stack'[t], step.pinned) = OverIn(stack[t], step.pinned) \ {Top(t).unique}
          /\ Top(t).unique \in AimIn(stack[t], step.pinned) =>
               OverIn(stack[t], step.pinned) = {}
      BY <2>2, <2>4, AimPopped DEF Top
    <3> QED
      BY <1>2, <2>1, <2>4, <3>1, AimsAre
  <2> QED
    BY <2>3, <2>4
<1> QED
  BY <1>1, <1>2

\* A mount without its restrictions is where it was, with its twin's standing.
LEMMA LoosenLeavesTwins ==
    ASSUME KernelOK, StacksApart, NEW t \in Targets, LoosenMount(t)
    PROVE  \A u \in Targets : \A n \in Mounts(u) : \E m \in Mounts(u)' : Twins(m, n)
<1> DEFINE m == [Top(t) EXCEPT !.attrs = {}]
<1>1. /\ stack \in [Targets -> Seq(Mount)] /\ stack[t] # <<>>
      /\ stack' = [stack EXCEPT ![t] = <<m>> \o Tail(stack[t])]
  BY DEF KernelOK, LoosenMount
<1>2. /\ RangeOf(stack[t]) = RangeOf(Tail(stack[t])) \cup {Top(t)}
      /\ Tail(stack[t]) \in Seq(Mount) /\ Top(t) \in Mount
  BY <1>1, Popped, PoppedApart DEF StacksApart, Top
<1>3. m \in Mount /\ Twins(m, Top(t))
  BY <1>2 DEF Mount, Twins
<1>4. \A u \in Targets : stack'[u] = IF u = t THEN <<m>> \o Tail(stack[t]) ELSE stack[u]
  BY <1>1
<1> HIDE DEF m
<1>5. RangeOf(<<m>> \o Tail(stack[t])) = RangeOf(Tail(stack[t])) \cup {m}
  <2>1. \A r \in Seq(Mount) : RangeOf(<<m>> \o r) = RangeOf(r) \cup {m}
    BY <1>3, Pushed
  <2> QED
    BY <1>2, <2>1, Zenon
<1> SUFFICES ASSUME NEW u \in Targets, NEW n \in Mounts(u)
             PROVE  \E o \in Mounts(u)' : Twins(o, n)
  OBVIOUS
<1>6. CASE n \in Mounts(u)'
  BY <1>6 DEF Twins
<1>7. CASE n \notin Mounts(u)'
  <2>1. n \in RangeOf(stack[u]) /\ n \notin RangeOf(stack'[u])
    BY <1>7, MountsIsRange
  <2>2. u = t /\ n = Top(t)
    BY <1>2, <1>4, <1>5, <2>1
  <2>3. m \in Mounts(u)'
    BY <1>4, <1>5, <2>2, MountsIsRange
  <2> QED
    BY <1>3, <2>2, <2>3
<1> QED
  BY <1>6, <1>7

\* And every mount of the stack keeps its unique ID.
LEMMA LoosenLeavesPlaces ==
    ASSUME stack \in [Targets -> Seq(Mount)], NEW t \in Targets, stack[t] # <<>>,
           stack' = [stack EXCEPT ![t] = <<[Top(t) EXCEPT !.attrs = {}]>> \o Tail(@)],
           NEW u \in Targets
    PROVE  /\ DOMAIN stack'[u] = DOMAIN stack[u]
           /\ \A i \in DOMAIN stack[u] : stack'[u][i].unique = stack[u][i].unique
<1> DEFINE m == [Top(t) EXCEPT !.attrs = {}]
           r == Tail(stack[t])
<1>1. /\ stack[t] \in Seq(Mount) /\ r \in Seq(Mount) /\ Top(t) \in Mount /\ Top(t) = Head(stack[t])
      /\ Len(r) = Len(stack[t]) - 1
  BY HeadTailProperties DEF Top
<1>2. m \in Mount /\ m.unique = Top(t).unique
  BY <1>1 DEF Mount
<1>3. stack'[u] = IF u = t THEN <<m>> \o r ELSE stack[u]
  OBVIOUS
<1>4. /\ Len(stack[t]) \in Nat \ {0} /\ DOMAIN stack[t] = 1..Len(stack[t])
      /\ Top(t) = stack[t][1] /\ DOMAIN r = 1..(Len(stack[t]) - 1)
      /\ \A i \in 1..(Len(stack[t]) - 1) : r[i] = stack[t][i + 1]
  BY <1>1, PoppedAt
<1> HIDE DEF m, r
<1>5. /\ Len(r) \in Nat /\ DOMAIN r = 1..Len(r)
      /\ DOMAIN (<<m>> \o r) = 1..(Len(r) + 1) /\ (<<m>> \o r)[1] = m
      /\ \A i \in 1..Len(r) : (<<m>> \o r)[i + 1] = r[i]
  BY <1>1, <1>2, PushedAt
<1>6. Len(r) = Len(stack[t]) - 1 /\ Len(r) + 1 = Len(stack[t])
  BY <1>1, <1>4
<1>7. DOMAIN (<<m>> \o r) = DOMAIN stack[t]
  <2>1. DOMAIN (<<m>> \o r) = 1..(Len(r) + 1)
    BY <1>5
  <2> QED
    BY <1>4, <1>6, <2>1
<1>8. ASSUME NEW i \in DOMAIN stack[t] PROVE (<<m>> \o r)[i].unique = stack[t][i].unique
  <2>1. CASE i = 1
    BY <1>2, <1>4, <1>5, <2>1
  <2>2. CASE i # 1
    <3>1. i - 1 \in 1..Len(r) /\ (i - 1) + 1 = i
      BY <1>4, <1>6, <2>2
    <3>2. (<<m>> \o r)[i] = r[i - 1] /\ r[i - 1] = stack[t][i]
      BY <1>4, <1>5, <1>6, <3>1
    <3> QED
      BY <3>2
  <2> QED
    BY <2>1, <2>2
<1> QED
  BY <1>3, <1>7, <1>8

\* What others do.
LEMMA LedgerOthers ==
    ASSUME TypeOK, RemovalsComeFirst, Bookkeeping, "reboot" \notin Allowed, Environment
    PROVE  [Ledger!Next]_(Ledger!vars)
<1>0. UNCHANGED <<mem, pc, todo, step>>
  BY DEF Environment, Reconfigure, ToggleMember, ToggleReadable, ChangeSource, ToggleBlocked,
     ForeignUnmount, LoosenMount, ForeignMount, Reboot, LoseStateFile, Others, pass
<1>1. /\ UNCHANGED <<pc, step>> /\ Hand' = Hand
      /\ pc = "umount" => UNCHANGED <<mem, conf>>
  BY <1>0, ConfStays DEF Next, Hand, Making
<1>2. UNCHANGED <<pc, todo>>
  BY <1>0
<1>3. ASSUME NEW t \in Targets, ForeignUnmount(t) PROVE Ledger!Others
  <2>1. /\ stack[t] # <<>> /\ Pop(t) /\ UNCHANGED <<nextUnique, disk>>
    BY <1>3 DEF ForeignUnmount, Others
  <2>2. Top(t) \in Mounts(t)
    BY <2>1, TopIn
  <2>3. \A s : Standings(s)' = Standings(s) \ {Top(t).unique}
    BY <1>1, <2>1, StandingsPop DEF TypeOK, Bookkeeping
  <2>4. Ledger!OthersUnmount(Top(t).unique)
    BY <1>1, <2>1, <2>3, AimPop DEF Ledger!OthersUnmount
  <2>5. StandingIn(disk, Hand, t, Top(t)) \in {"foreign", "hand", "kept", "stray"}
    BY DEF StandingIn
  <2>6. Top(t).unique \in Standings("foreign") \cup Standings("hand")
                            \cup Standings("kept") \cup Standings("stray")
    BY <2>2, <2>5, StandingsAre
  <2> QED
    BY <1>2, <2>4, <2>6 DEF Ledger!Others
<1>4. ASSUME NEW t \in Targets, NEW d \in DevInos, ForeignMount(t, d) PROVE Ledger!Others
  <2>1. PICK m : m = [mnt_id |-> NewMountId, unique |-> nextUnique, root |-> d,
                      attrs |-> {}, by |-> Foreign]
    OBVIOUS
  <2>2. NewMountId \in FreeIds
    BY <1>4 DEF ForeignMount, NewMountId
  <2>3. /\ m \in Mount /\ m.unique = nextUnique /\ m.by = Foreign
        /\ \A n \in AllMounts : m.mnt_id # n.mnt_id
    BY <2>1, <2>2 DEF TypeOK, Mount, KernelOK, FreeIds
  <2>4. Push(t, m) /\ nextUnique' = nextUnique + 1 /\ UNCHANGED disk
    BY <1>4, <2>1 DEF ForeignMount, Others
  <2>5. KernelOK /\ StacksApart
    BY DEF TypeOK, Bookkeeping
  <2>6. \A u \in Targets : Mounts(u)' = IF u = t THEN Mounts(t) \cup {m} ELSE Mounts(u)
    BY <2>3, <2>4, <2>5, PushStacks
  <2>7. \A s : Standings(s)' = Standings(s) \cup (IF StandingIn(disk', Hand', t, m) = s
                                                    THEN {nextUnique} ELSE {})
    BY <1>1, <2>3, <2>4, <2>5, <2>6, StandingsPush
  <2>8. \A s : Standings(s)' = Standings(s) \cup (IF s = "foreign" THEN {nextUnique} ELSE {})
    BY <2>3, <2>7 DEF StandingIn
  <2>9. Ledger!OthersMount
    BY <1>1, <2>3, <2>4, <2>8, AimPush DEF Ledger!OthersMount
  <2> QED
    BY <1>2, <2>9 DEF Ledger!Others
<1>5. ASSUME NEW t \in Targets, LoosenMount(t) PROVE UNCHANGED Ledger!vars
  <2>1. /\ UNCHANGED <<nextUnique, disk>> /\ stack[t] # <<>>
        /\ stack' = [stack EXCEPT ![t] = <<[Top(t) EXCEPT !.attrs = {}]>> \o Tail(@)]
    BY <1>5 DEF LoosenMount, Others
  <2>2. Survivors /\ StacksApart
    BY <2>1, LoosenStacks DEF TypeOK, Bookkeeping
  <2>3. \A u \in Targets : \A n \in Mounts(u) : \E m \in Mounts(u)' : Twins(m, n)
    BY <1>5, LoosenLeavesTwins DEF TypeOK, Bookkeeping
  <2>4. \A u \in Targets : \A m \in Mounts(u)' : \E n \in Mounts(u) : Twins(m, n)
    <3>1. SUFFICES ASSUME NEW u \in Targets, NEW m \in Mounts(u)',
                          m.by = Foreign, m.unique = nextUnique
                   PROVE  \E n \in Mounts(u) : Twins(m, n)
      BY <2>2 DEF Survivors
    <3>2. m \in AllMounts'
      BY DEF AllMounts
    <3>3. m.unique < nextUnique
      BY <2>1, <3>2, LoosenStacks DEF TypeOK, Bookkeeping, StacksApart
    <3> QED
      BY <3>1, <3>3 DEF TypeOK, KernelOK
  <2>5. \A s : Standings(s)' = Standings(s)
    BY <1>1, <2>1, <2>3, <2>4, StandingsStay
  <2>6. Aim' = Aim /\ Over' = Over
    <3>1. CASE pc = "umount"
      <4>1. AimTarget \in Targets /\ stack \in [Targets -> Seq(Mount)]
        BY <3>1, AimIs DEF TypeOK, KernelOK
      <4>2. /\ DOMAIN stack'[AimTarget] = DOMAIN stack[AimTarget]
            /\ \A i \in DOMAIN stack[AimTarget] :
                  stack'[AimTarget][i].unique = stack[AimTarget][i].unique
        BY <2>1, <4>1, LoosenLeavesPlaces
      <4> QED
        BY <1>1, <4>2, AimStays
    <3>2. CASE pc # "umount"
      BY <1>1, <3>2, AimsAre
    <3> QED
      BY <3>1, <3>2
  <2> QED
    BY <1>2, <2>1, <2>5, <2>6 DEF Ledger!vars, Ledger!mounts
<1>6. CASE LoseStateFile
  <2>1. /\ UNCHANGED <<stack, nextUnique>> /\ pc = "down" /\ disk' = NoRecords
        /\ Hand = {}
    BY <1>6, HandEmpty DEF LoseStateFile, kernel, TypeOK
  <2>2. \A t \in Targets : Mounts(t)' = Mounts(t)
    BY <2>1 DEF Mounts
  <2>3. \A t, m : ~Claims(disk', t, m)
    BY <2>1 DEF Claims, NoRecords
  <2>4. \A t, m :
          /\ StandingIn(disk', Hand', t, m) \in {"foreign", "stray"}
          /\ StandingIn(disk, Hand, t, m) \in {"foreign", "kept", "stray"}
          /\ StandingIn(disk', Hand', t, m) = "foreign" <=> StandingIn(disk, Hand, t, m) = "foreign"
    BY <1>1, <2>1, <2>3 DEF StandingIn
  <2>5. \A x : /\ x \in Standings("foreign")' <=> x \in Standings("foreign")
               /\ x \notin Standings("hand")' /\ x \notin Standings("hand")
               /\ x \notin Standings("kept")'
               /\ x \in Standings("stray")' <=> x \in Standings("stray") \cup Standings("kept")
    BY <2>2, <2>4, StandingsAre
  <2>6. Ledger!Forget
    BY <1>1, <2>1, <2>5, AimsAre DEF Ledger!Forget
  <2> QED
    BY <1>2, <2>6 DEF Ledger!Next, Ledger!Others
<1>7. CASE \/ \E c \in Configs : Reconfigure(c)
           \/ \E k \in Keys : ToggleMember(k)
           \/ \E g \in Groups : ToggleReadable(g)
           \/ \E s \in Sources, d \in DevInos \cup {Gone} : ChangeSource(s, d)
           \/ \E t \in Targets : ToggleBlocked(t)
  <2>1. UNCHANGED <<stack, nextUnique, disk>>
    BY <1>7 DEF Reconfigure, ToggleMember, ToggleReadable, ChangeSource, ToggleBlocked,
       kernel, Others
  <2>2. Aim' = Aim /\ Over' = Over
    BY <1>1, <2>1, AimStays
  <2> QED
    BY <1>1, <1>2, <2>1, <2>2, LedgerSame DEF Ledger!vars
<1>8. ~Reboot
  BY DEF Reboot, Disturbance
<1> QED
  BY <1>2, <1>3, <1>4, <1>5, <1>6, <1>7, <1>8 DEF Environment, Ledger!Next, Ledger!vars

\* What the writer does.
LEMMA LedgerKeeper ==
    ASSUME UniqueSupported, TypeOK, RemovalsComeFirst, Bookkeeping, KeysNamed, MemListed,
           PinnedOwn, Daemon \/ Failure
    PROVE  Ledger!Keeper
<1>1. <<pc, todo>>' # <<pc, todo>>
  BY TurnMoves
<1>2. pc' # "umount" => Aim' = {} /\ Over' = {}
  BY AimsAre
<1>3. ASSUME NEW k \in Keys, AttachMount(k) \/ AttachUnidentified(k) PROVE Ledger!Keeper
  <2>1. Ledger!Make \/ Ledger!MakeUnknown
    BY <1>3, LedgerAttach
  <2>2. pc' # "umount"
    BY <1>3 DEF AttachMount, AttachUnidentified, Finish
  <2> QED
    BY <1>1, <1>2, <2>1, <2>2 DEF Ledger!Keeper
<1>4. ASSUME NEW k \in Keys, VerifyRemoval(k) PROVE Ledger!Keeper
  BY <1>1, <1>2, <1>4, LedgerVerifies DEF Ledger!Keeper, Ledger!Consider
<1>5. CASE VerifyRollback
  BY <1>1, <1>2, <1>5, LedgerVerifiesHand DEF Ledger!Keeper
<1>6. ASSUME NEW k \in Keys, Unmount(k) PROVE Ledger!Keeper
  <2>1. pc' # "umount"
    BY <1>6 DEF Unmount, Finish
  <2> QED
    BY <1>1, <1>2, <1>6, <2>1, LedgerRemoval DEF Ledger!Keeper, Ledger!Consider
<1>7. CASE Rollback
  <2>1. pc' # "umount"
    BY <1>7 DEF Rollback, Finish
  <2> QED
    BY <1>1, <1>2, <1>7, <2>1, LedgerRollback DEF Ledger!Keeper
<1>8. CASE \/ SaveSucceeds \/ RollbackFails \/ \E late \in BOOLEAN : SaveFails(late)
           \/ Crash \/ \E saved \in BOOLEAN : Shutdown(saved)
  <2>1. pc' # "umount"
    BY <1>8 DEF SaveSucceeds, RollbackFails, SaveFails, Crash, Shutdown, Dies, Finish
  <2>2. \/ \E disowned \in SUBSET (Standings("kept") \cup Standings("hand")) :
              Ledger!SettleHand(disowned)
        \/ \E disowned \in SUBSET Standings("kept") : Ledger!Retract(disowned)
    BY <1>8, LedgerSave
  <2> QED
    BY <1>1, <1>2, <2>1, <2>2 DEF Ledger!Keeper
<1>9. ASSUME UNCHANGED <<stack, nextUnique, disk>>, Hand = {}, Hand' = {}, pc' # "umount"
      PROVE  Ledger!Keeper
  BY <1>1, <1>2, <1>9, LedgerSame DEF Ledger!Keeper, Ledger!Consider
<1>10. CASE Restart \/ ScanMembership \/ ResolveSources \/ InspectAndPlan
  <2>1. /\ UNCHANGED <<stack, nextUnique, disk>> /\ step' = step /\ Hand = {}
        /\ pc' # "umount"
    BY <1>10, HandEmpty DEF Restart, ScanMembership, ResolveSources, InspectAndPlan, kernel,
       pass, TypeOK
  <2>2. Hand' = {}
    BY <2>1 DEF Hand, Making
  <2> QED
    BY <1>9, <2>1, <2>2
<1>11. ASSUME NEW k \in Keys, \/ SkipMount(k) \/ ResolveMount(k) \/ Drop(k)
                              \/ AttachFails(k) \/ UnmountFails(k)
       PROVE  Ledger!Keeper
  <2>1. UNCHANGED <<stack, nextUnique, disk>> /\ Hand = {} /\ pc' # "umount"
    BY <1>11, HandEmpty DEF SkipMount, ResolveMount, Drop, AttachFails, UnmountFails, Due,
       Finish, kernel, TypeOK
  <2>2. step' = NoStep \/ step'.op \in {"attach", "remove"}
    BY <1>11 DEF SkipMount, ResolveMount, Drop, AttachFails, UnmountFails, Finish
  <2>3. Hand' = {}
    BY <2>2 DEF Hand, Making, NoStep
  <2> QED
    BY <1>9, <2>1, <2>3
<1> QED
  BY <1>3, <1>4, <1>5, <1>6, <1>7, <1>8, <1>10, <1>11 DEF Daemon, Failure

\* Byssus implements the ledger: whoever mounts and unmounts, and wherever a step fails or
\* the writer dies, it takes aim only at mounts it made and the state file names, or at the
\* one it has just made, and takes down that mount or what others have stacked on it since;
\* what it has disowned it never names or aims at again (execute.rs, try_mount with its
\* rollback, try_unmount, drop_record; state.rs, save), if the kernel reports unique mount
\* IDs and does not restart them.
THEOREM LedgerImplemented ==
    ASSUME UniqueSupported, "reboot" \notin Allowed
    PROVE  Spec => LedgerSpec
<1> DEFINE Inv == Bookkeeping /\ KeysNamed /\ MemListed /\ PreviousOld /\ HandNew /\ PinnedOwn
<1>1. Init => Inv
  BY BooksInit, CalmInit DEF Init, MemListed, PreviousOld, HandNew, PinnedOwn, Making, NoStep
<1>2. TypeOK /\ TypeOK' /\ RemovalsComeFirst /\ RecordsNameOwnMounts /\ Inv /\ [Next]_vars
        => Inv'
  BY BooksStep, KeysNamedStep, MemListedStep, PreviousOldStep, HandNewStep, PinnedStep
<1>3. Init => Ledger!Init
  <2>1. Init => \A s : Standings(s) = {}
    BY DEF Init, Standings, Mounts
  <2>2. Init => Aim = {} /\ Over = {}
    BY DEF Init, Aim, Over
  <2> QED
    BY <2>1, <2>2 DEF Init, Ledger!Init
<1>4. TypeOK /\ RemovalsComeFirst /\ Inv /\ [Next]_vars => [Ledger!Next]_(Ledger!vars)
  <2> SUFFICES ASSUME TypeOK, RemovalsComeFirst, Inv, [Next]_vars
               PROVE  [Ledger!Next]_(Ledger!vars)
    OBVIOUS
  <2>1. CASE Daemon \/ Failure
    BY <2>1, LedgerKeeper DEF Ledger!Next
  <2>2. CASE Environment
    BY <2>2, LedgerOthers
  <2>3. CASE UNCHANGED vars
    <3>1. UNCHANGED <<stack, nextUnique, disk, mem, conf, pc, todo, step>>
      BY <2>3 DEF vars, kernel, pass, world
    <3>2. Hand' = Hand
      BY <3>1 DEF Hand, Making
    <3>3. Aim' = Aim /\ Over' = Over
      BY <3>1, AimStays
    <3> QED
      BY <3>1, <3>2, <3>3, LedgerSame DEF Ledger!vars
  <2> QED
    BY <2>1, <2>2, <2>3 DEF Next
<1> QED
  BY <1>1, <1>2, <1>3, <1>4, TypeCorrect, RemovalsFirst, RecordsOwn, PTL
     DEF Spec, LedgerSpec, Ledger!Spec

=============================================================================
