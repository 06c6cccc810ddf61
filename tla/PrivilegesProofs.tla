-------------------------- MODULE PrivilegesProofs --------------------------
(***************************************************************************)
(* Proofs about Privileges, for every set of capabilities, users and       *)
(* starting credentials.  What the process ends up with is what the        *)
(* verification compared with the plan, and the plan is one that was not   *)
(* refused; so the invariant only ties these three to the start.           *)
(* That a plan succeeds is about the kernel: the second half follows a     *)
(* process through its plan, one stage for each operation.                 *)
(***************************************************************************)
EXTENDS Privileges, SequenceTheorems, TLAPS

LEMMA LaunchesAreCredentials == Launches \subseteq Credentials
<1>1. 0 \in Gids
  BY PrivilegesAssumption
<1>2. (CHOOSE g \in Gids : TRUE) \in Gids
  BY <1>1
<1>3. {"sys_admin"} \subseteq Caps
  BY PrivilegesAssumption
<1> SUFFICES ASSUME NEW c \in Launches PROVE c \in Credentials
  OBVIOUS
<1>4. \E r, e \in Uids, p \in SUBSET Caps, a \in {{}, {"sys_admin"}} :
        c \in LaunchesWith(r, e, p, a)
  BY DEF Launches
<1>5. PICK r, e \in Uids, p \in SUBSET Caps, a \in {{}, {"sys_admin"}} :
        c \in LaunchesWith(r, e, p, a)
  BY <1>4
<1>6. c.uids \in Uid3 /\ c.gids \in Gid3 /\ c.groups \subseteq Gids
  BY <1>2, <1>5 DEF LaunchesWith, Uid3, Gid3, AllEqual
<1>7. /\ c.permitted \subseteq Caps /\ c.effective \subseteq Caps /\ c.inheritable \subseteq Caps
      /\ c.ambient \subseteq Caps /\ c.bounding \subseteq Caps
      /\ c.secure \subseteq SecureBits /\ c.noNewPrivs \in BOOLEAN
  BY <1>3, <1>5, SecureStartsAssumption DEF LaunchesWith
<1> QED
  BY <1>5, <1>6, <1>7 DEF Credentials, LaunchesWith

RequestType ==
    [keep : SUBSET Caps, user : ServiceUsers \cup {NoUser, UnknownUser}, allowRoot : BOOLEAN]

LEMMA ShortSequences ==
    \A x, y \in Operations : <<x>> \in Seq(Operations) /\ <<x, y>> \in Seq(Operations)
  OBVIOUS

\* Every operation a plan consists of is one that apply knows.
LEMMA PlansAreOperations ==
    ASSUME NEW c \in Credentials, NEW r \in RequestType, ~Refused(c, r)
    PROVE  Plan(c, r) \in Seq(Operations)
<1>1. c.permitted \subseteq Caps /\ c.effective \subseteq Caps /\ r.keep \subseteq Caps
  BY DEF Credentials, RequestType
<1>2. \A p, e \in SUBSET Caps : SetCaps(p, e) \in Operations
  BY DEF SetCaps, Op, Operations
<1>3. \A b \in BOOLEAN : /\ Op("ClearAmbient", b) \in Operations
                        /\ Op("SetKeepCaps", b) \in Operations
                        /\ Op("SetNoNewPrivs", b) \in Operations
  BY DEF Op, Operations
<1>4. Raise(c, r) \in Seq(Operations)
  <2>1. Needed(c, r) \subseteq Caps
    BY PrivilegesAssumption DEF Needed
  <2>2. SetCaps(c.permitted, c.effective \cup Needed(c, r)) \in Operations
    BY <1>1, <1>2, <2>1
  <2> QED
    BY <2>2 DEF Raise
<1>5. LockDown(c, r) \in Seq(Operations)
  <2>1. Op("DropBoundingExcept", r.keep) \in Operations
    BY <1>1 DEF Op, Operations
  <2>2. Op("SetSecureBits", LockedSecureBits) \in Operations
    BY DEF Op, Operations, LockedSecureBits
  <2> QED
    BY <2>1, <2>2 DEF LockDown
<1>6. Switch(c, r) \in Seq(Operations)
  <2> DEFINE user == SwitchTo(c, r)
  <2>1. CASE user = NoUser
    BY <2>1 DEF Switch
  <2>2. CASE user # NoUser
    <3>1. user \in ServiceUsers
      BY <2>2 DEF SwitchTo, RequestType
    <3>2. user.uid \in Uids /\ user.gid \in Gids /\ user.groups \subseteq Gids
      BY <3>1, PrivilegesAssumption
    <3>3. /\ Op("SetGroups", FinalGroups(user)) \in Operations
          /\ Op("SetResGid", user.gid) \in Operations /\ Op("SetResUid", user.uid) \in Operations
      BY <3>2 DEF Op, Operations, FinalGroups
    <3>4. SetIds(user) \in Seq(Operations)
      BY <3>3 DEF SetIds
    <3>5. KeepingCaps(SetIds(user)) \in Seq(Operations)
      <4>1. Op("SetKeepCaps", TRUE) \in Operations /\ Op("SetKeepCaps", FALSE) \in Operations
        BY <1>3
      <4> DEFINE first == <<Op("SetKeepCaps", TRUE)>>
                 last == <<Op("SetKeepCaps", FALSE)>>
      <4>2. first \in Seq(Operations) /\ last \in Seq(Operations)
        BY Zenon, <4>1, ShortSequences
      <4>3. (first \o SetIds(user)) \o last \in Seq(Operations)
        <5> HIDE DEF first, last
        <5> QED
          BY <3>4, <4>2
      <4> QED
        BY <4>3 DEF KeepingCaps
    <3> QED
      BY <2>2, <3>4, <3>5 DEF Switch
  <2> QED
    BY <2>1, <2>2
<1>7. <<SetCaps(r.keep, r.keep), Op("SetNoNewPrivs", TRUE)>> \in Seq(Operations)
  <2>1. SetCaps(r.keep, r.keep) \in Operations /\ Op("SetNoNewPrivs", TRUE) \in Operations
    BY <1>1, <1>2, <1>3
  <2> QED
    BY Zenon, <2>1, ShortSequences
<1>8. <<Op("ClearAmbient", TRUE)>> \in Seq(Operations)
  <2>1. Op("ClearAmbient", TRUE) \in Operations
    BY <1>3
  <2> QED
    BY Zenon, <2>1, ShortSequences
<1> QED
  <2> DEFINE first == <<Op("ClearAmbient", TRUE)>>
             last == <<SetCaps(r.keep, r.keep), Op("SetNoNewPrivs", TRUE)>>
  <2>1. (((first \o Raise(c, r)) \o LockDown(c, r)) \o Switch(c, r)) \o last \in Seq(Operations)
    <3> HIDE DEF first, last
    <3>1. first \in Seq(Operations) /\ last \in Seq(Operations)
      BY <1>7, <1>8 DEF first, last
    <3> QED
      BY <1>4, <1>5, <1>6, <3>1
  <2> QED
    BY <2>1 DEF Plan

\* What the kernel makes of an operation is credentials again.
LEMMA OperationsKeepTypes ==
    ASSUME NEW c \in Credentials, NEW op \in Operations
    PROVE  AfterOp(c, op) \in Credentials
<1>1. CASE op.name = "SetResUid"
  <2>1. op.arg \in Uids
    BY <1>1 DEF Operations
  <2>2. AfterSetResUid(c, op.arg) \in Credentials
    BY <2>1 DEF AfterSetResUid, Credentials, Uid3, AllEqual
  <2> QED
    BY <1>1, <2>2 DEF AfterOp
<1>2. CASE op.name = "SetCaps"
  <2>1. op.arg.permitted \subseteq Caps /\ op.arg.effective \subseteq Caps
        /\ op.arg.inheritable \subseteq Caps
    BY <1>2 DEF Operations
  <2> QED
    BY <1>2, <2>1 DEF AfterOp, Credentials
<1>3. CASE op.name = "ClearAmbient"
  BY <1>3 DEF AfterOp, Credentials
<1>4. CASE op.name = "DropBoundingExcept"
  BY <1>4 DEF AfterOp, Credentials
<1>5. CASE op.name = "SetSecureBits"
  <2>1. op.arg \subseteq SecureBits
    BY <1>5 DEF Operations
  <2> QED
    BY <1>5, <2>1 DEF AfterOp, Credentials
<1>6. CASE op.name = "SetKeepCaps"
  BY <1>6 DEF AfterOp, Credentials, SecureBits
<1>7. CASE op.name = "SetGroups"
  <2>1. op.arg \subseteq Gids
    BY <1>7 DEF Operations
  <2> QED
    BY <1>7, <2>1 DEF AfterOp, Credentials
<1>8. CASE op.name = "SetResGid"
  <2>1. op.arg \in Gids
    BY <1>8 DEF Operations
  <2> QED
    BY <1>8, <2>1 DEF AfterOp, Credentials, Gid3, AllEqual
<1>9. CASE op.name = "SetNoNewPrivs"
  BY <1>9 DEF AfterOp, Credentials
<1>10. op.name \in {"ClearAmbient", "SetKeepCaps", "SetNoNewPrivs", "SetCaps", "DropBoundingExcept",
                    "SetSecureBits", "SetGroups", "SetResGid", "SetResUid"}
  BY DEF Operations
<1> QED
  BY <1>1, <1>2, <1>3, <1>4, <1>5, <1>6, <1>7, <1>8, <1>9, <1>10

\* The credentials stay well formed, and every plan consists of operations apply knows
\* (plan, apply).
THEOREM CredentialsTyped == Spec => []TypeOK
<1>1. Init => TypeOK
  <2> SUFFICES ASSUME Init PROVE TypeOK
    OBVIOUS
  <2>1. request \in RequestType
    BY PrivilegesAssumption DEF Init, Requests, RequestType
  <2> QED
    BY <2>1, LaunchesAreCredentials DEF Init, TypeOK, RequestType
<1>2. TypeOK /\ [Next]_vars => TypeOK'
  <2> SUFFICES ASSUME TypeOK, Next \/ UNCHANGED vars PROVE TypeOK'
    OBVIOUS
  <2>1. CASE Refuse
    BY <2>1 DEF Refuse, TypeOK
  <2>2. CASE MakePlan
    <3>1. Plan(cred, request) \in Seq(Operations)
      BY <2>2, PlansAreOperations DEF MakePlan, TypeOK, RequestType
    <3> QED
      BY <2>2, <3>1 DEF MakePlan, TypeOK
  <2>3. CASE ApplyOp
    <3>1. Head(todo) \in Operations /\ Tail(todo) \in Seq(Operations)
      BY <2>3 DEF ApplyOp, TypeOK
    <3>2. AfterOp(cred, Head(todo)) \in Credentials
      BY <3>1, OperationsKeepTypes DEF TypeOK
    <3> QED
      BY <2>3, <3>1, <3>2 DEF ApplyOp, TypeOK
  <2>4. CASE OpFails
    BY <2>4 DEF OpFails, TypeOK
  <2>5. CASE Verify
    BY <2>5 DEF Verify, TypeOK
  <2>6. CASE UNCHANGED vars
    BY <2>6 DEF vars, TypeOK
  <2> QED
    BY <2>1, <2>2, <2>3, <2>4, <2>5, <2>6 DEF Next
<1> QED
  BY <1>1, <1>2, PTL DEF Spec

\* A plan is made from the credentials at the start and only if not refused, and
\* nothing changes once it is verified.
PlannedFromStart ==
    /\ pc = "start" => cred = start
    /\ pc \in {"apply", "done"} => ~Refused(start, request)
    /\ pc = "done" => Verified(cred)

LEMMA PlannedFromStartHolds == Spec => []PlannedFromStart
<1>1. Init => PlannedFromStart
  BY DEF Init, PlannedFromStart
<1>2. PlannedFromStart /\ [Next]_vars => PlannedFromStart'
  <2> SUFFICES ASSUME PlannedFromStart, [Next]_vars PROVE PlannedFromStart'
    OBVIOUS
  <2> USE DEF PlannedFromStart
  <2>1. CASE Refuse
    BY <2>1 DEF Refuse
  <2>2. CASE MakePlan
    BY <2>2 DEF MakePlan
  <2>3. CASE ApplyOp
    BY <2>3 DEF ApplyOp
  <2>4. CASE OpFails
    BY <2>4 DEF OpFails
  <2>5. CASE Verify
    <3>1. start' = start /\ request' = request /\ cred' = cred /\ pc = "apply"
      BY <2>5 DEF Verify
    <3>2. pc' = "done" => Verified(cred)
      BY <2>5 DEF Verify
    <3>3. pc' \in {"done", "failed"}
      BY <2>5 DEF Verify
    <3>4. Verified(cred)' <=> Verified(cred)
      BY <3>1 DEF Verified
    <3> QED
      BY <3>1, <3>2, <3>3, <3>4
  <2>6. CASE UNCHANGED vars
    <3>1. Verified(cred)' <=> Verified(cred)
      BY <2>6 DEF vars, Verified
    <3> QED
      BY <2>6, <3>1 DEF vars
  <2> QED
    BY <2>1, <2>2, <2>3, <2>4, <2>5, <2>6 DEF Next
<1> QED
  BY <1>1, <1>2, PTL DEF Spec

\* Whatever user IDs the process was started with, it is root in the end only
\* where root was allowed and no user configured, and a process that was root and
\* has a service user becomes that user with that user's groups (plan, verify).
THEOREM NotRootByAccidentHolds == Spec => []NotRootByAccident
<1>1. PlannedFromStart => NotRootByAccident
  <2> SUFFICES ASSUME PlannedFromStart, pc = "done" PROVE NotRootByAccident
    BY DEF NotRootByAccident
  <2> DEFINE user == SwitchTo(start, request)
  <2>1. ~Refused(start, request)
    BY DEF PlannedFromStart
  <2>2. /\ IdsOf(cred.uids) = {FinalUid(start, request)}
        /\ user # NoUser => IdsOf(cred.gids) = {user.gid} /\ cred.groups = FinalGroups(user)
    BY DEF PlannedFromStart, Verified
  <2>3. ASSUME request.keep # {}, AnyRoot(cred)
        PROVE  request.allowRoot /\ request.user = NoUser
    <3>1. FinalUid(start, request) = 0
      BY <2>2, <2>3 DEF AnyRoot
    <3>2. user = NoUser
      BY <2>1, <3>1 DEF FinalUid, Refused
    <3>3. AnyRoot(start)
      BY <3>1, <3>2 DEF FinalUid, AnyRoot, IdsOf
    <3> QED
      BY <2>1, <2>3, <3>2, <3>3 DEF Refused, SwitchTo
  <2>4. ASSUME AnyRoot(start), request.user # NoUser
        PROVE  /\ ~AnyRoot(cred)
               /\ IdsOf(cred.uids) = {request.user.uid}
               /\ IdsOf(cred.gids) = {request.user.gid}
               /\ cred.groups = request.user.groups \cup {request.user.gid}
    <3>1. user = request.user /\ user.uid # 0
      BY <2>1, <2>4 DEF Refused, SwitchTo
    <3>2. FinalUid(start, request) = request.user.uid
      BY <2>4, <3>1 DEF FinalUid
    <3> QED
      BY <2>2, <2>4, <3>1, <3>2 DEF AnyRoot, FinalGroups
  <2> QED
    BY <2>3, <2>4 DEF NotRootByAccident
<1> QED
  BY <1>1, PlannedFromStartHolds, PTL

\* A normalized process holds what it asked for and nothing else, and where it
\* had the right to, has locked the ways to more (plan, verify).
THEOREM LockedDownHolds == Spec => []LockedDown
<1>1. PlannedFromStart => LockedDown
  BY DEF PlannedFromStart, LockedDown, Verified, HasSetpcap
<1> QED
  BY <1>1, PlannedFromStartHolds, PTL

(***************************************************************************)
(* What is left of a plan, operation by operation.                         *)
(***************************************************************************)

\* The provers see these as they are named; only the lemmas below look inside.
OpSeq == Seq(Operations)
Nil == <<>>
Join(s, t) == s \o t
Then(op, rest) == <<op>> \o rest

Sealing == Then(Op("SetNoNewPrivs", TRUE), Nil)
Ending(r) == Then(SetCaps(r.keep, r.keep), Sealing)
FromUnkeep(r) == Then(Op("SetKeepCaps", FALSE), Ending(r))
FromUid(c, r) ==
    Then(Op("SetResUid", SwitchTo(c, r).uid), IF HasSetpcap(c) THEN Ending(r) ELSE FromUnkeep(r))
FromGid(c, r) == Then(Op("SetResGid", SwitchTo(c, r).gid), FromUid(c, r))
FromGroups(c, r) == Then(Op("SetGroups", FinalGroups(SwitchTo(c, r))), FromGid(c, r))
FromKeep(c, r) == Then(Op("SetKeepCaps", TRUE), FromGroups(c, r))
FromSwitch(c, r) ==
    IF SwitchTo(c, r) = NoUser THEN Ending(r)
    ELSE IF HasSetpcap(c) THEN FromGroups(c, r) ELSE FromKeep(c, r)
FromBits(c, r) == Then(Op("SetSecureBits", LockedSecureBits), FromSwitch(c, r))
FromBounding(c, r) == Then(Op("DropBoundingExcept", r.keep), FromBits(c, r))
FromLock(c, r) == IF HasSetpcap(c) THEN FromBounding(c, r) ELSE FromSwitch(c, r)
FromRaise(c, r) == Then(SetCaps(c.permitted, c.effective \cup Needed(c, r)), FromLock(c, r))
AfterClear(c, r) ==
    IF Needed(c, r) \subseteq c.effective THEN FromLock(c, r) ELSE FromRaise(c, r)
Whole(c, r) == Then(Op("ClearAmbient", TRUE), AfterClear(c, r))

\* Head and tail of a sequence made by Then.
LEMMA ThenSplits ==
    /\ Nil \in OpSeq
    /\ \A op \in Operations, rest \in OpSeq :
         /\ Then(op, rest) \in OpSeq /\ Then(op, rest) # <<>>
         /\ Head(Then(op, rest)) = op /\ Tail(Then(op, rest)) = rest
<1> USE DEF OpSeq
<1>0. Nil \in OpSeq
  BY DEF Nil
<1> SUFFICES ASSUME NEW op \in Operations, NEW rest \in Seq(Operations)
             PROVE  /\ Then(op, rest) \in Seq(Operations) /\ Then(op, rest) # <<>>
                    /\ Head(Then(op, rest)) = op /\ Tail(Then(op, rest)) = rest
  BY <1>0
<1>1. <<op>> \in Seq(Operations) /\ Len(<<op>>) = 1 /\ <<op>>[1] = op
  OBVIOUS
<1> DEFINE first == <<op>>
           both == first \o rest
<1> HIDE DEF first
<1>2. /\ both \in Seq(Operations) /\ Len(both) = 1 + Len(rest)
      /\ \A i \in 1 .. Len(both) : both[i] = IF i <= 1 THEN first[i] ELSE rest[i - 1]
  BY <1>1, ConcatProperties DEF first
<1> HIDE DEF both
<1>3. both # <<>> /\ Head(both) = op
  BY <1>1, <1>2 DEF first
<1>4. Tail(both) \in Seq(Operations) /\ Len(Tail(both)) = Len(rest)
      /\ \A i \in 1 .. Len(rest) : Tail(both)[i] = rest[i]
  BY <1>2, <1>3
<1>5. Tail(both) = rest
  BY <1>4, SeqEqual
<1> QED
  BY <1>2, <1>3, <1>5 DEF Then, both, first

\* Joining, operation by operation.
LEMMA ThenConcat ==
    /\ \A s, t \in OpSeq : Join(s, t) \in OpSeq
    /\ \A t \in OpSeq : Join(Nil, t) = t
    /\ \A op \in Operations, s, t \in OpSeq : Join(Then(op, s), t) = Then(op, Join(s, t))
    /\ \A s, t, u \in OpSeq : Join(Join(s, t), u) = Join(s, Join(t, u))
<1> USE DEF OpSeq, Join
<1>1. \A s, t \in OpSeq : Join(s, t) \in OpSeq
  BY ConcatProperties
<1>2. \A t \in OpSeq : Join(Nil, t) = t
  BY ConcatEmptySeq DEF Nil
<1>3. \A s, t, u \in OpSeq : Join(Join(s, t), u) = Join(s, Join(t, u))
  BY ConcatAssociative
<1>4. ASSUME NEW op \in Operations, NEW s \in OpSeq, NEW t \in OpSeq
      PROVE  Join(Then(op, s), t) = Then(op, Join(s, t))
  <2> DEFINE first == <<op>>
  <2>1. first \in OpSeq
    OBVIOUS
  <2> HIDE DEF first
  <2>2. Join(Join(first, s), t) = Join(first, Join(s, t))
    BY <1>3, <2>1
  <2> QED
    BY <2>2 DEF Then, first
<1> QED
  BY <1>1, <1>2, <1>3, <1>4

\* Sequences written out, and a plan as its parts joined.
LEMMA Written ==
    /\ \A x \in Operations : <<x>> = Then(x, Nil)
    /\ \A x, y \in Operations : <<x, y>> = Then(x, Then(y, Nil))
    /\ \A x, y, z \in Operations : <<x, y, z>> = Then(x, Then(y, Then(z, Nil)))
<1>1. \A x \in Operations : <<x>> = Then(x, Nil)
  BY DEF Then, Nil
<1>2. ASSUME NEW x \in Operations, NEW y \in Operations
      PROVE  <<x, y>> = Then(x, Then(y, Nil))
  <2>1. <<x>> \o <<y>> = <<x, y>>
    <3> DEFINE a == <<x>>
               b == <<y>>
               w == <<x, y>>
    <3>1. /\ a \in Seq(Operations) /\ Len(a) = 1 /\ a[1] = x
          /\ b \in Seq(Operations) /\ Len(b) = 1 /\ b[1] = y
          /\ w \in Seq(Operations) /\ Len(w) = 2 /\ w[1] = x /\ w[2] = y
      OBVIOUS
    <3> HIDE DEF a, b, w
    <3>2. /\ a \o b \in Seq(Operations) /\ Len(a \o b) = 2
          /\ \A i \in 1 .. 2 : (a \o b)[i] = IF i <= 1 THEN a[i] ELSE b[i - 1]
      BY <3>1, ConcatProperties
    <3>3. (a \o b)[1] = x /\ (a \o b)[2] = y
      BY <3>1, <3>2
    <3>4. \A i \in 1 .. Len(a \o b) : (a \o b)[i] = w[i]
      <4>1. \A i \in 1 .. 2 : i = 1 \/ i = 2
        OBVIOUS
      <4> QED
        BY <3>1, <3>2, <3>3, <4>1
    <3>5. a \o b = w
      BY <3>1, <3>2, <3>4, SeqEqual
    <3> QED
      BY <3>5 DEF a, b, w
  <2> QED
    BY <1>1, <2>1 DEF Then
<1>3. ASSUME NEW x \in Operations, NEW y \in Operations, NEW z \in Operations
      PROVE  <<x, y, z>> = Then(x, Then(y, Then(z, Nil)))
  <2>1. <<x>> \o <<y, z>> = <<x, y, z>>
    <3> DEFINE a == <<x>>
               b == <<y, z>>
               w == <<x, y, z>>
    <3>1. /\ a \in Seq(Operations) /\ Len(a) = 1 /\ a[1] = x
          /\ b \in Seq(Operations) /\ Len(b) = 2 /\ b[1] = y /\ b[2] = z
          /\ w \in Seq(Operations) /\ Len(w) = 3 /\ w[1] = x /\ w[2] = y /\ w[3] = z
      OBVIOUS
    <3> HIDE DEF a, b, w
    <3>2. /\ a \o b \in Seq(Operations) /\ Len(a \o b) = Len(a) + Len(b)
          /\ \A i \in 1 .. Len(a) + Len(b) :
               (a \o b)[i] = IF i <= Len(a) THEN a[i] ELSE b[i - Len(a)]
      BY <3>1, ConcatProperties
    <3>3. Len(a \o b) = 3 /\ (a \o b)[1] = x /\ (a \o b)[2] = y /\ (a \o b)[3] = z
      BY <3>1, <3>2
    <3>4. \A i \in 1 .. Len(a \o b) : (a \o b)[i] = w[i]
      <4>1. \A i \in 1 .. 3 : i = 1 \/ i = 2 \/ i = 3
        OBVIOUS
      <4> QED
        BY <3>1, <3>2, <3>3, <4>1
    <3>5. a \o b = w
      BY <3>1, <3>2, <3>4, SeqEqual
    <3> QED
      BY <3>5 DEF a, b, w
  <2> QED
    BY <1>2, <2>1 DEF Then
<1> QED
  BY <1>1, <1>2, <1>3

\* The operations of a plan that is not refused are operations, and so is what is left.
LEMMA PlanOps ==
    ASSUME NEW c \in Credentials, NEW r \in RequestType
    PROVE  /\ \A b \in BOOLEAN : /\ Op("ClearAmbient", b) \in Operations
                                 /\ Op("SetKeepCaps", b) \in Operations
                                 /\ Op("SetNoNewPrivs", b) \in Operations
           /\ SetCaps(r.keep, r.keep) \in Operations
           /\ SetCaps(c.permitted, c.effective \cup Needed(c, r)) \in Operations
           /\ Op("DropBoundingExcept", r.keep) \in Operations
           /\ Op("SetSecureBits", LockedSecureBits) \in Operations
           /\ SwitchTo(c, r) # NoUser =>
                /\ Op("SetGroups", FinalGroups(SwitchTo(c, r))) \in Operations
                /\ Op("SetResGid", SwitchTo(c, r).gid) \in Operations
                /\ Op("SetResUid", SwitchTo(c, r).uid) \in Operations
<1>1. c.permitted \subseteq Caps /\ c.effective \subseteq Caps /\ r.keep \subseteq Caps
  BY DEF Credentials, RequestType
<1>2. Needed(c, r) \subseteq Caps
  BY PrivilegesAssumption DEF Needed
<1>3. \A p, e \in SUBSET Caps : SetCaps(p, e) \in Operations
  BY DEF SetCaps, Op, Operations
<1>4. ASSUME SwitchTo(c, r) # NoUser
      PROVE  /\ Op("SetGroups", FinalGroups(SwitchTo(c, r))) \in Operations
             /\ Op("SetResGid", SwitchTo(c, r).gid) \in Operations
             /\ Op("SetResUid", SwitchTo(c, r).uid) \in Operations
  <2> DEFINE user == SwitchTo(c, r)
  <2>1. user \in ServiceUsers
    BY <1>4 DEF SwitchTo, RequestType
  <2>2. user.uid \in Uids /\ user.gid \in Gids /\ user.groups \subseteq Gids
    BY <2>1, PrivilegesAssumption
  <2> QED
    BY <2>2 DEF Op, Operations, FinalGroups
<1>5. \A b \in BOOLEAN : /\ Op("ClearAmbient", b) \in Operations
                        /\ Op("SetKeepCaps", b) \in Operations
                        /\ Op("SetNoNewPrivs", b) \in Operations
  BY DEF Op, Operations
<1>6. Op("DropBoundingExcept", r.keep) \in Operations
      /\ Op("SetSecureBits", LockedSecureBits) \in Operations
  BY <1>1 DEF Op, Operations, LockedSecureBits
<1>7. SetCaps(r.keep, r.keep) \in Operations
      /\ SetCaps(c.permitted, c.effective \cup Needed(c, r)) \in Operations
  BY <1>1, <1>2, <1>3
<1> QED
  BY <1>4, <1>5, <1>6, <1>7

\* So what is left of a plan is operations everywhere.
LEMMA RestOps ==
    ASSUME NEW c \in Credentials, NEW r \in RequestType
    PROVE  /\ Sealing \in OpSeq /\ Ending(r) \in OpSeq
           /\ FromUnkeep(r) \in OpSeq
           /\ SwitchTo(c, r) # NoUser =>
                /\ FromUid(c, r) \in OpSeq /\ FromGid(c, r) \in OpSeq
                /\ FromGroups(c, r) \in OpSeq /\ FromKeep(c, r) \in OpSeq
           /\ FromSwitch(c, r) \in OpSeq /\ FromBits(c, r) \in OpSeq
           /\ FromBounding(c, r) \in OpSeq /\ FromLock(c, r) \in OpSeq
           /\ FromRaise(c, r) \in OpSeq /\ AfterClear(c, r) \in OpSeq
           /\ Whole(c, r) \in OpSeq
<1>1. Nil \in OpSeq
  BY ThenSplits
<1>2. Sealing \in OpSeq
  BY <1>1, PlanOps, ThenSplits DEF Sealing
<1>3. Ending(r) \in OpSeq
  BY <1>2, PlanOps, ThenSplits DEF Ending
<1>4. FromUnkeep(r) \in OpSeq
  BY <1>3, PlanOps, ThenSplits DEF FromUnkeep
<1>5. ASSUME SwitchTo(c, r) # NoUser
      PROVE  /\ FromUid(c, r) \in OpSeq /\ FromGid(c, r) \in OpSeq
             /\ FromGroups(c, r) \in OpSeq /\ FromKeep(c, r) \in OpSeq
  <2>1. FromUid(c, r) \in OpSeq
    BY <1>3, <1>4, <1>5, PlanOps, ThenSplits DEF FromUid
  <2>2. FromGid(c, r) \in OpSeq
    BY <2>1, <1>5, PlanOps, ThenSplits DEF FromGid
  <2>3. FromGroups(c, r) \in OpSeq
    BY <2>2, <1>5, PlanOps, ThenSplits DEF FromGroups
  <2>4. FromKeep(c, r) \in OpSeq
    BY <2>3, <1>5, PlanOps, ThenSplits DEF FromKeep
  <2> QED
    BY <2>1, <2>2, <2>3, <2>4
<1>6. FromSwitch(c, r) \in OpSeq
  BY <1>3, <1>5 DEF FromSwitch
<1>7. FromBits(c, r) \in OpSeq
  BY <1>6, PlanOps, ThenSplits DEF FromBits
<1>8. FromBounding(c, r) \in OpSeq
  BY <1>7, PlanOps, ThenSplits DEF FromBounding
<1>9. FromLock(c, r) \in OpSeq
  BY <1>6, <1>8 DEF FromLock
<1>10. FromRaise(c, r) \in OpSeq
  BY <1>9, PlanOps, ThenSplits DEF FromRaise
<1>11. AfterClear(c, r) \in OpSeq
  BY <1>9, <1>10 DEF AfterClear
<1>12. Whole(c, r) \in OpSeq
  BY <1>11, PlanOps, ThenSplits DEF Whole
<1> QED
  BY <1>2, <1>3, <1>4, <1>5, <1>6, <1>7, <1>8, <1>9, <1>10, <1>11, <1>12

\* A plan is these operations, in this order.
LEMMA PlanUnfolds ==
    ASSUME NEW c \in Credentials, NEW r \in RequestType
    PROVE  Plan(c, r) = Whole(c, r)
<1> DEFINE last == <<SetCaps(r.keep, r.keep), Op("SetNoNewPrivs", TRUE)>>
           first == <<Op("ClearAmbient", TRUE)>>
           user == SwitchTo(c, r)
<1>0. \A op \in Operations : <<op>> = Then(op, Nil) /\ <<op>> \in OpSeq
  BY Written, ThenSplits
<1>a. \A x, y \in Operations : <<x, y>> = Then(x, Then(y, Nil))
  BY Written
<1>b. \A x, y, z \in Operations : <<x, y, z>> = Then(x, Then(y, Then(z, Nil)))
  BY Written
<1>1. last = Ending(r) /\ last \in OpSeq
  BY <1>a, PlanOps, RestOps DEF Ending, Sealing
<1>2. Switch(c, r) \in OpSeq /\ Join(Switch(c, r), last) = FromSwitch(c, r)
  <2> HIDE DEF last
  <2>1. CASE user = NoUser
    <3>1. Switch(c, r) = Nil /\ FromSwitch(c, r) = last
      BY <1>1, <2>1 DEF Switch, FromSwitch, Nil
    <3> QED
      BY <1>1, <3>1, ThenSplits, ThenConcat
  <2>2. CASE user # NoUser
    <3> DEFINE g == Op("SetGroups", FinalGroups(user))
               h == Op("SetResGid", user.gid)
               u == Op("SetResUid", user.uid)
               on == Op("SetKeepCaps", TRUE)
               off == Op("SetKeepCaps", FALSE)
    <3>1. g \in Operations /\ h \in Operations /\ u \in Operations
          /\ on \in Operations /\ off \in Operations
      BY <2>2, PlanOps
    <3> HIDE DEF g, h, u, on, off
    <3>2. SetIds(user) = Then(g, Then(h, Then(u, Nil)))
      BY <1>b, <3>1 DEF SetIds, g, h, u
    <3>3. /\ Nil \in OpSeq /\ Then(u, Nil) \in OpSeq /\ Then(h, Then(u, Nil)) \in OpSeq
          /\ SetIds(user) \in OpSeq
      BY <3>1, <3>2, ThenSplits
    <3>4. \A t \in OpSeq : Join(SetIds(user), t) = Then(g, Then(h, Then(u, t)))
      BY <3>1, <3>2, <3>3, ThenConcat
    <3>5. CASE HasSetpcap(c)
      <4>1. Switch(c, r) = SetIds(user)
        BY <2>2, <3>5 DEF Switch
      <4>2. Join(Switch(c, r), last) = Then(g, Then(h, Then(u, last)))
        BY <1>1, <3>4, <4>1
      <4>3. FromSwitch(c, r) = Then(g, Then(h, Then(u, last)))
        BY <1>1, <2>2, <3>5 DEF FromSwitch, FromGroups, FromGid, FromUid, g, h, u
      <4> QED
        BY <3>3, <4>1, <4>2, <4>3
    <3>6. CASE ~HasSetpcap(c)
      <4>1. Switch(c, r) = Join(Join(<<on>>, SetIds(user)), <<off>>)
        BY <2>2, <3>6 DEF Switch, KeepingCaps, Join, on, off
      <4> DEFINE kept == Then(g, Then(h, Then(u, Then(off, Nil))))
      <4>2. <<off>> = Then(off, Nil) /\ <<off>> \in OpSeq
        BY <1>0, <3>1
      <4>3. Join(SetIds(user), <<off>>) = kept /\ kept \in OpSeq
        <5>1. Join(SetIds(user), <<off>>) = kept
          BY <3>4, <4>2
        <5>2. kept \in OpSeq
          BY <3>1, <4>2, ThenSplits
        <5> QED
          BY <5>1, <5>2
      <4>4. Join(Join(<<on>>, SetIds(user)), <<off>>) = Then(on, kept)
        <5>1. Join(<<on>>, SetIds(user)) = Then(on, SetIds(user))
          BY DEF Then, Join
        <5>2. Join(Then(on, SetIds(user)), <<off>>) = Then(on, Join(SetIds(user), <<off>>))
          BY <3>1, <3>3, <4>2, ThenConcat
        <5> QED
          BY <4>3, <5>1, <5>2
      <4>5. Join(kept, last) = Then(g, Then(h, Then(u, Then(off, last))))
        <5>1. Join(Then(off, Nil), last) = Then(off, last)
          BY <1>1, <3>1, ThenSplits, ThenConcat
        <5>2. /\ Then(off, Nil) \in OpSeq /\ Then(u, Then(off, Nil)) \in OpSeq
              /\ Then(h, Then(u, Then(off, Nil))) \in OpSeq
          BY <3>1, <4>2, ThenSplits
        <5>3. Join(Then(u, Then(off, Nil)), last) = Then(u, Then(off, last))
          BY <1>1, <3>1, <5>1, <5>2, ThenConcat
        <5>4. Join(Then(h, Then(u, Then(off, Nil))), last) = Then(h, Then(u, Then(off, last)))
          BY <1>1, <3>1, <5>2, <5>3, ThenConcat
        <5> QED
          BY <1>1, <3>1, <5>2, <5>4, ThenConcat
      <4>6. Join(Then(on, kept), last) = Then(on, Then(g, Then(h, Then(u, Then(off, last)))))
        BY <1>1, <3>1, <4>3, <4>5, ThenConcat
      <4>7. FromSwitch(c, r) = Then(on, Then(g, Then(h, Then(u, Then(off, last)))))
        BY <1>1, <2>2, <3>6
           DEF FromSwitch, FromKeep, FromGroups, FromGid, FromUid, FromUnkeep, on, g, h, u, off
      <4>8. Then(on, kept) \in OpSeq
        BY <3>1, <4>3, ThenSplits
      <4> QED
        BY <4>1, <4>4, <4>6, <4>7, <4>8
    <3> QED
      BY <3>5, <3>6
  <2> QED
    BY <2>1, <2>2
<1>3. LockDown(c, r) \in OpSeq /\ Join(LockDown(c, r), FromSwitch(c, r)) = FromLock(c, r)
  <2> DEFINE d == Op("DropBoundingExcept", r.keep)
             b == Op("SetSecureBits", LockedSecureBits)
  <2>1. d \in Operations /\ b \in Operations
    BY PlanOps
  <2> HIDE DEF d, b
  <2>2. CASE ~HasSetpcap(c)
    <3>1. LockDown(c, r) = Nil /\ FromLock(c, r) = FromSwitch(c, r)
      BY <2>2 DEF LockDown, FromLock, Nil
    <3> QED
      BY <3>1, RestOps, ThenSplits, ThenConcat
  <2>3. CASE HasSetpcap(c)
    <3>1. LockDown(c, r) = Then(d, Then(b, Nil))
      BY <1>a, <2>1, <2>3 DEF LockDown, d, b
    <3>2. Then(b, Nil) \in OpSeq /\ LockDown(c, r) \in OpSeq
      BY <2>1, <3>1, ThenSplits
    <3>3. Join(LockDown(c, r), FromSwitch(c, r)) = Then(d, Then(b, FromSwitch(c, r)))
      BY <2>1, <3>1, <3>2, RestOps, ThenSplits, ThenConcat
    <3> QED
      BY <2>3, <3>2, <3>3 DEF FromLock, FromBounding, FromBits, d, b
  <2> QED
    BY <2>2, <2>3
<1>4. Raise(c, r) \in OpSeq /\ Join(Raise(c, r), FromLock(c, r)) = AfterClear(c, r)
  <2> DEFINE s == SetCaps(c.permitted, c.effective \cup Needed(c, r))
  <2>1. s \in Operations
    BY PlanOps
  <2> HIDE DEF s
  <2>2. CASE Needed(c, r) \subseteq c.effective
    <3>1. Raise(c, r) = Nil /\ AfterClear(c, r) = FromLock(c, r)
      BY <2>2 DEF Raise, AfterClear, Nil
    <3> QED
      BY <3>1, RestOps, ThenSplits, ThenConcat
  <2>3. CASE ~(Needed(c, r) \subseteq c.effective)
    <3>1. Raise(c, r) = <<s>>
      BY <2>3 DEF Raise, s
    <3>2. Raise(c, r) \in OpSeq
      BY <1>0, <2>1, <3>1
    <3> QED
      BY <2>3, <3>1, <3>2 DEF AfterClear, FromRaise, Then, Join, s
  <2> QED
    BY <2>2, <2>3
<1>5. first \in OpSeq
  BY <1>0, PlanOps
<1> HIDE DEF first, last
<1>6. Plan(c, r) = Join(Join(Join(Join(first, Raise(c, r)), LockDown(c, r)), Switch(c, r)), last)
  BY DEF Plan, Join, first, last
<1> DEFINE A == Raise(c, r)
           B == LockDown(c, r)
           C == Switch(c, r)
<1> HIDE DEF A, B, C
<1>7. A \in OpSeq /\ B \in OpSeq /\ C \in OpSeq
  BY <1>2, <1>3, <1>4 DEF A, B, C
<1>8. Join(Join(Join(Join(first, A), B), C), last) = Join(first, Join(A, Join(B, Join(C, last))))
  <2>1. Join(first, A) \in OpSeq /\ Join(Join(first, A), B) \in OpSeq /\ Join(C, last) \in OpSeq
    BY <1>1, <1>5, <1>7, ThenConcat
  <2>2. Join(B, Join(C, last)) \in OpSeq
    BY <1>7, <2>1, ThenConcat
  <2>3. Join(Join(Join(Join(first, A), B), C), last) = Join(Join(Join(first, A), B), Join(C, last))
    BY <1>1, <1>7, <2>1, ThenConcat
  <2>4. Join(Join(Join(first, A), B), Join(C, last)) = Join(Join(first, A), Join(B, Join(C, last)))
    BY <1>7, <2>1, ThenConcat
  <2>5. Join(Join(first, A), Join(B, Join(C, last))) = Join(first, Join(A, Join(B, Join(C, last))))
    BY <1>5, <1>7, <2>2, ThenConcat
  <2> QED
    BY <2>3, <2>4, <2>5
<1>9. Join(first, AfterClear(c, r)) = Whole(c, r)
  BY DEF Whole, Then, Join, first
<1> QED
  BY <1>2, <1>3, <1>4, <1>6, <1>8, <1>9 DEF A, B, C

(***************************************************************************)
(* Where a process is in its plan, and what it holds there.                *)
(***************************************************************************)

\* The causes of FailuresExplained.
Contradicted ==
    HasSetpcap(start) /\ ~(LockedSecureBits \cap LockedBits(start) \subseteq start.secure)
KeepingLocked ==
    /\ ~HasSetpcap(start) /\ SwitchTo(start, request) # NoUser
    /\ "keep_caps_locked" \in start.secure
StaysSetUid ==
    SwitchTo(start, request) = NoUser /\ start.uids.real # start.uids.effective

\* The launch facts the plan relies on: what is in effect is permitted (an execve
\* gives no more), and the saved user ID is the effective one.
Launched ==
    /\ start.effective \subseteq start.permitted
    /\ start.uids.saved = start.uids.effective

Equipped ==
    /\ cred.permitted = start.permitted
    /\ Needed(start, request) \subseteq cred.effective
    /\ cred.ambient = {}
    /\ cred.uids = start.uids

\* What the lock and the switch have left when they are done.
Locked ==
    HasSetpcap(start) =>
      /\ ~Contradicted
      /\ LockedSecureBits \subseteq cred.secure
      /\ cred.bounding \subseteq request.keep

Keeping ==
    ~HasSetpcap(start) =>
      /\ "keep_caps_locked" \notin start.secure
      /\ "keep_caps_locked" \notin cred.secure
      /\ "keep_caps" \in cred.secure

GroupsSet == cred.groups = FinalGroups(SwitchTo(start, request))
GidsSet == cred.gids = AllEqual(SwitchTo(start, request).gid)
UidsSet == cred.uids = AllEqual(SwitchTo(start, request).uid)

Switching == SwitchTo(start, request) # NoUser

Switched ==
    /\ cred.ambient = {}
    /\ Locked
    /\ ~Switching => cred.uids = start.uids
    /\ Switching => GroupsSet /\ GidsSet /\ UidsSet
    /\ ~KeepingLocked

Reduced ==
    /\ Switched
    /\ cred.permitted = request.keep /\ cred.effective = request.keep
    /\ cred.inheritable = {}

AtClear == todo = Whole(start, request) /\ cred = start
AtRaise ==
    /\ todo = FromRaise(start, request)
    /\ ~(Needed(start, request) \subseteq start.effective)
    /\ cred = [start EXCEPT !.ambient = {}]
AtBounding ==
    todo = FromBounding(start, request) /\ HasSetpcap(start) /\ Equipped
      /\ cred.secure = start.secure
AtBits ==
    todo = FromBits(start, request) /\ HasSetpcap(start) /\ Equipped
      /\ cred.secure = start.secure /\ cred.bounding \subseteq request.keep
AtKeep ==
    todo = FromKeep(start, request) /\ ~HasSetpcap(start) /\ Switching /\ Equipped
      /\ cred.secure = start.secure
AtGroups == todo = FromGroups(start, request) /\ Switching /\ Equipped /\ Locked /\ Keeping
AtGid ==
    todo = FromGid(start, request) /\ Switching /\ Equipped /\ Locked /\ Keeping /\ GroupsSet
AtUid ==
    todo = FromUid(start, request) /\ Switching /\ Equipped /\ Locked /\ Keeping
      /\ GroupsSet /\ GidsSet
AtUnkeep ==
    /\ todo = FromUnkeep(request) /\ ~HasSetpcap(start) /\ Switching /\ Keeping
    /\ cred.permitted = start.permitted /\ Switched
AtCaps == todo = Ending(request) /\ cred.permitted = start.permitted /\ Switched
AtSealing == todo = Sealing /\ Reduced
AtEnd == todo = Nil /\ Reduced /\ cred.noNewPrivs

Stage ==
    \/ AtClear \/ AtRaise \/ AtBounding \/ AtBits \/ AtKeep \/ AtGroups \/ AtGid \/ AtUid
    \/ AtUnkeep \/ AtCaps \/ AtSealing \/ AtEnd

Progress ==
    /\ Launched
    /\ pc = "apply" => Stage
    /\ FailuresExplained

\* What was launched has no more in effect than is permitted.
LEMMA LaunchesAreLaunched == Init => Launched
<1> SUFFICES ASSUME Init PROVE Launched
  OBVIOUS
<1>1. PICK r, e \in Uids, p \in SUBSET Caps, a \in {{}, {"sys_admin"}} :
        start \in LaunchesWith(r, e, p, a)
  BY DEF Init, Launches
<1>2. AfterExec(start)
  BY DEF Init, Launches
<1>3. start.permitted = p /\ start.ambient = a /\ start.effective \in {p, a}
  BY <1>1 DEF LaunchesWith
<1>4. start.uids = [real |-> r, effective |-> e, saved |-> e]
  BY <1>1 DEF LaunchesWith
<1> QED
  BY <1>2, <1>3, <1>4 DEF AfterExec, Launched

\* What every stage of an undisturbed plan may take for granted.
Underway == TypeOK /\ Launched /\ ~Refused(start, request)

LEMMA UnderwayFacts ==
    ASSUME Underway
    PROVE  /\ cred \in Credentials /\ start \in Credentials /\ request \in RequestType
           /\ Needed(start, request) \subseteq start.permitted
           /\ request.keep \subseteq start.permitted
           /\ HasSetpcap(start) => "setpcap" \in Needed(start, request)
           /\ Switching => /\ {"setuid", "setgid"} \subseteq Needed(start, request)
                           /\ SwitchTo(start, request).uid # 0
                           /\ AnyRoot(start)
<1>1. cred \in Credentials /\ start \in Credentials /\ request \in RequestType
  BY DEF Underway, TypeOK, RequestType
<1>2. Needed(start, request) \subseteq start.permitted
  BY DEF Underway, Refused, Needed, HasSetpcap
<1>3. HasSetpcap(start) => "setpcap" \in Needed(start, request)
  BY DEF Needed
<1>4. request.keep \subseteq start.permitted
  BY DEF Underway, Refused
<1>5. ASSUME Switching
      PROVE  /\ {"setuid", "setgid"} \subseteq Needed(start, request)
             /\ SwitchTo(start, request).uid # 0
             /\ AnyRoot(start)
  BY <1>5 DEF Underway, Refused, Needed, Switching, SwitchTo
<1> QED
  BY <1>1, <1>2, <1>3, <1>4, <1>5

\* The next operation and what is left after it.
LEMMA NextOp ==
    ASSUME NEW op \in Operations, NEW rest \in OpSeq, todo = Then(op, rest)
    PROVE  /\ todo # <<>> /\ Head(todo) = op /\ Tail(todo) = rest
           /\ ApplyOp => cred' = AfterOp(cred, op) /\ todo' = rest
           /\ OpFails => ~Permits(cred, op)
<1>1. todo # <<>> /\ Head(todo) = op /\ Tail(todo) = rest
  BY ThenSplits
<1> QED
  BY <1>1 DEF ApplyOp, OpFails

\* Past the raising of capabilities.
LEMMA EnterLock ==
    Underway /\ todo = FromLock(start, request) /\ Equipped /\ cred.secure = start.secure
      => Stage
<1> SUFFICES ASSUME Underway, todo = FromLock(start, request), Equipped,
                    cred.secure = start.secure
             PROVE  AtBounding \/ AtKeep \/ AtCaps
  BY DEF Stage
<1>1. CASE HasSetpcap(start)
  BY <1>1 DEF FromLock, AtBounding
<1>2. CASE ~HasSetpcap(start) /\ Switching
  BY <1>2 DEF FromLock, FromSwitch, AtKeep, Switching
<1>3. CASE ~HasSetpcap(start) /\ ~Switching
  BY <1>3 DEF FromLock, FromSwitch, AtCaps, Switched, Switching, Locked, Equipped, KeepingLocked
<1> QED
  BY <1>1, <1>2, <1>3

LEMMA EnterLockNext ==
    (Underway /\ todo = FromLock(start, request) /\ Equipped /\ cred.secure = start.secure
      => Stage)'
BY EnterLock, PTL

LEMMA ClearSteps ==
    ASSUME Underway, AtClear, Underway'
    PROVE  (ApplyOp => Stage') /\ ~OpFails
<1> DEFINE op == Op("ClearAmbient", TRUE)
           rest == AfterClear(start, request)
<1>1. op \in Operations /\ rest \in OpSeq /\ todo = Then(op, rest)
  BY UnderwayFacts, PlanOps, RestOps DEF AtClear, Whole
<1>2. /\ ApplyOp => cred' = AfterOp(cred, op) /\ todo' = rest
      /\ OpFails => ~Permits(cred, op)
  <2> HIDE DEF op, rest
  <2> QED
    BY <1>1, NextOp
<1>3. Permits(cred, op)
  BY DEF Permits, Op
<1>4. ASSUME ApplyOp PROVE Stage'
  <2>1. cred' = [start EXCEPT !.ambient = {}] /\ todo' = rest
        /\ start' = start /\ request' = request
    BY <1>2, <1>4 DEF AfterOp, Op, AtClear, ApplyOp
  <2>2. CASE Needed(start, request) \subseteq start.effective
    <3>1. todo' = FromLock(start, request)
      BY <2>1, <2>2 DEF AfterClear
    <3>2. /\ cred'.permitted = start.permitted /\ cred'.effective = start.effective
          /\ cred'.ambient = {} /\ cred'.uids = start.uids /\ cred'.secure = start.secure
      BY <2>1, UnderwayFacts DEF Credentials
    <3>3. Equipped' /\ (cred.secure = start.secure)'
      BY <2>1, <2>2, <3>2 DEF Equipped
    <3> QED
      BY <2>1, <3>1, <3>3, EnterLockNext
  <2>3. CASE ~(Needed(start, request) \subseteq start.effective)
    <3>1. AtRaise'
      BY <2>1, <2>3 DEF AfterClear, AtRaise
    <3> QED
      BY <3>1 DEF Stage
  <2> QED
    BY <2>2, <2>3
<1> QED
  BY <1>2, <1>3, <1>4

LEMMA RaiseSteps ==
    ASSUME Underway, AtRaise, Underway'
    PROVE  (ApplyOp => Stage') /\ ~OpFails
<1> DEFINE raised == start.effective \cup Needed(start, request)
           op == SetCaps(start.permitted, raised)
           rest == FromLock(start, request)
<1>1. op \in Operations /\ rest \in OpSeq /\ todo = Then(op, rest)
  BY UnderwayFacts, PlanOps, RestOps DEF AtRaise, FromRaise
<1>2. /\ ApplyOp => cred' = AfterOp(cred, op) /\ todo' = rest
      /\ OpFails => ~Permits(cred, op)
  <2> HIDE DEF op, rest
  <2> QED
    BY <1>1, NextOp
<1>3. cred.permitted = start.permitted /\ cred.ambient = {} /\ cred.uids = start.uids
      /\ cred.secure = start.secure
  BY UnderwayFacts DEF AtRaise, Credentials
<1>4. Permits(cred, op)
  <2>1. raised \subseteq start.permitted
    BY UnderwayFacts DEF Underway, Launched
  <2> HIDE DEF raised
  <2> QED
    BY <1>3, <2>1 DEF Permits, SetCaps, Op
<1>5. ASSUME ApplyOp PROVE Stage'
  <2>1. todo' = rest /\ start' = start /\ request' = request
    BY <1>2, <1>5 DEF ApplyOp
  <2>2. /\ cred'.permitted = start.permitted /\ cred'.effective = raised
        /\ cred'.ambient = {} /\ cred'.uids = start.uids /\ cred'.secure = start.secure
    <3> HIDE DEF raised
    <3>1. cred' = [cred EXCEPT !.permitted = start.permitted, !.effective = raised,
                               !.inheritable = {},
                               !.ambient = @ \cap start.permitted \cap {}]
      BY <1>2, <1>5 DEF AfterOp, SetCaps, Op
    <3> QED
      BY <1>3, <3>1, UnderwayFacts DEF Credentials
  <2>3. Equipped' /\ (cred.secure = start.secure)'
    BY <2>1, <2>2 DEF Equipped
  <2> QED
    BY <2>1, <2>3, EnterLockNext
<1> QED
  BY <1>2, <1>4, <1>5

LEMMA BoundingSteps ==
    ASSUME Underway, AtBounding
    PROVE  (ApplyOp => Stage') /\ ~OpFails
<1> DEFINE op == Op("DropBoundingExcept", request.keep)
           rest == FromBits(start, request)
<1>1. op \in Operations /\ rest \in OpSeq /\ todo = Then(op, rest)
  BY UnderwayFacts, PlanOps, RestOps DEF AtBounding, FromBounding
<1>2. /\ ApplyOp => cred' = AfterOp(cred, op) /\ todo' = rest
      /\ OpFails => ~Permits(cred, op)
  <2> HIDE DEF op, rest
  <2> QED
    BY <1>1, NextOp
<1>3. Permits(cred, op)
  BY UnderwayFacts DEF Permits, Op, AtBounding, Equipped
<1>4. ASSUME ApplyOp PROVE Stage'
  <2>1. todo' = rest /\ start' = start /\ request' = request
    BY <1>2, <1>4 DEF ApplyOp
  <2>2. cred' = [cred EXCEPT !.bounding = @ \cap request.keep]
    BY <1>2, <1>4 DEF AfterOp, Op
  <2>3. /\ cred'.permitted = cred.permitted /\ cred'.effective = cred.effective
        /\ cred'.ambient = cred.ambient /\ cred'.uids = cred.uids /\ cred'.secure = cred.secure
        /\ cred'.bounding \subseteq request.keep
    BY <2>2, UnderwayFacts DEF Credentials
  <2>4. AtBits'
    BY <2>1, <2>3 DEF AtBits, AtBounding, Equipped
  <2> QED
    BY <2>4 DEF Stage
<1> QED
  BY <1>2, <1>3, <1>4

\* Behind the lock, with or without it.
LEMMA EnterSwitch ==
    Underway /\ HasSetpcap(start) /\ todo = FromSwitch(start, request) /\ Equipped /\ Locked
      => Stage
<1> SUFFICES ASSUME Underway, HasSetpcap(start), todo = FromSwitch(start, request), Equipped,
                    Locked
             PROVE  AtGroups \/ AtCaps
  BY DEF Stage
<1>1. CASE Switching
  BY <1>1 DEF FromSwitch, AtGroups, Switching, Keeping
<1>2. CASE ~Switching
  BY <1>2 DEF FromSwitch, AtCaps, Switched, Switching, Equipped, KeepingLocked
<1> QED
  BY <1>1, <1>2

LEMMA EnterSwitchNext ==
    (Underway /\ HasSetpcap(start) /\ todo = FromSwitch(start, request) /\ Equipped /\ Locked
      => Stage)'
BY EnterSwitch, PTL

LEMMA BitsSteps ==
    ASSUME Underway, AtBits, Underway'
    PROVE  (ApplyOp => Stage') /\ (OpFails => Contradicted)
<1> DEFINE op == Op("SetSecureBits", LockedSecureBits)
           rest == FromSwitch(start, request)
<1>1. op \in Operations /\ rest \in OpSeq /\ todo = Then(op, rest)
  BY UnderwayFacts, PlanOps, RestOps DEF AtBits, FromBits
<1>2. /\ ApplyOp => cred' = AfterOp(cred, op) /\ todo' = rest
      /\ OpFails => ~Permits(cred, op)
      /\ ApplyOp => Permits(cred, op)
  <2> HIDE DEF op, rest
  <2>1. todo # <<>> /\ Head(todo) = op /\ Tail(todo) = rest
    BY <1>1, NextOp
  <2> QED
    BY <2>1 DEF ApplyOp, OpFails
<1>3. Permits(cred, op) <=> ~Contradicted
  <2>1. LockedBits(cred) = LockedBits(start)
    BY DEF AtBits, LockedBits
  <2>2. "setpcap" \in cred.effective /\ cred.secure = start.secure /\ HasSetpcap(start)
    BY UnderwayFacts DEF AtBits, Equipped
  <2>3. Permits(cred, op) <=> /\ "setpcap" \in cred.effective
                              /\ LockedSecureBits \cap LockedBits(cred) \subseteq cred.secure
    BY DEF Permits, Op
  <2> QED
    BY <2>1, <2>2, <2>3 DEF Contradicted
<1>4. ASSUME ApplyOp PROVE Stage'
  <2>1. todo' = rest /\ start' = start /\ request' = request
    BY <1>2, <1>4 DEF ApplyOp
  <2>2. cred' = [cred EXCEPT !.secure = @ \cup LockedSecureBits]
    BY <1>2, <1>4 DEF AfterOp, Op
  <2>3. /\ cred'.permitted = cred.permitted /\ cred'.effective = cred.effective
        /\ cred'.ambient = cred.ambient /\ cred'.uids = cred.uids
        /\ cred'.bounding = cred.bounding /\ LockedSecureBits \subseteq cred'.secure
    BY <2>2, UnderwayFacts DEF Credentials
  <2>4. ~Contradicted /\ Contradicted' = Contradicted
    BY <1>2, <1>3, <1>4, <2>1 DEF Contradicted
  <2>5. Equipped' /\ Locked'
    BY <2>1, <2>3, <2>4 DEF AtBits, Equipped, Locked
  <2>6. HasSetpcap(start)' /\ (todo = FromSwitch(start, request))'
    BY <2>1 DEF AtBits
  <2> QED
    BY <2>5, <2>6, EnterSwitchNext
<1> QED
  BY <1>2, <1>3, <1>4

LEMMA KeepSteps ==
    ASSUME Underway, AtKeep
    PROVE  (ApplyOp => Stage') /\ (OpFails => KeepingLocked)
<1> DEFINE op == Op("SetKeepCaps", TRUE)
           rest == FromGroups(start, request)
<1>1. op \in Operations /\ rest \in OpSeq /\ todo = Then(op, rest)
  BY UnderwayFacts, PlanOps, RestOps DEF AtKeep, FromKeep, Switching
<1>2. /\ ApplyOp => cred' = AfterOp(cred, op) /\ todo' = rest
      /\ OpFails => ~Permits(cred, op)
      /\ ApplyOp => Permits(cred, op)
  <2> HIDE DEF op, rest
  <2>1. todo # <<>> /\ Head(todo) = op /\ Tail(todo) = rest
    BY <1>1, NextOp
  <2> QED
    BY <2>1 DEF ApplyOp, OpFails
<1>3. Permits(cred, op) <=> "keep_caps_locked" \notin start.secure
  BY DEF Permits, Op, AtKeep
<1>4. ASSUME OpFails PROVE KeepingLocked
  BY <1>2, <1>3, <1>4 DEF KeepingLocked, AtKeep, Switching
<1>5. ASSUME ApplyOp PROVE Stage'
  <2>1. todo' = rest /\ start' = start /\ request' = request
    BY <1>2, <1>5 DEF ApplyOp
  <2>2. cred' = [cred EXCEPT !.secure = @ \cup {"keep_caps"}]
    BY <1>2, <1>5 DEF AfterOp, Op
  <2>3. /\ cred'.permitted = cred.permitted /\ cred'.effective = cred.effective
        /\ cred'.ambient = cred.ambient /\ cred'.uids = cred.uids
        /\ cred'.secure = cred.secure \cup {"keep_caps"}
    BY <2>2, UnderwayFacts DEF Credentials
  <2>4. "keep_caps_locked" \notin start.secure /\ "keep_caps_locked" \notin cred'.secure
    BY <1>2, <1>3, <1>5, <2>3 DEF AtKeep
  <2>5. AtGroups'
    BY <2>1, <2>3, <2>4 DEF AtKeep, AtGroups, Switching, Equipped, Locked, Keeping
  <2> QED
    BY <2>5 DEF Stage
<1> QED
  BY <1>2, <1>4, <1>5

\* What a change of group IDs leaves alone.
Steady ==
    /\ start' = start /\ request' = request
    /\ cred'.permitted = cred.permitted /\ cred'.effective = cred.effective
    /\ cred'.ambient = cred.ambient /\ cred'.uids = cred.uids
    /\ cred'.secure = cred.secure /\ cred'.bounding = cred.bounding

LEMMA SteadyKeeps ==
    ASSUME Steady, Switching, Equipped, Locked, Keeping
    PROVE  Switching' /\ Equipped' /\ Locked' /\ Keeping'
<1>1. Switching' /\ Equipped' /\ Keeping'
  BY DEF Steady, Switching, Equipped, Keeping
<1>2. Contradicted' = Contradicted
  BY DEF Steady, Contradicted
<1>3. Locked'
  BY <1>2 DEF Steady, Locked
<1> QED
  BY <1>1, <1>3

LEMMA GroupsSteps ==
    ASSUME Underway, AtGroups
    PROVE  (ApplyOp => Stage') /\ ~OpFails
<1> DEFINE op == Op("SetGroups", FinalGroups(SwitchTo(start, request)))
           rest == FromGid(start, request)
<1>1. op \in Operations /\ rest \in OpSeq /\ todo = Then(op, rest)
  BY UnderwayFacts, PlanOps, RestOps DEF AtGroups, FromGroups, Switching
<1>2. /\ ApplyOp => cred' = AfterOp(cred, op) /\ todo' = rest
      /\ OpFails => ~Permits(cred, op)
  <2> HIDE DEF op, rest
  <2> QED
    BY <1>1, NextOp
<1>3. Permits(cred, op)
  BY UnderwayFacts DEF Permits, Op, AtGroups, Equipped
<1>4. ASSUME ApplyOp PROVE Stage'
  <2>1. todo' = rest /\ start' = start /\ request' = request
    BY <1>2, <1>4 DEF ApplyOp
  <2>2. cred' = [cred EXCEPT !.groups = FinalGroups(SwitchTo(start, request))]
    BY <1>2, <1>4 DEF AfterOp, Op
  <2>3. Steady /\ cred'.groups = FinalGroups(SwitchTo(start, request))
    BY <2>1, <2>2, UnderwayFacts DEF Credentials, Steady
  <2>4. Switching' /\ Equipped' /\ Locked' /\ Keeping'
    BY <2>3, SteadyKeeps DEF AtGroups
  <2>5. AtGid'
    BY <2>1, <2>3, <2>4 DEF AtGid, GroupsSet
  <2> QED
    BY <2>5 DEF Stage
<1> QED
  BY <1>2, <1>3, <1>4

LEMMA GidSteps ==
    ASSUME Underway, AtGid
    PROVE  (ApplyOp => Stage') /\ ~OpFails
<1> DEFINE op == Op("SetResGid", SwitchTo(start, request).gid)
           rest == FromUid(start, request)
<1>1. op \in Operations /\ rest \in OpSeq /\ todo = Then(op, rest)
  BY UnderwayFacts, PlanOps, RestOps DEF AtGid, FromGid, Switching
<1>2. /\ ApplyOp => cred' = AfterOp(cred, op) /\ todo' = rest
      /\ OpFails => ~Permits(cred, op)
  <2> HIDE DEF op, rest
  <2> QED
    BY <1>1, NextOp
<1>3. Permits(cred, op)
  BY UnderwayFacts DEF Permits, Op, AtGid, Equipped
<1>4. ASSUME ApplyOp PROVE Stage'
  <2>1. todo' = rest /\ start' = start /\ request' = request
    BY <1>2, <1>4 DEF ApplyOp
  <2>2. cred' = [cred EXCEPT !.gids = AllEqual(SwitchTo(start, request).gid)]
    BY <1>2, <1>4 DEF AfterOp, Op
  <2>3. Steady /\ cred'.groups = cred.groups
               /\ cred'.gids = AllEqual(SwitchTo(start, request).gid)
    BY <2>1, <2>2, UnderwayFacts DEF Credentials, Steady
  <2>4. Switching' /\ Equipped' /\ Locked' /\ Keeping'
    BY <2>3, SteadyKeeps DEF AtGid
  <2>5. AtUid'
    BY <2>1, <2>3, <2>4 DEF AtGid, AtUid, GroupsSet, GidsSet
  <2> QED
    BY <2>5 DEF Stage
<1> QED
  BY <1>2, <1>3, <1>4

\* The permitted capabilities survive the change of user ID, thanks to the bits
\* that were locked or to KEEP_CAPS.
LEMMA UidSteps ==
    ASSUME Underway, AtUid
    PROVE  (ApplyOp => Stage') /\ ~OpFails
<1> DEFINE uid == SwitchTo(start, request).uid
           op == Op("SetResUid", uid)
           rest == IF HasSetpcap(start) THEN Ending(request) ELSE FromUnkeep(request)
<1>1. op \in Operations /\ rest \in OpSeq /\ todo = Then(op, rest)
  BY UnderwayFacts, PlanOps, RestOps DEF AtUid, FromUid, Switching
<1>2. /\ ApplyOp => cred' = AfterOp(cred, op) /\ todo' = rest
      /\ OpFails => ~Permits(cred, op)
  <2> HIDE DEF op, rest
  <2> QED
    BY <1>1, NextOp
<1>3. Permits(cred, op)
  BY UnderwayFacts DEF Permits, Op, AtUid, Equipped
<1>4. ASSUME ApplyOp PROVE Stage'
  <2>1. todo' = rest /\ start' = start /\ request' = request
    BY <1>2, <1>4 DEF ApplyOp
  <2>2. cred' = AfterSetResUid(cred, uid)
    BY <1>2, <1>4 DEF AfterOp, Op
  <2>3. "no_setuid_fixup" \in cred.secure \/ "keep_caps" \in cred.secure
    BY DEF AtUid, Locked, Keeping, LockedSecureBits, SecureBits
  <2>4. /\ cred'.permitted = cred.permitted /\ cred'.ambient = {}
        /\ cred'.uids = AllEqual(uid) /\ cred'.groups = cred.groups /\ cred'.gids = cred.gids
        /\ cred'.secure = cred.secure /\ cred'.bounding = cred.bounding
    <3>1. cred.ambient = {}
      BY DEF AtUid, Equipped
    <3> HIDE DEF uid
    <3> QED
      BY <2>2, <2>3, <3>1, UnderwayFacts DEF AfterSetResUid, Credentials
  <2>5. Contradicted' = Contradicted /\ KeepingLocked' = KeepingLocked
    BY <2>1 DEF Contradicted, KeepingLocked
  <2>6. ~KeepingLocked
    BY DEF AtUid, Keeping, KeepingLocked
  <2>7. Switched' /\ Switching' /\ Keeping' /\ cred'.permitted = start'.permitted
    <3>1. Locked' /\ Keeping' /\ Switching'
      BY <2>1, <2>4, <2>5 DEF AtUid, Locked, Keeping, Switching
    <3>2. GroupsSet' /\ GidsSet' /\ UidsSet'
      BY <2>1, <2>4 DEF AtUid, GroupsSet, GidsSet, UidsSet
    <3> QED
      BY <2>1, <2>4, <2>5, <2>6, <3>1, <3>2 DEF AtUid, Switched, Equipped
  <2>8. CASE HasSetpcap(start)
    BY <2>1, <2>7, <2>8 DEF AtCaps, Stage
  <2>9. CASE ~HasSetpcap(start)
    BY <2>1, <2>7, <2>9 DEF AtUnkeep, Stage
  <2> QED
    BY <2>8, <2>9
<1> QED
  BY <1>2, <1>3, <1>4

LEMMA UnkeepSteps ==
    ASSUME Underway, AtUnkeep
    PROVE  (ApplyOp => Stage') /\ ~OpFails
<1> DEFINE op == Op("SetKeepCaps", FALSE)
           rest == Ending(request)
<1>1. op \in Operations /\ rest \in OpSeq /\ todo = Then(op, rest)
  BY UnderwayFacts, PlanOps, RestOps DEF AtUnkeep, FromUnkeep
<1>2. /\ ApplyOp => cred' = AfterOp(cred, op) /\ todo' = rest
      /\ OpFails => ~Permits(cred, op)
  <2> HIDE DEF op, rest
  <2> QED
    BY <1>1, NextOp
<1>3. Permits(cred, op)
  BY DEF Permits, Op, AtUnkeep, Keeping
<1>4. ASSUME ApplyOp PROVE Stage'
  <2>1. todo' = rest /\ start' = start /\ request' = request
    BY <1>2, <1>4 DEF ApplyOp
  <2>2. cred' = [cred EXCEPT !.secure = @ \ {"keep_caps"}]
    BY <1>2, <1>4 DEF AfterOp, Op
  <2>3. /\ cred'.permitted = cred.permitted /\ cred'.ambient = cred.ambient
        /\ cred'.uids = cred.uids /\ cred'.groups = cred.groups /\ cred'.gids = cred.gids
        /\ cred'.bounding = cred.bounding
    BY <2>2, UnderwayFacts DEF Credentials
  <2>4. KeepingLocked' = KeepingLocked /\ Locked'
    BY <2>1 DEF KeepingLocked, Locked, AtUnkeep
  <2>5. Switched'
    BY <2>1, <2>3, <2>4
       DEF AtUnkeep, Switched, Switching, GroupsSet, GidsSet, UidsSet
  <2> QED
    BY <2>1, <2>3, <2>5 DEF AtCaps, AtUnkeep, Stage
<1> QED
  BY <1>2, <1>3, <1>4

LEMMA CapsSteps ==
    ASSUME Underway, AtCaps
    PROVE  (ApplyOp => Stage') /\ ~OpFails
<1> DEFINE op == SetCaps(request.keep, request.keep)
           rest == Sealing
<1>1. op \in Operations /\ rest \in OpSeq /\ todo = Then(op, rest)
  BY UnderwayFacts, PlanOps, RestOps DEF AtCaps, Ending
<1>2. /\ ApplyOp => cred' = AfterOp(cred, op) /\ todo' = rest
      /\ OpFails => ~Permits(cred, op)
  <2> HIDE DEF op, rest
  <2> QED
    BY <1>1, NextOp
<1>3. Permits(cred, op)
  BY UnderwayFacts DEF Permits, Op, SetCaps, AtCaps
<1>4. ASSUME ApplyOp PROVE Stage'
  <2>1. todo' = rest /\ start' = start /\ request' = request
    BY <1>2, <1>4 DEF ApplyOp
  <2>2. cred' = [cred EXCEPT !.permitted = request.keep, !.effective = request.keep,
                             !.inheritable = {}, !.ambient = @ \cap request.keep \cap {}]
    BY <1>2, <1>4 DEF AfterOp, Op, SetCaps
  <2>3. /\ cred'.permitted = request.keep /\ cred'.effective = request.keep
        /\ cred'.inheritable = {} /\ cred'.ambient = {} /\ cred'.secure = cred.secure
        /\ cred'.uids = cred.uids /\ cred'.groups = cred.groups /\ cred'.gids = cred.gids
        /\ cred'.bounding = cred.bounding
    BY <2>2, UnderwayFacts DEF Credentials
  <2>4. KeepingLocked' = KeepingLocked /\ Contradicted' = Contradicted
    BY <2>1 DEF KeepingLocked, Contradicted
  <2>5. Switched'
    BY <2>1, <2>3, <2>4
       DEF AtCaps, Switched, Locked, Switching, GroupsSet, GidsSet, UidsSet
  <2> QED
    BY <2>1, <2>3, <2>5 DEF AtSealing, Reduced, Stage
<1> QED
  BY <1>2, <1>3, <1>4

LEMMA SealingSteps ==
    ASSUME Underway, AtSealing
    PROVE  (ApplyOp => Stage') /\ ~OpFails
<1> DEFINE op == Op("SetNoNewPrivs", TRUE)
<1>1. op \in Operations /\ Nil \in OpSeq /\ todo = Then(op, Nil)
  BY UnderwayFacts, PlanOps, ThenSplits DEF AtSealing, Sealing
<1>2. /\ ApplyOp => cred' = AfterOp(cred, op) /\ todo' = Nil
      /\ OpFails => ~Permits(cred, op)
  <2> HIDE DEF op
  <2> QED
    BY <1>1, NextOp
<1>3. Permits(cred, op)
  BY DEF Permits, Op
<1>4. ASSUME ApplyOp PROVE Stage'
  <2>1. todo' = Nil /\ start' = start /\ request' = request
    BY <1>2, <1>4 DEF ApplyOp
  <2>2. cred' = [cred EXCEPT !.noNewPrivs = TRUE]
    BY <1>2, <1>4 DEF AfterOp, Op
  <2>3. /\ cred'.permitted = cred.permitted /\ cred'.effective = cred.effective
        /\ cred'.inheritable = cred.inheritable /\ cred'.ambient = cred.ambient
        /\ cred'.secure = cred.secure /\ cred'.uids = cred.uids
        /\ cred'.groups = cred.groups /\ cred'.gids = cred.gids
        /\ cred'.bounding = cred.bounding /\ cred'.noNewPrivs
    BY <2>2, UnderwayFacts DEF Credentials
  <2>4. KeepingLocked' = KeepingLocked /\ Contradicted' = Contradicted
    BY <2>1 DEF KeepingLocked, Contradicted
  <2>5. Reduced'
    BY <2>1, <2>3, <2>4
       DEF AtSealing, Reduced, Switched, Locked, Switching, GroupsSet, GidsSet, UidsSet
  <2> QED
    BY <2>1, <2>3, <2>5 DEF AtEnd, Stage
<1> QED
  BY <1>2, <1>3, <1>4

\* At the end the verification accepts what there is, unless a set-user-ID start
\* was to stay as it is.
LEMMA EndVerifies ==
    ASSUME Underway, AtEnd
    PROVE  /\ ~Contradicted /\ ~KeepingLocked
           /\ Verified(cred) <=> ~StaysSetUid
<1>1. ~Contradicted /\ ~KeepingLocked
  BY DEF AtEnd, Reduced, Switched, Locked, Contradicted
<1>2. Switching => IdsOf(cred.gids) = {SwitchTo(start, request).gid}
                   /\ cred.groups = FinalGroups(SwitchTo(start, request))
                   /\ IdsOf(cred.uids) = {SwitchTo(start, request).uid}
  BY DEF AtEnd, Reduced, Switched, GroupsSet, GidsSet, UidsSet, AllEqual, IdsOf
<1>3. ~Switching => IdsOf(cred.uids) = {start.uids.real, start.uids.effective}
  BY DEF AtEnd, Reduced, Switched, Underway, Launched, IdsOf
<1>4. IdsOf(cred.uids) = {FinalUid(start, request)} <=> ~StaysSetUid
  BY <1>2, <1>3 DEF FinalUid, StaysSetUid, Switching
<1>5. /\ cred.effective = request.keep /\ cred.permitted = request.keep
      /\ cred.inheritable = {} /\ cred.ambient = {} /\ cred.noNewPrivs
      /\ HasSetpcap(start) => LockedSecureBits \subseteq cred.secure
      /\ HasSetpcap(start) => cred.bounding \subseteq request.keep
  BY DEF AtEnd, Reduced, Switched, Locked
<1> QED
  BY <1>1, <1>2, <1>4, <1>5 DEF Verified, Switching

\* An operation of the plan leads to the next stage, or fails for one of two reasons.
LEMMA StageSteps ==
    ASSUME Underway, Underway', Stage
    PROVE  (ApplyOp => Stage') /\ (OpFails => Contradicted \/ KeepingLocked)
<1>1. CASE AtEnd
  BY <1>1 DEF AtEnd, Nil, ApplyOp, OpFails
<1> QED
  BY <1>1, ClearSteps, RaiseSteps, BoundingSteps, BitsSteps, KeepSteps, GroupsSteps, GidSteps,
     UidSteps, UnkeepSteps, CapsSteps, SealingSteps
     DEF Stage

\* Nothing is left only at the end.
LEMMA OnlyTheEndIsEmpty ==
    ASSUME Underway, Stage, todo = <<>>
    PROVE  AtEnd
<1>1. /\ start \in Credentials /\ request \in RequestType
  BY UnderwayFacts
<1>2. ~AtClear /\ ~AtRaise /\ ~AtBounding /\ ~AtBits
  BY <1>1, PlanOps, RestOps, ThenSplits
     DEF AtClear, Whole, AtRaise, FromRaise, AtBounding, FromBounding, AtBits, FromBits
<1>3. ~AtKeep /\ ~AtGroups /\ ~AtGid
  BY <1>1, PlanOps, RestOps, ThenSplits
     DEF AtKeep, FromKeep, AtGroups, FromGroups, AtGid, FromGid, Switching
<1>4. ~AtUid
  <2> SUFFICES ASSUME AtUid PROVE FALSE
    OBVIOUS
  <2> DEFINE rest == IF HasSetpcap(start) THEN Ending(request) ELSE FromUnkeep(request)
  <2>1. rest \in OpSeq
    BY <1>1, RestOps
  <2>2. Op("SetResUid", SwitchTo(start, request).uid) \in Operations
    BY <1>1, PlanOps DEF AtUid, Switching
  <2>3. todo = Then(Op("SetResUid", SwitchTo(start, request).uid), rest)
    BY DEF AtUid, FromUid
  <2> HIDE DEF rest
  <2> QED
    BY <2>1, <2>2, <2>3, ThenSplits
<1>5. ~AtUnkeep /\ ~AtCaps /\ ~AtSealing
  BY <1>1, PlanOps, RestOps, ThenSplits
     DEF AtUnkeep, FromUnkeep, AtCaps, Ending, AtSealing, Sealing
<1> QED
  BY <1>2, <1>3, <1>4, <1>5 DEF Stage

LEMMA CausesNamed ==
    FailuresExplained <=>
        (pc \in {"done", "failed"} =>
           (pc = "failed" <=> Contradicted \/ KeepingLocked \/ StaysSetUid))
BY DEF FailuresExplained, Contradicted, KeepingLocked, StaysSetUid

LEMMA CausesNamedNext ==
    (FailuresExplained <=>
        (pc \in {"done", "failed"} =>
           (pc = "failed" <=> Contradicted \/ KeepingLocked \/ StaysSetUid)))'
BY CausesNamed, PTL

\* What is not refused and neither locked the other way nor a set-user-ID start that
\* stays as it is, the kernel carries out and the verification accepts; anything else
\* fails (plan, apply, verify).
THEOREM FailuresExplainedHolds == Spec => []FailuresExplained
<1>1. Init => Progress
  <2>1. Init => Launched /\ pc = "start"
    BY LaunchesAreLaunched DEF Init
  <2> QED
    BY <2>1 DEF Progress, FailuresExplained
<1>2. TypeOK /\ TypeOK' /\ PlannedFromStart /\ PlannedFromStart' /\ Progress /\ [Next]_vars
        => Progress'
  <2> SUFFICES ASSUME TypeOK, TypeOK', PlannedFromStart, PlannedFromStart', Progress,
                      Next \/ UNCHANGED vars
               PROVE  Progress'
    OBVIOUS
  <2>1. start' = start /\ request' = request
    BY DEF Next, Refuse, MakePlan, ApplyOp, OpFails, Verify, vars
  <2>2. Launched' /\ (Contradicted' = Contradicted) /\ (KeepingLocked' = KeepingLocked)
        /\ (StaysSetUid' = StaysSetUid)
    BY <2>1 DEF Progress, Launched, Contradicted, KeepingLocked, StaysSetUid
  <2>3. pc = "apply" => Underway /\ Stage
    BY DEF PlannedFromStart, Progress, Underway
  <2>4. pc' = "apply" => Underway'
    BY <2>2 DEF PlannedFromStart, Underway
  <2>5. CASE Refuse
    <3>1. pc' = "refused"
      BY <2>5 DEF Refuse
    <3> QED
      BY <2>2, <3>1 DEF Progress, FailuresExplained
  <2>6. CASE MakePlan
    <3>1. pc' = "apply" /\ cred' = cred /\ cred = start /\ todo' = Plan(cred, request)
      BY <2>6 DEF MakePlan, PlannedFromStart
    <3>2. start \in Credentials /\ request \in RequestType
      BY DEF TypeOK, RequestType
    <3>3. todo' = Whole(start, request)
      BY <3>1, <3>2, PlanUnfolds
    <3>4. AtClear'
      BY <2>1, <3>1, <3>3 DEF AtClear
    <3>5. FailuresExplained'
      BY <3>1 DEF FailuresExplained
    <3> QED
      BY <2>2, <3>4, <3>5 DEF Progress, Stage
  <2>7. CASE ApplyOp
    <3>1. pc = "apply" /\ pc' = "apply"
      BY <2>7 DEF ApplyOp
    <3>2. Stage'
      BY <2>3, <2>4, <2>7, <3>1, StageSteps
    <3>3. FailuresExplained'
      BY <3>1 DEF FailuresExplained
    <3> QED
      BY <2>2, <3>2, <3>3 DEF Progress
  <2>8. CASE OpFails
    <3>1. pc = "apply" /\ pc' = "failed"
      BY <2>8 DEF OpFails
    <3>2. Underway'
      BY <2>1, <2>2, <2>3, <3>1 DEF Underway
    <3>3. Contradicted \/ KeepingLocked
      BY <2>3, <2>8, <3>1, <3>2, StageSteps
    <3>4. FailuresExplained'
      BY <2>2, <3>1, <3>3, CausesNamedNext
    <3> QED
      BY <2>2, <3>1, <3>4 DEF Progress
  <2>9. CASE Verify
    <3>1. pc = "apply" /\ todo = <<>> /\ pc' = IF Verified(cred) THEN "done" ELSE "failed"
      BY <2>9 DEF Verify
    <3>2. /\ ~Contradicted /\ ~KeepingLocked
          /\ Verified(cred) <=> ~StaysSetUid
      BY <2>3, <3>1, OnlyTheEndIsEmpty, EndVerifies
    <3>3. FailuresExplained'
      BY <2>2, <3>1, <3>2, CausesNamedNext
    <3> QED
      BY <2>2, <3>1, <3>3 DEF Progress
  <2>10. CASE UNCHANGED vars
    <3>1. UNCHANGED <<cred, start, request, todo, pc>>
      BY <2>10 DEF vars
    <3>2. pc = "apply" => Stage'
      BY <2>3, <3>1
         DEF Stage, AtClear, AtRaise, AtBounding, AtBits, AtKeep, AtGroups, AtGid, AtUid, AtUnkeep,
             AtCaps, AtSealing, AtEnd, Equipped, Locked, Keeping, Switching, Switched, Reduced,
             GroupsSet, GidsSet, UidsSet, Contradicted, KeepingLocked
    <3>3. FailuresExplained'
      BY <2>2, <3>1, CausesNamed, CausesNamedNext DEF Progress
    <3> QED
      BY <2>2, <3>1, <3>2, <3>3 DEF Progress
  <2> QED
    BY <2>5, <2>6, <2>7, <2>8, <2>9, <2>10 DEF Next
<1> QED
  BY <1>1, <1>2, CredentialsTyped, PlannedFromStartHolds, PTL DEF Spec, Progress
=============================================================================
