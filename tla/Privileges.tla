----------------------------- MODULE Privileges -----------------------------
(***************************************************************************)
(* How byssus brings itself to known credentials after it has read its     *)
(* configuration: src/src/privileges/plan.rs plans a sequence of           *)
(* operations, apply.rs runs them one by one and verifies the outcome, and *)
(* app.rs gives them what the command line and the configuration say.      *)
(*                                                                         *)
(* What an operation needs and does is the kernel's: capabilities(7),      *)
(* setresuid(2), prctl(2).  User ID 0 is root.  The process has one thread *)
(* here, and reading its own credentials does not fail.                    *)
(***************************************************************************)
EXTENDS Naturals, Sequences

CONSTANTS
    Caps,           \* capabilities
    Uids, Gids,     \* user and group IDs
    ServiceUsers,   \* users of the password file, as records of uid, gid and groups
    NoId,           \* no user or group ID
    UnknownUser,    \* the configured service user is not in the password file
    SecureStarts    \* securebits that a process may inherit

ASSUME PrivilegesAssumption ==
    /\ {"sys_admin", "setuid", "setgid", "setpcap"} \subseteq Caps
    /\ ServiceUsers \subseteq [uid : Uids, gid : Gids, groups : SUBSET Gids]
    /\ NoId \notin Uids \cup Gids
    /\ 0 \in Uids \cap Gids

VARIABLES
    cred,       \* the credentials of the process
    start,      \* those it was started with
    request,    \* what it needs, as asked for on the command line
    todo,       \* the operations still to be done
    pc

vars == <<cred, start, request, todo, pc>>

(***************************************************************************)
(* The process as it is after execve.                                      *)
(***************************************************************************)

\* KEEP_CAPS is no more than a bit among these.
SecureBits == {"noroot", "noroot_locked", "no_setuid_fixup", "no_setuid_fixup_locked",
               "keep_caps", "keep_caps_locked", "no_raise", "no_raise_locked"}

ASSUME SecureStartsAssumption == SecureStarts \subseteq SUBSET SecureBits

Uid3 == [real : Uids, effective : Uids, saved : Uids]
Gid3 == [real : Gids, effective : Gids, saved : Gids]
AllEqual(id) == [real |-> id, effective |-> id, saved |-> id]
IdsOf(ids) == {ids.real, ids.effective, ids.saved}

Credentials ==
    [uids : Uid3, gids : Gid3, groups : SUBSET Gids,
     permitted : SUBSET Caps, effective : SUBSET Caps, inheritable : SUBSET Caps,
     ambient : SUBSET Caps, bounding : SUBSET Caps,
     secure : SUBSET SecureBits, noNewPrivs : BOOLEAN]

\* execve saves the effective ID, clears KEEP_CAPS, and gives root the bounding
\* set unless NOROOT is set; others have what is ambient or what the file gives.
AfterExec(c) ==
    /\ c.uids.saved = c.uids.effective
    /\ c.ambient \subseteq c.inheritable \cap c.permitted
    /\ c.uids.real # c.uids.effective => c.ambient = {}
    /\ "noroot" \notin c.secure /\ 0 \in IdsOf(c.uids) =>
         /\ c.permitted = c.bounding \cup c.inheritable
         /\ c.uids.effective = 0 => c.effective = c.permitted

\* No rule depends on the groups at the start, so one group stands for them.
LaunchesWith(r, e, p, a) ==
    [uids : {[real |-> r, effective |-> e, saved |-> e]},
     gids : {AllEqual(CHOOSE g \in Gids : TRUE)}, groups : {{CHOOSE g \in Gids : TRUE}},
     permitted : {p}, effective : {p, a}, inheritable : {a, p},
     ambient : {a}, bounding : {p, Caps},
     secure : SecureStarts, noNewPrivs : BOOLEAN]

Launches ==
    {c \in UNION {LaunchesWith(r, e, p, a) :
                   r \in Uids, e \in Uids, p \in SUBSET Caps, a \in {{}, {"sys_admin"}}} :
        AfterExec(c)}

\* No service user is configured, or none is to be switched to.
NoUser == [uid |-> NoId, gid |-> NoId, groups |-> {}]

\* normalize_privileges asks for SYS_ADMIN; drop_to_service_user for nothing,
\* and root may stay root then.
Requests ==
    {r \in [keep : {{}, {"sys_admin"}}, user : ServiceUsers \cup {NoUser, UnknownUser},
            allowRoot : BOOLEAN] : r.keep = {} => r.allowRoot}

(***************************************************************************)
(* The plan.                                                               *)
(***************************************************************************)

AnyRoot(c) == 0 \in IdsOf(c.uids)

SwitchTo(c, r) == IF AnyRoot(c) /\ r.user # UnknownUser THEN r.user ELSE NoUser

\* Mutant of Refused: a service user that is root is taken.
RefusedIfMissing(c, r) ==
    \/ r.user = UnknownUser /\ AnyRoot(c)
    \/ ~(r.keep \subseteq c.permitted)
    \/ SwitchTo(c, r) = NoUser /\ AnyRoot(c) /\ r.keep # {} /\ ~r.allowRoot
    \/ SwitchTo(c, r) # NoUser /\ ~({"setuid", "setgid"} \subseteq c.permitted)

\* What normalize and plan do not even try.
Refused(c, r) ==
    \/ r.user = UnknownUser /\ AnyRoot(c)
    \/ ~(r.keep \subseteq c.permitted)
    \/ SwitchTo(c, r) # NoUser /\ SwitchTo(c, r).uid = 0
    \/ SwitchTo(c, r) = NoUser /\ AnyRoot(c) /\ r.keep # {} /\ ~r.allowRoot
    \/ SwitchTo(c, r) # NoUser /\ ~({"setuid", "setgid"} \subseteq c.permitted)

\* The operations of apply.
Operations ==
    [name : {"ClearAmbient", "SetKeepCaps", "SetNoNewPrivs"}, arg : BOOLEAN]
      \cup [name : {"SetCaps"},
            arg : [permitted : SUBSET Caps, effective : SUBSET Caps, inheritable : SUBSET Caps]]
      \cup [name : {"DropBoundingExcept"}, arg : SUBSET Caps]
      \cup [name : {"SetSecureBits"}, arg : SUBSET SecureBits]
      \cup [name : {"SetGroups"}, arg : SUBSET Gids]
      \cup [name : {"SetResGid"}, arg : Gids] \cup [name : {"SetResUid"}, arg : Uids]

Op(name, arg) == [name |-> name, arg |-> arg]

SetCaps(permitted, effective) ==
    Op("SetCaps", [permitted |-> permitted, effective |-> effective, inheritable |-> {}])

LockedSecureBits == SecureBits \ {"keep_caps"}

FinalGroups(user) == user.groups \cup {user.gid}

\* Mutant of HasSetpcap: what is only permitted is not seen.
HasSetpcapEffective(c) == "setpcap" \in c.effective

HasSetpcap(c) == "setpcap" \in c.permitted

\* Mutant of Needed: the switch is left to what is effective already.
NeededToLock(c, r) == IF HasSetpcap(c) THEN {"setpcap"} ELSE {}

\* What has to be effective along the way.
Needed(c, r) ==
    (IF HasSetpcap(c) THEN {"setpcap"} ELSE {})
      \cup (IF SwitchTo(c, r) # NoUser THEN {"setuid", "setgid"} ELSE {})

Raise(c, r) ==
    IF Needed(c, r) \subseteq c.effective THEN <<>>
    ELSE <<SetCaps(c.permitted, c.effective \cup Needed(c, r))>>

LockDown(c, r) ==
    IF HasSetpcap(c)
      THEN <<Op("DropBoundingExcept", r.keep), Op("SetSecureBits", LockedSecureBits)>>
      ELSE <<>>

SetIds(user) ==
    <<Op("SetGroups", FinalGroups(user)), Op("SetResGid", user.gid), Op("SetResUid", user.uid)>>

KeepingCaps(ops) == <<Op("SetKeepCaps", TRUE)>> \o ops \o <<Op("SetKeepCaps", FALSE)>>

\* With the securebits locked capabilities survive the change of user ID.
Switch(c, r) ==
    CASE SwitchTo(c, r) = NoUser -> <<>>
      [] SwitchTo(c, r) # NoUser /\ HasSetpcap(c) -> SetIds(SwitchTo(c, r))
      [] OTHER -> KeepingCaps(SetIds(SwitchTo(c, r)))

Plan(c, r) ==
    <<Op("ClearAmbient", TRUE)>> \o Raise(c, r) \o LockDown(c, r) \o Switch(c, r)
      \o <<SetCaps(r.keep, r.keep), Op("SetNoNewPrivs", TRUE)>>

FinalUid(c, r) ==
    IF SwitchTo(c, r) # NoUser THEN SwitchTo(c, r).uid ELSE c.uids.effective

(***************************************************************************)
(* The kernel: what it lets a process do, and what comes of it.            *)
(***************************************************************************)

\* Bits whose lock is set do not change, and no lock is taken off again.
Locks == [noroot |-> "noroot_locked", no_setuid_fixup |-> "no_setuid_fixup_locked",
          keep_caps |-> "keep_caps_locked", no_raise |-> "no_raise_locked"]

LockedBits(c) == {b \in DOMAIN Locks : Locks[b] \in c.secure}

Permits(c, op) ==
    CASE op.name = "SetCaps" ->
           op.arg.permitted \subseteq c.permitted /\ op.arg.effective \subseteq op.arg.permitted
      [] op.name = "DropBoundingExcept" ->
           c.bounding \subseteq op.arg \/ "setpcap" \in c.effective
      [] op.name = "SetSecureBits" ->
           "setpcap" \in c.effective /\ op.arg \cap LockedBits(c) \subseteq c.secure
      [] op.name = "SetKeepCaps" -> "keep_caps_locked" \notin c.secure
      [] op.name = "SetGroups" -> "setgid" \in c.effective
      [] op.name = "SetResGid" -> "setgid" \in c.effective \/ op.arg \in IdsOf(c.gids)
      [] op.name = "SetResUid" -> "setuid" \in c.effective \/ op.arg \in IdsOf(c.uids)
      [] OTHER -> TRUE

\* Capabilities go with the last user ID that is root, unless they are kept.
AfterSetResUid(c, uid) ==
    LET fixup  == "no_setuid_fixup" \notin c.secure
        leaves == fixup /\ AnyRoot(c) /\ uid # 0
        lost   == leaves /\ "keep_caps" \notin c.secure
        permitted == IF lost THEN {} ELSE c.permitted
    IN  [c EXCEPT !.uids = AllEqual(uid),
                  !.permitted = permitted,
                  !.ambient = IF leaves THEN {} ELSE c.ambient,
                  !.effective =
                     CASE fixup /\ c.uids.effective = 0 /\ uid # 0 -> {}
                       [] fixup /\ c.uids.effective # 0 /\ uid = 0 -> permitted
                       [] OTHER -> c.effective \cap permitted]

AfterOp(c, op) ==
    CASE op.name = "ClearAmbient" -> [c EXCEPT !.ambient = {}]
      [] op.name = "SetCaps" ->
           [c EXCEPT !.permitted = op.arg.permitted, !.effective = op.arg.effective,
                     !.inheritable = op.arg.inheritable,
                     !.ambient = @ \cap op.arg.permitted \cap op.arg.inheritable]
      [] op.name = "DropBoundingExcept" -> [c EXCEPT !.bounding = @ \cap op.arg]
      [] op.name = "SetSecureBits" -> [c EXCEPT !.secure = @ \cup op.arg]
      [] op.name = "SetKeepCaps" ->
           [c EXCEPT !.secure = IF op.arg THEN @ \cup {"keep_caps"} ELSE @ \ {"keep_caps"}]
      [] op.name = "SetGroups" -> [c EXCEPT !.groups = op.arg]
      [] op.name = "SetResGid" -> [c EXCEPT !.gids = AllEqual(op.arg)]
      [] op.name = "SetResUid" -> AfterSetResUid(c, op.arg)
      [] op.name = "SetNoNewPrivs" -> [c EXCEPT !.noNewPrivs = TRUE]

(***************************************************************************)
(* The process.                                                            *)
(***************************************************************************)

Init ==
    /\ cred \in Launches
    /\ start = cred
    /\ request \in Requests
    /\ todo = <<>>
    /\ pc = "start"

Refuse ==
    /\ pc = "start" /\ Refused(cred, request)
    /\ pc' = "refused"
    /\ UNCHANGED <<cred, start, request, todo>>

MakePlan ==
    /\ pc = "start" /\ ~Refused(cred, request)
    /\ todo' = Plan(cred, request)
    /\ pc' = "apply"
    /\ UNCHANGED <<cred, start, request>>

ApplyOp ==
    /\ pc = "apply" /\ todo # <<>>
    /\ Permits(cred, Head(todo))
    /\ cred' = AfterOp(cred, Head(todo))
    /\ todo' = Tail(todo)
    /\ UNCHANGED <<start, request, pc>>

OpFails ==
    /\ pc = "apply" /\ todo # <<>>
    /\ ~Permits(cred, Head(todo))
    /\ pc' = "failed"
    /\ UNCHANGED <<cred, start, request, todo>>

Verified(c) ==
    LET user == SwitchTo(start, request)
    IN  /\ user # NoUser => IdsOf(c.gids) = {user.gid} /\ c.groups = FinalGroups(user)
        /\ IdsOf(c.uids) = {FinalUid(start, request)}
        /\ c.effective = request.keep /\ c.permitted = request.keep
        /\ c.inheritable = {} /\ c.ambient = {} /\ c.noNewPrivs
        /\ HasSetpcap(start) => LockedSecureBits \subseteq c.secure
        /\ HasSetpcap(start) => c.bounding \subseteq request.keep

Verify ==
    /\ pc = "apply" /\ todo = <<>>
    /\ pc' = IF Verified(cred) THEN "done" ELSE "failed"
    /\ UNCHANGED <<cred, start, request, todo>>

Next == Refuse \/ MakePlan \/ ApplyOp \/ OpFails \/ Verify

Spec == Init /\ [][Next]_vars

(***************************************************************************)
(* Properties.                                                             *)
(***************************************************************************)

\* The types of the variables.
TypeOK ==
    /\ cred \in Credentials /\ start \in Credentials
    /\ request \in [keep : SUBSET Caps, user : ServiceUsers \cup {NoUser, UnknownUser},
                    allowRoot : BOOLEAN]
    /\ todo \in Seq(Operations)
    /\ pc \in {"start", "apply", "refused", "failed", "done"}

\* An operation is planned only where the ones before it have left the right to
\* it: what the plan does not refuse, the kernel carries out and the verification
\* accepts, save in three launches that no order of operations helps: securebits
\* already locked the other way, KEEP_CAPS locked where the switch needs it, and
\* a set-user-ID start that stays as it is.
FailuresExplained ==
    pc \in {"done", "failed"} =>
        (pc = "failed" <=>
            \/ HasSetpcap(start) /\ ~(LockedSecureBits \cap LockedBits(start) \subseteq start.secure)
            \/ /\ ~HasSetpcap(start) /\ SwitchTo(start, request) # NoUser
               /\ "keep_caps_locked" \in start.secure
            \/ SwitchTo(start, request) = NoUser /\ start.uids.real # start.uids.effective)

\* A mounting process is root only where that was asked for, and a process that
\* was root in any respect ends up as all of the service user and as nothing else.
NotRootByAccident ==
    pc = "done" =>
        /\ request.keep # {} /\ AnyRoot(cred) => request.allowRoot /\ request.user = NoUser
        /\ AnyRoot(start) /\ request.user # NoUser =>
             /\ ~AnyRoot(cred)
             /\ IdsOf(cred.uids) = {request.user.uid}
             /\ IdsOf(cred.gids) = {request.user.gid}
             /\ cred.groups = request.user.groups \cup {request.user.gid}

\* A process that could lock itself down has: it holds what it keeps and nothing
\* it could raise, and no later change of user ID or execve gives more.
LockedDown ==
    pc = "done" =>
        /\ cred.permitted \cup cred.effective \cup cred.inheritable \cup cred.ambient
             = request.keep
        /\ cred.noNewPrivs
        /\ "setpcap" \in start.permitted =>
             /\ cred.bounding \subseteq request.keep
             /\ LockedSecureBits \subseteq cred.secure

=============================================================================
