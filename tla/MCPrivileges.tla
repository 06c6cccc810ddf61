---------------------------- MODULE MCPrivileges ----------------------------
(* Root, the service user and another; a capability byssus never uses. *)
EXTENDS Privileges

McServiceUsers ==
    {[uid |-> 0, gid |-> 0, groups |-> {}], [uid |-> 1, gid |-> 1, groups |-> {2}]}

\* Securebits nobody set, locked as byssus locks them, and partly locked.
McSecureStarts ==
    {{}, LockedSecureBits, {"noroot", "noroot_locked"}, {"no_setuid_fixup_locked"},
     {"keep_caps_locked"}, {"no_setuid_fixup"}}
=============================================================================
