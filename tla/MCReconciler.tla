---------------------------- MODULE MCReconciler ----------------------------
(* Small instances of Reconciler: two members of two groups, two targets. *)
EXTENDS Reconciler, TLC

CONSTANTS t1, t2, s1, s2, g1, g2, d1, d2, ro, nosuid

McGroupOf == 1 :> g1 @@ 2 :> g2

Want(s, t) == [source |-> s, target |-> t, attrs |-> {ro}]

\* Each member has its own target; or they have swapped them.
Plain == 1 :> Want(s1, t1) @@ 2 :> Want(s2, t2)
Swapped == 1 :> Want(s1, t2) @@ 2 :> Want(s2, t1)
\* Both claim the same target.
Collided == 1 :> Want(s1, t1) @@ 2 :> Want(s2, t1)
\* A member's restrictions are relaxed.
Relaxed == 1 :> [Want(s1, t1) EXCEPT !.attrs = {}] @@ 2 :> Want(s2, t2)

McConfigs == {Plain, Swapped, Collided, Relaxed}

\* No configuration names a directory, and at the start any source may be any of them:
\* which directory is which makes no difference.
McDirectories == Permutations({d1, d2})
=============================================================================
