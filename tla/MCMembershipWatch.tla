-------------------------- MODULE MCMembershipWatch --------------------------
(***************************************************************************)
(* Instances of MembershipWatch for TLC.                                   *)
(***************************************************************************)
EXTENDS MembershipWatch, TLC

\* Directories, names and members are interchangeable.
Symmetry == Permutations(Dirs) \cup Permutations(Names) \cup Permutations(Members)

=============================================================================
