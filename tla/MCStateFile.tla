----------------------------- MODULE MCStateFile -----------------------------
(***************************************************************************)
(* Instances of StateFile for TLC.                                         *)
(***************************************************************************)
EXTENDS StateFile, TLC

CONSTANTS w1, w2, r1, empty, one, two, f1, f2, f3

MCWriters == {w1, w2}
MCReaders == {r1}
MCValues == {empty, one, two}
MCFiles == {f1, f2, f3}

\* Writers and files are interchangeable, and so are the two other states.
Symmetry ==
    Permutations(MCWriters) \cup Permutations(MCFiles) \cup Permutations({one, two})

=============================================================================
