----------------------------- MODULE MCTimedWatch -----------------------------
(***************************************************************************)
(* Instances of TimedWatch for TLC.                                        *)
(***************************************************************************)
EXTENDS TimedWatch, TLC

CONSTANTS d1, d2

\* Directories are interchangeable: the first ones are the configured ones.
FirstTop == [t \in Tops |-> IF t = "static" THEN d1 ELSE d2]
McInit == TimedInit /\ top = FirstTop
McSpec == McInit /\ [][TimedNext]_tvars /\ TimedFairness

=============================================================================
