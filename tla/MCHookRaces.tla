---------------------------- MODULE MCHookRaces ----------------------------
(***************************************************************************)
(* A small instance of HookRaces: two processes, which are alike.          *)
(***************************************************************************)
EXTENDS HookRaces, TLC

CONSTANTS p1, p2

MCProc     == {p1, p2}
MCSymmetry == Permutations(MCProc)

=============================================================================
