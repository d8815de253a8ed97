------------------------ MODULE MCPlannedFollowups ------------------------
(***************************************************************************)
(* A small instance of PlannedFollowups: one message, whose task plans,    *)
(* and the ids of two follow-ups, in one session.                          *)
(***************************************************************************)
EXTENDS PlannedFollowups, TLC

CONSTANTS main, s1, t1, f1, f2

MCAgent     == {main}
MCSession   == {s1}
MCAgentOf   == [s \in MCSession |-> main]
MCTask      == {t1, f1, f2}
MCSessionOf == [t \in MCTask |-> s1]

MCFollowup  == {f1, f2}
MCSymmetry  == Permutations(MCFollowup)

=============================================================================
