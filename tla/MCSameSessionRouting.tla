------------------------ MODULE MCSameSessionRouting ------------------------
(***************************************************************************)
(* A small instance of SameSessionRouting: two sessions that compete for   *)
(* the agent's slot and share the poll, each with ids enough for every     *)
(* task its messages can become.                                           *)
(***************************************************************************)
EXTENDS SameSessionRouting

CONSTANTS s1, s2, t1, t2, t3, t4, t5, t6

MCSession   == {s1, s2}
MCTask      == {t1, t2, t3, t4, t5, t6}
MCSessionOf == [t \in MCTask |-> IF t \in {t1, t2, t3} THEN s1 ELSE s2]

\* Every way registration can go, and every signal.
MCText     == {{}, {"slash", "control"}, {"control"}, {"collect"}, {"probe", "collect"}, {"explicit"}}
MCAllTexts == MCText \cup {{"probe"}, {"independent"}, {"refinement"}}

=============================================================================
