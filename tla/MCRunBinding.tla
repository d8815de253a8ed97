---------------------------- MODULE MCRunBinding ----------------------------
(***************************************************************************)
(* A small instance of RunBinding: two messages of one session.            *)
(***************************************************************************)
EXTENDS RunBinding

CONSTANTS main, s1, t1, t2

MCAgent     == {main}
MCSession   == {s1}
MCAgentOf   == [s \in MCSession |-> main]
MCTask      == {t1, t2}
MCSessionOf == [t \in MCTask |-> s1]

\* An operator resumes by id any record.
MCResumeAny == LiveStatus \cup {"archived"}

=============================================================================
