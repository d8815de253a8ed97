------------------------- MODULE MCTaskLifecycle -------------------------
(***************************************************************************)
(* A small instance of TaskLifecycle: two sessions share the agent that    *)
(* main_ops manages, a third has an agent of its own and may be purged.    *)
(***************************************************************************)
EXTENDS TaskLifecycle

CONSTANTS main, other, s1, s2, s3, t1, t2, t3, t4

MCAgent   == {main, other}
MCSession == {s1, s2, s3}
MCAgentOf == [s \in MCSession |-> IF s = s3 THEN other ELSE main]

\* Two tasks in one session, one in each of the others.
MCTask      == {t1, t2, t3, t4}
MCSessionOf == [t \in MCTask |-> IF t = t4 THEN s3 ELSE IF t = t3 THEN s2 ELSE s1]

\* An operator resumes by id what is live and not running.
MCResumeLive == LiveStatus \ {"running"}

=============================================================================
