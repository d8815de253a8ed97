---------------------------- MODULE ExecutionSlot ----------------------------
(***************************************************************************)
(* What the task store promises about the execution slot of an agent, with *)
(* no statuses, archives or hooks: a task is out, waits or runs.  A task   *)
(* that asks runs at once when nobody does and waits otherwise; whenever   *)
(* tasks leave and nobody runs, the oldest that waits is started in the    *)
(* same step; nothing else starts a task that waits.  There are two        *)
(* exceptions: continuations that fall due start beside whoever runs, and  *)
(* the watchdog may set a task back, which then asks behind younger ones.  *)
(***************************************************************************)
EXTENDS Naturals

CONSTANTS
    Task,           \* tasks
    Owner           \* the agent of a task

VARIABLES
    place,          \* "out", "waiting" or "running"
    age,            \* the stamp the queue is ordered by
    extra,          \* tasks that were started beside
    setback         \* tasks that were set back

vars == <<place, age, extra, setback>>

Mates(t) == {u \in Task : Owner[u] = Owner[t]}

Free(f, t) == \A u \in Mates(t) : f[u] # "running"

Oldest(f, t) == f[t] = "waiting" /\ \A u \in Mates(t) : f[u] = "waiting" => age[t] <= age[u]

\* The places after the tasks of L have left and the slots were given on.
Left(f, L) ==
    LET gone == [t \in Task |-> IF t \in L THEN "out" ELSE f[t]]
    IN  [t \in Task |-> IF Free(gone, t) /\ Oldest(gone, t) THEN "running" ELSE gone[t]]

\* Whether g may be the places after the tasks of R have asked, in some order.
Asked(f, R, g) ==
    /\ \A t \in R : f[t] = "out" /\ g[t] \in {"waiting", "running"}
    /\ \A t \in Task \ R : g[t] = f[t]
    /\ \A t \in R : Free(f, t) <=> \E u \in R \cap Mates(t) : g[u] = "running"
    /\ \A t, u \in R : Owner[t] = Owner[u] /\ g[t] = "running" /\ g[u] = "running" => t = u

\* Only a task that is out gets another age.
Stamped == \A t \in Task : place[t] # "out" => age'[t] = age[t]

Init ==
    /\ place = [t \in Task |-> "out"]
    /\ age = [t \in Task |-> 0]
    /\ extra = {}
    /\ setback = {}

\* One hook: some tasks leave, then some ask; those that do both are set back.
Turn ==
    /\ setback \subseteq setback' /\ setback' \subseteq Task
    /\ \E L \in SUBSET {t \in Task : place[t] # "out"},
          R \in SUBSET {t \in Task : place'[t] # "out"} :
          L \cap R \subseteq setback' /\ Asked(Left(place, L), R, place')
    /\ age' \in [Task -> Nat] /\ Stamped
    /\ UNCHANGED extra

\* Continuations that fell due start, whoever runs.
StartBeside ==
    \E B \in SUBSET {t \in Task : place[t] = "out"} :
        /\ place' = [t \in Task |-> IF t \in B THEN "running" ELSE place[t]]
        /\ extra' = extra \cup B
        /\ UNCHANGED <<age, setback>>

Next == Turn \/ StartBeside

Spec == Init /\ [][Next]_vars

=============================================================================
