--------------------------- MODULE PlannedFollowups ---------------------------
(***************************************************************************)
(* Promises and their follow-ups (openclaw_hooks.py): while it works on a  *)
(* task the model arms a promise guard, records a follow-up plan, has the  *)
(* plan made into a paused task and closes the guard; when the task ends   *)
(* well, an open promise is flagged; when the follow-up is due, the        *)
(* plugin's runner sends the reply, unless the agent has said it.          *)
(*                                                                         *)
(* Composed with the store: the planning hooks change the metadata of      *)
(* their source task, and all else is done by actions of TaskLifecycle.    *)
(***************************************************************************)
EXTENDS TaskLifecycle

CONSTANTS
    NoTask,         \* no task at all
    Source,         \* the tasks the model plans for
    MaxPlans,       \* bound on the plans made for a task
    MaxOthers       \* bound on what operators, users and the watchdog do meanwhile

ASSUME PlanAssumption ==
    /\ NoTask \notin Task /\ Source \subseteq Task \ Planned
    /\ MaxPlans \in Nat /\ MaxOthers \in Nat

VARIABLES
    guard,          \* status of a task's planning_promise_guard
    plan,           \* status of its tool_followup_plan
    link,           \* followup_task_id of the plan
    anomaly,        \* tasks with planning_anomaly = "promise-without-task"
    sent,           \* claims whose reply the runner has sent, not yet reported
    number,         \* how many plans a task has had
    origin,         \* the task and the number of the plan a follow-up was made for
    heard,          \* how often the user read a follow-up's reply, up to twice
    astray,         \* follow-ups that were ended, revived or repeated by others
    verified,       \* planned-for tasks whose last end checked their promise
    others          \* interventions so far

meta    == <<guard, plan, link, anomaly>>
history == <<number, origin, heard, astray, verified, others>>
pvars   == <<vars, meta, sent, history>>

PlanInit ==
    /\ Init
    /\ guard = [s \in Source |-> "none"]
    /\ plan = [s \in Source |-> "none"]
    /\ link = [s \in Source |-> NoTask]
    /\ anomaly = {}
    /\ sent = {}
    /\ number = [s \in Source |-> 0]
    /\ origin = [f \in Planned |-> <<NoTask, 0>>]
    /\ heard = [f \in Planned |-> 0]
    /\ astray = {} /\ verified = {}
    /\ others = 0

\* The hooks of the planning tools load their source task from inflight/ only.
InFlight(t) == t # NoTask /\ inflight[t] # "absent"

-----------------------------------------------------------------------------
\* The planning tools.

attach_promise_guard(s) ==
    /\ InFlight(s)
    /\ guard' = [guard EXCEPT ![s] = "armed"]
    /\ UNCHANGED <<vars, plan, link, anomaly, sent, history>>

\* Mutant: the new plan inherits the follow-up of the old one.
create_followup_planInherits(s) ==
    /\ InFlight(s) /\ number[s] < MaxPlans
    /\ plan' = [plan EXCEPT ![s] = "planned"]
    /\ number' = [number EXCEPT ![s] = @ + 1]
    /\ UNCHANGED <<vars, guard, link, anomaly, sent, origin, heard, astray, verified, others>>

\* A new plan takes the place of the old one, follow-up and all.
create_followup_plan(s) ==
    /\ InFlight(s) /\ number[s] < MaxPlans
    /\ plan' = [plan EXCEPT ![s] = "planned"]
    /\ link' = [link EXCEPT ![s] = NoTask]
    /\ number' = [number EXCEPT ![s] = @ + 1]
    /\ UNCHANGED <<vars, guard, anomaly, sent, origin, heard, astray, verified, others>>

\* Mutant: the plan is not told its follow-up.
schedule_followupUnlinked(s, f, when) ==
    /\ plan[s] # "none" /\ ~ InFlight(link[s])
    /\ ScheduleFollowup(s, f, when)
    /\ plan' = [plan EXCEPT ![s] = "scheduled"]
    /\ guard' = IF guard[s] = "none" THEN guard ELSE [guard EXCEPT ![s] = "scheduled"]
    /\ origin' = [origin EXCEPT ![f] = <<s, number[s]>>]
    /\ astray' = IF link[s] = NoTask \/ InFlight(link[s]) THEN astray ELSE astray \cup {f}
    /\ UNCHANGED <<link, anomaly, sent, number, heard, verified, others>>

\* The plan is made into a task of its own, unless it has one in flight.
schedule_followup_from_plan(s, f, when) ==
    /\ plan[s] # "none" /\ ~ InFlight(link[s])
    /\ ScheduleFollowup(s, f, when)
    /\ plan' = [plan EXCEPT ![s] = "scheduled"]
    /\ link' = [link EXCEPT ![s] = f]
    /\ guard' = IF guard[s] = "none" THEN guard ELSE [guard EXCEPT ![s] = "scheduled"]
    /\ origin' = [origin EXCEPT ![f] = <<s, number[s]>>]
    /\ astray' = IF link[s] = NoTask \/ InFlight(link[s]) THEN astray ELSE astray \cup {f}
    /\ UNCHANGED <<anomaly, sent, number, heard, verified, others>>

\* The follow-up is looked for in flight: one that was delivered is missed too.
finalize_planned_followup(s) ==
    /\ InFlight(s) /\ plan[s] # "none"
    /\ LET outcome == IF InFlight(link[s]) THEN "fulfilled" ELSE "anomaly"
       IN  /\ plan' = [plan EXCEPT ![s] = outcome]
           /\ guard' = IF guard[s] = "none" THEN guard ELSE [guard EXCEPT ![s] = outcome]
           /\ anomaly' = IF outcome = "anomaly" THEN anomaly \cup {s} ELSE anomaly
    /\ UNCHANGED <<vars, link, sent, history>>

-----------------------------------------------------------------------------
\* The end of a task.

\* Mutant: a plan is taken for a follow-up.
_maybe_mark_promise_without_plan(t) ==
    IF t \in Source /\ guard[t] # "none" /\ plan[t] = "none"
    THEN guard' = [guard EXCEPT ![t] = "anomaly"] /\ anomaly' = anomaly \cup {t}
    ELSE UNCHANGED <<guard, anomaly>>

_maybe_mark_promise_without_task(t) ==
    IF t \in Source /\ guard[t] # "none" /\ link[t] = NoTask
    THEN guard' = [guard EXCEPT ![t] = "anomaly"] /\ anomaly' = anomaly \cup {t}
    ELSE UNCHANGED <<guard, anomaly>>

Ended   == {t \in Task : inflight[t] # "absent" /\ inflight'[t] = "absent"}
Revived == {t \in Task : inflight[t] = "absent" /\ t \in archived /\ inflight'[t] # "absent"}

\* finalize-active after a success that was seen.
finalize_active(t) ==
    /\ FinishActive(t)
    /\ _maybe_mark_promise_without_task(t)
    /\ verified' = verified \cup ({t} \cap Source)
    /\ astray' = astray \cup (Ended \cap Planned)
    /\ UNCHANGED <<plan, link, sent, number, origin, heard, others>>

\* The way of a message through the store; the end of a run that failed checks
\* no promise, nor does the one a progress report makes up for.
Elsewhere(t) ==
    \/ \E start \in BOOLEAN : RegisterNew(t, start)
    \/ ActivateLatest(t) \/ BlockActive(t)
    \/ FinishActive(t) \/ FinalizeSkipped(t) \/ ProgressRepairsSkip(t)
    \/ FallsDue(t)

\* Operators, later messages of the user, and the watchdog.
Intervenes(t) ==
    \/ ResumeRecoverable(t) \/ ResumeById(t) \/ MergeWindow(t)
    \/ CancelQueued(t) \/ StopMainQueue(t)
    \/ \E start \in BOOLEAN : TakeOverStaleObserved(t, start)

Others ==
    /\ \/ UNCHANGED others /\ \E t \in Task : Elsewhere(t)
       \/ UNCHANGED others /\ ClaimDueContinuations
       \/ /\ others < MaxOthers /\ others' = others + 1
          /\ \/ \E t \in Task : Intervenes(t)
             \/ \E stopped \in SUBSET Task : StopAllMainQueue(stopped)
             \/ Watchdog
    /\ sent' = sent \cap delivering'
    /\ verified' = verified \ (Ended \cup Revived)
    /\ astray' = astray \cup ((Ended \cup Revived) \cap Planned) \cup (sent \ delivering')
    /\ UNCHANGED <<meta, number, origin, heard>>

-----------------------------------------------------------------------------
\* The reply.

Hears(f) == heard' = [heard EXCEPT ![f] = IF @ = 2 THEN 2 ELSE @ + 1]

\* The channel's adapter sends the reply of a claimed continuation.
SendReply(f) ==
    /\ f \in delivering \ sent
    /\ sent' = sent \cup {f}
    /\ Hears(f)
    /\ UNCHANGED <<vars, meta, number, origin, astray, verified, others>>

ReportsSent(f) ==
    /\ f \in sent /\ DeliverySucceeds(f)
    /\ sent' = sent \ {f}
    /\ UNCHANGED <<meta, history>>

\* The send failed, or was given up, though the reply may have got through.
ReportsFailure(f) ==
    /\ DeliveryFails(f)
    /\ sent' = sent \ {f}
    /\ astray' = astray \cup (sent \cap {f})
    /\ UNCHANGED <<meta, number, origin, heard, verified, others>>

\* The plugin dies before its report, or the hook does.
ReportsNothing(f) ==
    /\ DeliveryUnreported(f)
    /\ sent' = sent \ {f}
    /\ astray' = astray \cup (sent \cap {f})
    /\ UNCHANGED <<meta, number, origin, heard, verified, others>>

\* Mutant: the task is touched and left as it is.
SayReplyTouched(f) ==
    /\ f \in Planned /\ inflight[f] \in {"paused", "running"} /\ due[f] = "past"
    /\ Hears(f)
    /\ UNCHANGED <<vars, meta, sent, number, origin, verified, astray, others>>

\* The agent's own output contains the reply, maybe while the runner sends it.
SayReply(f) ==
    /\ f \in Planned /\ FulfillDueContinuation(f)
    /\ Hears(f)
    /\ astray' = IF f \in delivering THEN astray \cup {f} ELSE astray
    /\ UNCHANGED <<meta, sent, number, origin, verified, others>>

PlanNext ==
    \/ \E s \in Source :
          \/ attach_promise_guard(s)
          \/ create_followup_plan(s)
          \/ \E f \in Planned, when \in {"future", "past"} : schedule_followup_from_plan(s, f, when)
          \/ finalize_planned_followup(s)
    \/ \E t \in Task : finalize_active(t)
    \/ \E f \in Planned :
          \/ SendReply(f) \/ ReportsSent(f) \/ ReportsFailure(f) \/ ReportsNothing(f)
          \/ SayReply(f)
    \/ Others

PlanSpec == PlanInit /\ [][PlanNext]_pvars

-----------------------------------------------------------------------------
\* Properties.

PlanStatus == {"none", "planned", "scheduled", "fulfilled", "anomaly"}

\* Every record of a plan has a shape the hooks give it; a plan's follow-up is a
\* task that was made for this very plan, wherever that task is by now.
PlanTypeOK ==
    /\ TypeOK
    /\ guard \in [Source -> {"none", "armed", "scheduled", "fulfilled", "anomaly"}]
    /\ plan \in [Source -> PlanStatus]
    /\ link \in [Source -> Planned \cup {NoTask}]
    /\ anomaly \subseteq Source /\ sent \subseteq delivering
    /\ number \in [Source -> 0..MaxPlans]
    /\ \A s \in Source : link[s] # NoTask =>
          origin[link[s]] = <<s, number[s]>> /\ Stored(link[s]) # "absent"

\* A task that ended well with a promise open is flagged, or the promise has a
\* follow-up that is alive, or was heard, or that somebody else has ended.
PromiseKeptOrFlagged ==
    \A s \in verified \ anomaly :
        guard[s] # "none" =>
            /\ link[s] # NoTask
            /\ InFlight(link[s]) \/ heard[link[s]] > 0 \/ link[s] \in astray

\* The user reads the reply of a plan once: not again because the tool was
\* called twice, the runner polled twice or the agent said it by itself.
\* Excused are a follow-up made anew after the first was gone, one the agent
\* spoke of while it was on its way, a report that was wrong or lost, and what
\* somebody else revived.
ReplyHeardOnce ==
    \A f, g \in Planned :
        /\ origin[f] = origin[g] /\ heard[f] > 0 /\ heard[g] > 0
        /\ f \notin astray /\ g \notin astray
        => f = g /\ heard[f] = 1

\* A promise is never called broken while the follow-up of its plan waits,
\* works or is blocked, however often the tools were called before.
NoFalseAlarm ==
    [][\A s \in Source :
          s \in anomaly' \ anomaly =>
              \A f \in Planned : InFlight(f) /\ f \notin astray => origin[f] # <<s, number[s]>>]_pvars

=============================================================================
