----------------------------- MODULE RunBinding -----------------------------
(***************************************************************************)
(* Which task a run of the host belongs to: the plugin (index.ts) binds a  *)
(* session to the task its latest message was registered as, and when the  *)
(* run ends finalizes the task it finds bound.  Composed with the store:   *)
(* every hook the plugin calls is an action of TaskLifecycle.              *)
(*                                                                         *)
(* A handler awaits its hooks, and the host waits for the tools of a run   *)
(* but not for the handlers of its outputs and of its end: a step is what  *)
(* a handler does between two awaits.  A message is named by the task id   *)
(* drawn for it.                                                           *)
(***************************************************************************)
EXTENDS TaskLifecycle

CONSTANTS
    NoTask,         \* no task at all
    MaxOthers       \* bound on what operators and the watchdog do meanwhile

Message == Task \ Planned
Handler == {"output", "tool", "end"}
Pending == "pending"

ASSUME NoTaskAssumption == /\ NoTask \notin Task /\ Pending \notin Task /\ NoTask # Pending
                           /\ MaxOthers \in Nat

VARIABLES
    stage,          \* how far the host is with a message
    decision,       \* the task its registration named, Pending before that
    bound,          \* activeTaskBindings: the task a session is bound to
    hushed,         \* sessions whose binding has mainUserContentMode = "none"
    silent,         \* tasks whose record holds a plan with that mode
    unwatched,      \* sessions whose task monitor is switched off
    pc, knows,      \* of a handler of a run: where it is, the task it holds
    planned,        \* messages whose run has called the planning tool
    overwritten,    \* messages whose binding a handler of another run has set
    forgotten,      \* messages whose binding a handler of another run has deleted
    disturbed,      \* messages whose task an operator or the watchdog moved
    revived,        \* sessions where somebody else started a task again
    unseen,         \* messages whose run the switched-off monitor hid
    others          \* interventions so far

binding == <<bound, hushed>>
calls   == <<pc, knows>>
history == <<planned, overwritten, forgotten, disturbed, revived, unseen, others>>
rvars   == <<vars, stage, decision, binding, silent, unwatched, calls, history>>

RunInit ==
    /\ Init
    /\ stage = [m \in Message |-> "unsent"]
    /\ decision = [m \in Message |-> Pending]
    /\ bound = [s \in Session |-> NoTask]
    /\ hushed = {} /\ silent = {} /\ unwatched \in SUBSET Session
    /\ pc = [m \in Message |-> [h \in Handler |-> "idle"]]
    /\ knows = [m \in Message |-> [h \in Handler |-> NoTask]]
    /\ planned = {} /\ overwritten = {} /\ forgotten = {}
    /\ disturbed = {} /\ revived = {} /\ unseen = {}
    /\ others = 0

KeepStore == UNCHANGED vars

SentIn(s) == {m \in Message : SessionOf[m] = s}
Active(s) == InSession(s, ACTIVE_STATUSES)

\* The other message of its session whose run the host is at.
Served(m) == {n \in SentIn(SessionOf[m]) \ {m} : stage[n] \in {"dispatched", "running"}}

\* find_latest_active_task: any of them may be the latest one updated.
LatestActive(s) == IF Active(s) = {} THEN {NoTask} ELSE Active(s)

\* Mutant: the task that was asked for is not looked up.
TargetsLatest(s, requested) == LatestActive(s)

\* _resolve_target_task: the requested task wherever it is in flight, else the
\* session's latest active one.
Targets(s, requested) ==
    IF requested # NoTask /\ inflight[requested] # "absent" THEN {requested} ELSE LatestActive(s)

-----------------------------------------------------------------------------
\* A message, from its arrival to the start of its run.

\* The register hook on a message, and the task its answer names: a new task, a
\* resumed or taken-over one, the waiting one a collecting window is for, none.
register(m, start, t) ==
    \/ t = m /\ RegisterNew(m, start)
    \/ t \in Task /\ SessionOf[t] = SessionOf[m] /\ (ResumeRecoverable(t) \/ TakeOverStaleObserved(t, start))
    \/ t \in InSession(SessionOf[m], {"queued", "received"}) /\ KeepStore
    \/ t = NoTask /\ KeepStore

\* A message arrives; the receive side of the host may register it at once.
Receive(m) ==
    /\ stage[m] = "unsent"
    /\ stage' = [stage EXCEPT ![m] = "waiting"]
    /\ \/ UNCHANGED decision /\ KeepStore
       \/ \E t \in Task \cup {NoTask}, start \in BOOLEAN :
             register(m, start, t) /\ decision' = [decision EXCEPT ![m] = t]
    /\ UNCHANGED <<binding, silent, unwatched, calls, history>>

\* Mutant: the new binding takes the mark of the old one over.
RebindMarked(s, t) ==
    IF t = NoTask THEN UNCHANGED binding
    ELSE bound' = [bound EXCEPT ![s] = t] /\ UNCHANGED hushed

\* A message registered as a task gives its session a new binding.
Rebind(s, t) ==
    IF t = NoTask THEN UNCHANGED binding
    ELSE bound' = [bound EXCEPT ![s] = t] /\ hushed' = hushed \ {s}

\* The host hands over one message or command of a session at a time.
Undisturbed(s) == \A n \in SentIn(s) : stage[n] \notin {"dispatched", "running"}

Dispatched(m) ==
    /\ stage[m] = "waiting"
    /\ Undisturbed(SessionOf[m])
    /\ stage' = [stage EXCEPT ![m] = "dispatched"]
    /\ UNCHANGED <<silent, unwatched, calls>>

\* A message that was registered when it arrived is not registered again.
before_dispatch(m) ==
    /\ Dispatched(m) /\ SessionOf[m] \notin unwatched
    /\ \/ decision[m] # Pending /\ UNCHANGED decision /\ KeepStore
       \/ /\ decision[m] = Pending
          /\ \E t \in Task \cup {NoTask} :
                register(m, FALSE, t) /\ decision' = [decision EXCEPT ![m] = t]
    /\ Rebind(SessionOf[m], decision'[m])
    /\ UNCHANGED history

\* With the monitor off a message is neither registered nor bound, though the
\* receive side may have registered it.
DispatchUnwatched(m) ==
    /\ Dispatched(m) /\ SessionOf[m] \in unwatched
    /\ decision' = IF decision[m] = Pending THEN [decision EXCEPT ![m] = NoTask] ELSE decision
    /\ unseen' = unseen \cup {m}
    /\ KeepStore
    /\ UNCHANGED <<binding, planned, overwritten, forgotten, disturbed, revived, others>>

\* The tasks activate-latest may work on: the bound one, or the session's latest.
Activated(s) ==
    LET live == ACTIVE_STATUSES \cup OBSERVED_STATUSES
    IN  IF bound[s] # NoTask /\ inflight[bound[s]] \in live THEN {bound[s]} ELSE InSession(s, live)

before_agent_start(m) ==
    /\ stage[m] = "dispatched"
    /\ stage' = [stage EXCEPT ![m] = "running"]
    /\ LET T == IF SessionOf[m] \in unwatched THEN {} ELSE Activated(SessionOf[m])
       IN  \/ \E t \in T : ActivateLatest(t)
           \/ (T = {} \/ \E t \in T : inflight[t] # "received") /\ KeepStore
    /\ UNCHANGED <<decision, binding, silent, unwatched, calls, history>>

-----------------------------------------------------------------------------
\* The handlers of a run.

Returns(m, h) ==
    /\ pc' = [pc EXCEPT ![m][h] = "idle"]
    /\ knows' = [knows EXCEPT ![m][h] = NoTask]

\* What a handler does as soon as it holds a binding: the tool puts its mark on
\* it and sets it again; an output that is suppressed or filtered ends here.
Holds(m, h, t, mark) ==
    /\ \/ /\ h # "output" \/ ~ mark
          /\ knows' = [knows EXCEPT ![m][h] = t]
          /\ pc' = [pc EXCEPT ![m][h] = IF h = "end" /\ mark THEN "call hushed" ELSE "call"]
       \/ h = "output" /\ Returns(m, h)
    /\ IF t = NoTask THEN UNCHANGED binding
       ELSE /\ bound' = [bound EXCEPT ![SessionOf[m]] = t]
            /\ hushed' = IF mark \/ h = "tool" THEN hushed \cup {SessionOf[m]} ELSE hushed \ {SessionOf[m]}

\* Mutant: the mark is not recovered from the record.
BindAs(t) == "bind"

\* The answer of resolve-active, on its way to the handler that awaits it.
BindMode(t) == IF t \in silent THEN "bind hushed" ELSE "bind"

\* ensureActiveTaskBinding: the binding there is, or what resolve-active says,
\* which is bound when the answer comes.
ensureActiveTaskBinding(m, h) ==
    LET s == SessionOf[m]
    IN  /\ pc[m][h] = "idle"
        /\ \/ bound[s] # NoTask /\ Holds(m, h, bound[s], s \in hushed)
           \/ bound[s] = NoTask /\ Active(s) = {} /\ Holds(m, h, NoTask, FALSE)
           \/ /\ bound[s] = NoTask
              /\ \E t \in Active(s) :
                    /\ knows' = [knows EXCEPT ![m][h] = t]
                    /\ pc' = [pc EXCEPT ![m][h] = BindMode(t)]
              /\ UNCHANGED binding
        /\ UNCHANGED <<vars, decision, silent, unwatched, overwritten, forgotten, disturbed, revived, unseen, others>>

Bind(m, h) ==
    /\ pc[m][h] \in {"bind", "bind hushed"}
    /\ Holds(m, h, knows[m][h], pc[m][h] = "bind hushed")
    /\ overwritten' = overwritten \cup Served(m) \cup
                          {n \in planned : n = m /\ h = "output" /\ pc[m][h] = "bind"}
    /\ UNCHANGED <<vars, stage, decision, silent, unwatched, planned, forgotten, disturbed, revived, unseen, others>>

\* The binding is deleted; whose it was is not asked.
Unbind(m) ==
    /\ bound' = [bound EXCEPT ![SessionOf[m]] = NoTask]
    /\ hushed' = hushed \ {SessionOf[m]}
    /\ forgotten' = forgotten \cup Served(m)

\* An output of the run, or its prompt, which only wants the binding: the text
\* is suppressed when the session is hushed, else reported as progress.
llm_output(m) ==
    /\ stage[m] = "running"
    /\ ensureActiveTaskBinding(m, "output")
    /\ UNCHANGED <<stage, planned>>

\* What an output of the run does after its binding: nothing, when the monitor
\* was found off before the hook was called.
OutputUnwatched(m) ==
    /\ pc[m]["output"] = "call" /\ SessionOf[m] \in unwatched
    /\ Returns(m, "output")
    /\ KeepStore
    /\ UNCHANGED <<stage, decision, binding, silent, unwatched, history>>

\* progress-active: a skipped finalization is made up for; a task that has
\* ended or is blocked clears what the plugin knows of the session.
progress_active(m) ==
    /\ pc[m]["output"] = "call"
    /\ ~ (SessionOf[m] \in unwatched /\ m \in unseen)
    /\ \E t \in Targets(SessionOf[m], knows[m]["output"]) :
          \/ t # NoTask /\ ProgressRepairsSkip(t) /\ Unbind(m)
          \/ /\ ~ (t \in skipped /\ inflight[t] = "running")
             /\ KeepStore
             /\ IF t # NoTask /\ inflight[t] = "blocked" THEN Unbind(m) ELSE UNCHANGED <<binding, forgotten>>
    /\ Returns(m, "output")
    /\ UNCHANGED <<stage, decision, silent, unwatched, planned, overwritten, disturbed, revived, unseen, others>>

\* The tool ts_create_followup_plan with main_user_content_mode "none".
ts_create_followup_plan(m) ==
    /\ stage[m] = "running"
    /\ ensureActiveTaskBinding(m, "tool")
    /\ planned' = planned \cup {m}
    /\ UNCHANGED stage

\* create-followup-plan writes the plan into the task the model named, if that
\* one is in flight.
create_followup_plan(m) ==
    /\ pc[m]["tool"] = "call"
    /\ \/ \E t \in InSession(SessionOf[m], LiveStatus) : silent' = silent \cup {t}
       \/ UNCHANGED silent
    /\ Returns(m, "tool")
    /\ KeepStore
    /\ UNCHANGED <<stage, decision, binding, unwatched, history>>

RunEnds(m) ==
    /\ stage[m] = "running" /\ pc[m]["tool"] = "idle"
    /\ stage' = [stage EXCEPT ![m] = "over"]

agent_end(m) ==
    /\ RunEnds(m) /\ SessionOf[m] \notin unwatched
    /\ ensureActiveTaskBinding(m, "end")
    /\ UNCHANGED planned

\* With the monitor off the end of a run is told to nobody.
EndUnwatched(m) ==
    /\ RunEnds(m) /\ SessionOf[m] \in unwatched
    /\ Unbind(m)
    /\ KeepStore
    /\ UNCHANGED <<decision, silent, unwatched, calls, planned, overwritten, disturbed, revived, unseen, others>>

\* Mutant: the end of a silent run is held back like its outputs.
FinalizeHeard(m) ==
    /\ pc[m]["end"] \in {"call", "call hushed"}
    /\ \E t \in Targets(SessionOf[m], knows[m]["end"]) :
          \/ (t = NoTask \/ pc[m]["end"] = "call hushed") /\ KeepStore
          \/ t # NoTask /\ pc[m]["end"] = "call" /\ (FinishActive(t) \/ FinalizeSkipped(t))
    /\ pc' = [pc EXCEPT ![m]["end"] = "forget"]
    /\ UNCHANGED <<stage, decision, binding, silent, unwatched, knows, history>>

\* A run that was told to be silent counts as one that was seen.
finalize_active(m) ==
    /\ pc[m]["end"] \in {"call", "call hushed"}
    /\ \E t \in Targets(SessionOf[m], knows[m]["end"]) :
          \/ t = NoTask /\ KeepStore
          \/ t # NoTask /\ FinishActive(t)
          \/ t # NoTask /\ pc[m]["end"] = "call" /\ FinalizeSkipped(t)
    /\ pc' = [pc EXCEPT ![m]["end"] = "forget"]
    /\ UNCHANGED <<stage, decision, binding, silent, unwatched, knows, history>>

\* The end of agent_end: whatever is bound by then is forgotten.
Forget(m) ==
    /\ pc[m]["end"] = "forget"
    /\ IF knows[m]["end"] # NoTask THEN Unbind(m) ELSE UNCHANGED <<binding, forgotten>>
    /\ Returns(m, "end")
    /\ KeepStore
    /\ UNCHANGED <<stage, decision, silent, unwatched, planned, overwritten, disturbed, revived, unseen, others>>

-----------------------------------------------------------------------------
\* Operators and the watchdog, which know nothing of runs, and the user's
\* /taskmonitor commands.

Intervenes ==
    \/ \E t \in Task : StopMainQueue(t) \/ CancelQueued(t) \/ BlockActive(t) \/ ResumeById(t)
    \/ Watchdog

\* Promotion is what the owner of a waiting task waits for: it moves nobody.
Moved == {t \in Task : inflight'[t] # inflight[t] /\ ~ (inflight[t] = "queued" /\ inflight'[t] = "running")}

Others ==
    /\ others < MaxOthers
    /\ others' = others + 1
    /\ Intervenes
    /\ disturbed' = disturbed \cup {m \in Message : decision[m] \in Moved}
    /\ revived' = revived \cup {SessionOf[t] : t \in {u \in Moved : inflight'[u] \in ACTIVE_STATUSES}}
    /\ UNCHANGED <<stage, decision, binding, silent, unwatched, calls, planned, overwritten, forgotten, unseen>>

\* taskmonitor-control; a session whose monitor goes off is bound to nothing.
TaskMonitorCommand(s) ==
    /\ others < MaxOthers
    /\ others' = others + 1
    /\ Undisturbed(s)
    /\ \/ /\ s \notin unwatched
          /\ unwatched' = unwatched \cup {s}
          /\ bound' = [bound EXCEPT ![s] = NoTask]
          /\ hushed' = hushed \ {s}
       \/ /\ s \in unwatched
          /\ unwatched' = unwatched \ {s}
          /\ UNCHANGED binding
    /\ KeepStore
    /\ UNCHANGED <<stage, decision, silent, calls, planned, overwritten, forgotten, disturbed, revived, unseen>>

RunStep(m) ==
    \/ Receive(m)
    \/ before_dispatch(m)
    \/ DispatchUnwatched(m)
    \/ before_agent_start(m)
    \/ llm_output(m)
    \/ OutputUnwatched(m)
    \/ progress_active(m)
    \/ ts_create_followup_plan(m)
    \/ create_followup_plan(m)
    \/ agent_end(m)
    \/ EndUnwatched(m)
    \/ finalize_active(m)
    \/ Forget(m)
    \/ \E h \in Handler : Bind(m, h)

RunNext ==
    \/ \E m \in Message : RunStep(m)
    \/ \E s \in Session : TaskMonitorCommand(s)
    \/ Others

RunSpec == RunInit /\ [][RunNext]_rvars

-----------------------------------------------------------------------------
\* Properties.

\* Whatever a registration answered, a session is bound to or a handler holds
\* is a task of that session, the pending answer being none of them.
Own(s) == {t \in Task : SessionOf[t] = s} \cup {NoTask}

BindingOK ==
    /\ stage \in [Message -> {"unsent", "waiting", "dispatched", "running", "over"}]
    /\ DOMAIN decision = Message /\ \A m \in Message : decision[m] \in Own(SessionOf[m]) \cup {Pending}
    /\ DOMAIN bound = Session /\ \A s \in Session : bound[s] \in Own(s)
    /\ pc \in [Message -> [Handler -> {"idle", "bind", "bind hushed", "call", "call hushed", "forget"}]]
    /\ knows \in [Message -> [Handler -> Task \cup {NoTask}]]
    /\ \A m \in Message, h \in Handler : knows[m][h] \in Own(SessionOf[m])
    /\ hushed \subseteq Session /\ silent \subseteq Task /\ unwatched \subseteq Session

RunTypeOK == TypeOK /\ BindingOK

\* A task that needs no run any more, or none at all.
Lost(t) == t = NoTask \/ inflight[t] \notin ACTIVE_STATUSES

\* The end of a run ends the task its message was registered as and no other
\* message's, though it finalizes whatever it finds bound or active.  Unless a
\* handler of another run took the binding away or replaced it, somebody else
\* moved the task, or the task was gone before the run ended.
EndsItsOwn ==
    [][\A m \in Message \ (disturbed \cup overwritten \cup forgotten) :
         pc[m]["end"] # "forget" /\ pc'[m]["end"] = "forget"
         => \A t \in Task : inflight[t] # "absent" /\ inflight'[t] = "absent"
               => t = decision[m] \/ Lost(decision[m])]_rvars

\* A task that holds the slot or waits has a message whose run is still to end
\* it, as nothing else ever would: some message was registered as it, and the
\* end of that run has not returned.  However the handlers of other runs crossed;
\* but for a run whose own binding another run's handler deleted or replaced, one
\* the switched-off monitor hid, a finalization skipped and a task somebody else
\* started again.
NothingLeftRunning ==
    \A t \in Task :
        inflight[t] \in ACTIVE_STATUSES /\ SessionOf[t] \notin revived /\ t \notin skipped
        => \E m \in Message :
              /\ decision[m] = t
              /\ \/ stage[m] # "over" \/ pc[m]["end"] # "idle"
                 \/ m \in overwritten \cup forgotten \cup unseen

\* The text of a run that was registered as a task is suppressed only when the
\* run asked for silence or its task's record does: a binding never carries the
\* plan of an earlier run over.  But when a late handler has deleted its binding
\* a run is bound to whatever its session works on, and heeds that task's plan.
AnswersAreNotSwallowed ==
    \A m \in Message \ (disturbed \cup overwritten \cup unseen) :
        stage[m] = "running" /\ SessionOf[m] \in hushed /\ decision[m] # NoTask
        => \/ m \in planned \/ decision[m] \in silent \/ Lost(decision[m])
           \/ m \in forgotten /\ bound[SessionOf[m]] \in silent

\* A run that asked for silence and has it in its task's record keeps it, even
\* when the end of an earlier run deleted its binding: no later output is let
\* through while the task is the only active one of its session.
PlannedRunStaysSilent ==
    [][\A m \in Message \ (disturbed \cup overwritten) :
         /\ pc[m]["output"] = "idle" /\ pc'[m]["output"] \in {"call", "bind"}
         /\ m \in planned /\ pc[m]["tool"] = "idle" /\ decision[m] \in silent
         => Active(SessionOf[m]) # {decision[m]}]_rvars

=============================================================================
