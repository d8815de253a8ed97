-------------------------- MODULE RunBindingProofs --------------------------
(***************************************************************************)
(* Proofs about RunBinding for any number of messages, tasks and           *)
(* interventions.  The runs of the host do to the store nothing but what   *)
(* its hooks do, so that what is proved of the store holds with them; a    *)
(* run ends its own task, no task is left running with no run to end it,   *)
(* and the silence a plan asks for is kept, and not spread to other runs.  *)
(***************************************************************************)
EXTENDS RunBinding, TaskLifecycleProofs

\* A hook for a task is a step of the store.
LEMMA HookIsAStep ==
    ASSUME NEW t \in Task, TaskStep(t)
    PROVE  [Next]_vars
  BY DEF Next

\* Whatever the register hook answers, the store took one step or none.
LEMMA RegisterIsAStep ==
    ASSUME NEW m \in Message, NEW start \in BOOLEAN, NEW t \in Task \cup {NoTask},
           register(m, start, t)
    PROVE  [Next]_vars
<1>1. m \in Task
    BY DEF Message
<1>2. CASE RegisterNew(m, start)
    BY <1>1, <1>2, HookIsAStep DEF TaskStep
<1>3. CASE t \in Task /\ (ResumeRecoverable(t) \/ TakeOverStaleObserved(t, start))
    BY <1>3, HookIsAStep DEF TaskStep
<1>4. CASE KeepStore
    BY <1>4 DEF KeepStore
<1> QED
    BY <1>2, <1>3, <1>4 DEF register

-----------------------------------------------------------------------------
\* What the plugin knows stays within the session.

LEMMA OwnMessages == \A m \in Message : m \in Task /\ SessionOf[m] \in Session
  BY TaskAssumption DEF Message

LEMMA OwnActives == \A s \in Session : Active(s) \subseteq Own(s) \ {NoTask}
  BY NoTaskAssumption DEF Active, InSession, Own

LEMMA RegisterAnswersOwn ==
    ASSUME NEW m \in Message, NEW start \in BOOLEAN, NEW t, register(m, start, t)
    PROVE  t \in Own(SessionOf[m])
  BY OwnMessages DEF register, InSession, Own

\* What a handler does with a binding leaves the types alone.
LEMMA HoldsTyped ==
    ASSUME BindingOK, NEW m \in Message, NEW h \in Handler, NEW t \in Own(SessionOf[m]),
           NEW mark, Holds(m, h, t, mark), stage' = stage \/ stage' = [stage EXCEPT ![m] = "over"],
           UNCHANGED <<decision, silent, unwatched>>
    PROVE  BindingOK'
<1>1. SessionOf[m] \in Session
    BY OwnMessages
<1>2. t \in Task \cup {NoTask} /\ NoTask \in Own(SessionOf[m])
    BY DEF Own
<1>3. pc' \in [Message -> [Handler -> {"idle", "bind", "bind hushed", "call", "call hushed", "forget"}]]
  <2>1. \/ pc' = [pc EXCEPT ![m][h] = "idle"]
        \/ pc' = [pc EXCEPT ![m][h] = IF h = "end" /\ mark THEN "call hushed" ELSE "call"]
      BY Zenon DEF Holds, Returns
  <2>2. (IF h = "end" /\ mark THEN "call hushed" ELSE "call") \in {"call", "call hushed"}
      BY Zenon
  <2>3. PICK v \in {"idle", "call", "call hushed"} : pc' = [pc EXCEPT ![m][h] = v]
      BY <2>1, <2>2, Zenon
  <2> QED
      BY <2>3 DEF BindingOK
<1>4. /\ knows' \in [Message -> [Handler -> Task \cup {NoTask}]]
      /\ \A n \in Message, g \in Handler : knows'[n][g] \in Own(SessionOf[n])
  <2>1. knows' = [knows EXCEPT ![m][h] = NoTask] \/ knows' = [knows EXCEPT ![m][h] = t]
      BY Zenon DEF Holds, Returns
  <2>2. PICK u \in Own(SessionOf[m]) : u \in Task \cup {NoTask} /\ knows' = [knows EXCEPT ![m][h] = u]
      BY <1>2, <2>1, Zenon DEF Own
  <2> QED
      BY <2>2 DEF BindingOK
<1>5. DOMAIN bound' = Session /\ (\A s \in Session : bound'[s] \in Own(s)) /\ hushed' \subseteq Session
  <2>1. \/ UNCHANGED binding
        \/ /\ bound' = [bound EXCEPT ![SessionOf[m]] = t]
           /\ hushed' = hushed \cup {SessionOf[m]} \/ hushed' = hushed \ {SessionOf[m]}
      BY Zenon DEF Holds
  <2> QED
      BY <1>1, <2>1 DEF BindingOK, binding
<1>6. stage' \in [Message -> {"unsent", "waiting", "dispatched", "running", "over"}]
    BY DEF BindingOK
<1> QED
    BY <1>3, <1>4, <1>5, <1>6 DEF BindingOK, Own

LEMMA EnsureTyped ==
    ASSUME BindingOK, NEW m \in Message, NEW h \in Handler, ensureActiveTaskBinding(m, h),
           stage' = stage \/ stage' = [stage EXCEPT ![m] = "over"]
    PROVE  BindingOK'
<1>0. SessionOf[m] \in Session /\ bound[SessionOf[m]] \in Own(SessionOf[m]) /\ NoTask \in Own(SessionOf[m])
    BY OwnMessages DEF BindingOK, Own
<1>1. CASE Holds(m, h, bound[SessionOf[m]], SessionOf[m] \in hushed)
    BY <1>0, <1>1, HoldsTyped DEF ensureActiveTaskBinding
<1>2. CASE Holds(m, h, NoTask, FALSE)
    BY <1>0, <1>2, HoldsTyped DEF ensureActiveTaskBinding
<1>3. ASSUME NEW t \in Active(SessionOf[m]),
             knows' = [knows EXCEPT ![m][h] = t], pc' = [pc EXCEPT ![m][h] = BindMode(t)], UNCHANGED binding
      PROVE  BindingOK'
  <2>1. t \in Own(SessionOf[m]) /\ t \in Task \cup {NoTask}
      BY <1>0, OwnActives DEF Own
  <2>2. pc' \in [Message -> [Handler -> {"idle", "bind", "bind hushed", "call", "call hushed", "forget"}]]
      BY <1>3 DEF BindingOK, BindMode
  <2>3. /\ knows' \in [Message -> [Handler -> Task \cup {NoTask}]]
        /\ \A n \in Message, g \in Handler : knows'[n][g] \in Own(SessionOf[n])
      BY <1>3, <2>1 DEF BindingOK
  <2>4. stage' \in [Message -> {"unsent", "waiting", "dispatched", "running", "over"}]
      BY DEF BindingOK
  <2> QED
      BY <1>3, <2>2, <2>3, <2>4 DEF BindingOK, ensureActiveTaskBinding, binding, Own
<1> QED
    BY <1>1, <1>2, <1>3 DEF ensureActiveTaskBinding

LEMMA ReturnsTyped ==
    ASSUME BindingOK, NEW m \in Message, NEW h \in Handler, Returns(m, h)
    PROVE  /\ pc' \in [Message -> [Handler -> {"idle", "bind", "bind hushed", "call", "call hushed", "forget"}]]
           /\ knows' \in [Message -> [Handler -> Task \cup {NoTask}]]
           /\ \A n \in Message, g \in Handler : knows'[n][g] \in Own(SessionOf[n])
<1>1. NoTask \in Own(SessionOf[m])
    BY DEF Own
<1> QED
    BY <1>1 DEF BindingOK, Returns

LEMMA UnbindTyped ==
    ASSUME BindingOK, NEW m \in Message, Unbind(m) \/ UNCHANGED binding
    PROVE  DOMAIN bound' = Session /\ (\A s \in Session : bound'[s] \in Own(s)) /\ hushed' \subseteq Session
<1>1. SessionOf[m] \in Session /\ \A s \in Session : NoTask \in Own(s)
    BY OwnMessages DEF Own
<1>2. CASE Unbind(m)
    BY <1>1, <1>2 DEF BindingOK, Unbind
<1>3. CASE UNCHANGED binding
    BY <1>3 DEF BindingOK, binding
<1> QED
    BY <1>2, <1>3

LEMMA RunStepTyped ==
    ASSUME BindingOK, NEW m \in Message, RunStep(m)
    PROVE  BindingOK'
<1>0. m \in Task /\ SessionOf[m] \in Session /\ NoTask \in Own(SessionOf[m])
    BY OwnMessages DEF Own
<1>1. CASE Receive(m)
  <2>1. stage' \in [Message -> {"unsent", "waiting", "dispatched", "running", "over"}]
      BY <1>1 DEF Receive, BindingOK
  <2>2. UNCHANGED decision \/ \E t \in Own(SessionOf[m]) : decision' = [decision EXCEPT ![m] = t]
      BY <1>1, RegisterAnswersOwn DEF Receive
  <2>3. DOMAIN decision' = Message /\ \A n \in Message : decision'[n] \in Own(SessionOf[n]) \cup {Pending}
      BY <2>2 DEF BindingOK
  <2> QED
      BY <1>1, <2>1, <2>3 DEF Receive, BindingOK, binding, calls, Own
<1>2. CASE before_dispatch(m)
  <2>1. stage' \in [Message -> {"unsent", "waiting", "dispatched", "running", "over"}]
      BY <1>2 DEF before_dispatch, Dispatched, BindingOK
  <2>2. \/ decision[m] # Pending /\ UNCHANGED decision
        \/ \E t \in Own(SessionOf[m]) : decision' = [decision EXCEPT ![m] = t]
      BY <1>2, RegisterAnswersOwn DEF before_dispatch
  <2>3. /\ DOMAIN decision' = Message
        /\ \A n \in Message : decision'[n] \in Own(SessionOf[n]) \cup {Pending}
        /\ decision'[m] \in Own(SessionOf[m])
      BY <2>2 DEF BindingOK
  <2>4. DOMAIN bound' = Session /\ (\A s \in Session : bound'[s] \in Own(s)) /\ hushed' \subseteq Session
      BY <1>0, <1>2, <2>3 DEF before_dispatch, Rebind, BindingOK, binding
  <2> QED
      BY <1>2, <2>1, <2>3, <2>4 DEF before_dispatch, Dispatched, BindingOK, calls, Own
<1>3. CASE before_agent_start(m)
    BY <1>3 DEF before_agent_start, BindingOK, binding, calls, Own
<1>4. CASE llm_output(m)
    BY <1>4, EnsureTyped DEF llm_output, Handler
<1>5. CASE ts_create_followup_plan(m)
    BY <1>5, EnsureTyped DEF ts_create_followup_plan, Handler
<1>6. CASE agent_end(m)
    BY <1>6, EnsureTyped DEF agent_end, RunEnds, Handler
<1>7. CASE progress_active(m)
  <2>1. Returns(m, "output") /\ (Unbind(m) \/ UNCHANGED binding)
      BY <1>7 DEF progress_active
  <2> QED
      BY <1>7, <2>1, ReturnsTyped, UnbindTyped DEF progress_active, BindingOK, Own, Handler
<1>8. CASE create_followup_plan(m)
  <2>1. silent' \subseteq Task
      BY <1>8 DEF create_followup_plan, InSession, BindingOK
  <2> QED
      BY <1>8, <2>1, ReturnsTyped DEF create_followup_plan, BindingOK, binding, Own, Handler
<1>9. CASE finalize_active(m)
  <2>1. pc' \in [Message -> [Handler -> {"idle", "bind", "bind hushed", "call", "call hushed", "forget"}]]
      BY <1>9 DEF finalize_active, BindingOK, Handler
  <2> QED
      BY <1>9, <2>1 DEF finalize_active, BindingOK, binding, Own
<1>10. CASE Forget(m)
  <2>1. Returns(m, "end") /\ (Unbind(m) \/ UNCHANGED binding)
      BY <1>10 DEF Forget
  <2> QED
      BY <1>10, <2>1, ReturnsTyped, UnbindTyped DEF Forget, BindingOK, Own, Handler
<1>11. ASSUME NEW h \in Handler, Bind(m, h) PROVE BindingOK'
  <2>1. knows[m][h] \in Own(SessionOf[m])
      BY DEF BindingOK
  <2> QED
      BY <1>11, <2>1, HoldsTyped DEF Bind
<1>12. CASE DispatchUnwatched(m)
  <2>1. stage' \in [Message -> {"unsent", "waiting", "dispatched", "running", "over"}]
      BY <1>12 DEF DispatchUnwatched, Dispatched, BindingOK
  <2>2. DOMAIN decision' = Message /\ \A n \in Message : decision'[n] \in Own(SessionOf[n]) \cup {Pending}
      BY <1>0, <1>12 DEF DispatchUnwatched, BindingOK
  <2> QED
      BY <1>12, <2>1, <2>2 DEF DispatchUnwatched, Dispatched, BindingOK, binding, calls, Own
<1>13. CASE OutputUnwatched(m)
    BY <1>13, ReturnsTyped DEF OutputUnwatched, BindingOK, binding, Own, Handler
<1>14. CASE EndUnwatched(m)
  <2>1. stage' \in [Message -> {"unsent", "waiting", "dispatched", "running", "over"}]
      BY <1>14 DEF EndUnwatched, RunEnds, BindingOK
  <2>2. Unbind(m)
      BY <1>14 DEF EndUnwatched
  <2> QED
      BY <1>14, <2>1, <2>2, UnbindTyped DEF EndUnwatched, BindingOK, calls, Own
<1> QED
    BY <1>1, <1>2, <1>3, <1>4, <1>5, <1>6, <1>7, <1>8, <1>9, <1>10, <1>11, <1>12, <1>13, <1>14
    DEF RunStep

LEMMA BindingTyped == RunSpec => []BindingOK
<1>1. RunInit => BindingOK
    BY DEF RunInit, BindingOK, Own
<1>2. BindingOK /\ [RunNext]_rvars => BindingOK'
  <2> SUFFICES ASSUME BindingOK, [RunNext]_rvars PROVE BindingOK'
      OBVIOUS
  <2>1. CASE \E m \in Message : RunStep(m)
      BY <2>1, RunStepTyped
  <2>2. CASE Others
      BY <2>2 DEF Others, BindingOK, binding, calls, Own
  <2>3. ASSUME NEW s \in Session, TaskMonitorCommand(s) PROVE BindingOK'
    <3>1. NoTask \in Own(s)
        BY DEF Own
    <3>2. DOMAIN bound' = Session /\ (\A r \in Session : bound'[r] \in Own(r)) /\ hushed' \subseteq Session
        BY <2>3, <3>1 DEF TaskMonitorCommand, BindingOK, binding
    <3> QED
        BY <2>3, <3>2 DEF TaskMonitorCommand, BindingOK, calls, Own
  <2>4. CASE UNCHANGED rvars
      BY <2>4 DEF rvars, BindingOK, binding, calls, Own
  <2> QED
      BY <2>1, <2>2, <2>3, <2>4 DEF RunNext
<1> QED
    BY <1>1, <1>2, PTL DEF RunSpec

-----------------------------------------------------------------------------
\* What the plugin does to the store.

\* A task some hook resolves is one of the store.
LEMMA TargetIsATask ==
    ASSUME BindingOK, NEW m \in Message, NEW h \in Handler,
           NEW t \in Targets(SessionOf[m], knows[m][h]), t # NoTask
    PROVE  t \in Task
<1>1. knows[m][h] \in Task \cup {NoTask}
    BY DEF BindingOK, Own
<1> QED
    BY <1>1 DEF Targets, LatestActive, Active, InSession

LEMMA ActivatedIsATask ==
    ASSUME BindingOK, NEW m \in Message, NEW t \in Activated(SessionOf[m])
    PROVE  t \in Task
<1>1. bound[SessionOf[m]] \in Task \cup {NoTask}
    BY OwnMessages DEF BindingOK, Own
<1> QED
    BY <1>1 DEF Activated, InSession

\* Each step of the plugin or the host does to the store what one hook does, or
\* nothing.
LEMMA RunStepIsAStep ==
    ASSUME BindingOK, NEW m \in Message, RunStep(m)
    PROVE  [Next]_vars
<1>1. CASE KeepStore
    BY <1>1 DEF KeepStore
<1>2. CASE Receive(m)
    BY <1>1, <1>2, RegisterIsAStep DEF Receive
<1>3. CASE before_dispatch(m)
    BY <1>1, <1>3, RegisterIsAStep DEF before_dispatch
<1>4. CASE before_agent_start(m)
  <2>1. ASSUME NEW t \in Activated(SessionOf[m]), ActivateLatest(t) PROVE [Next]_vars
    <3>1. t \in Task /\ TaskStep(t)
        BY <2>1, ActivatedIsATask DEF TaskStep
    <3> QED
        BY <3>1, HookIsAStep
  <2> QED
      BY <1>1, <1>4, <2>1 DEF before_agent_start
<1>5. CASE progress_active(m)
  <2>1. ASSUME NEW t \in Targets(SessionOf[m], knows[m]["output"]), t # NoTask, ProgressRepairsSkip(t)
        PROVE  [Next]_vars
    <3>1. t \in Task /\ TaskStep(t)
        BY <2>1, TargetIsATask DEF TaskStep, Handler
    <3> QED
        BY <3>1, HookIsAStep
  <2> QED
      BY <1>1, <1>5, <2>1 DEF progress_active
<1>6. CASE finalize_active(m)
  <2>1. ASSUME NEW t \in Targets(SessionOf[m], knows[m]["end"]), t # NoTask, FinishActive(t) \/ FinalizeSkipped(t)
        PROVE  [Next]_vars
    <3>1. t \in Task /\ TaskStep(t)
        BY <2>1, TargetIsATask DEF TaskStep, Handler
    <3> QED
        BY <3>1, HookIsAStep
  <2> QED
      BY <1>1, <1>6, <2>1 DEF finalize_active
<1>7. CASE llm_output(m) \/ ts_create_followup_plan(m) \/ agent_end(m)
    BY <1>7 DEF llm_output, ts_create_followup_plan, agent_end, ensureActiveTaskBinding
<1>8. CASE \/ create_followup_plan(m) \/ Forget(m) \/ \E h \in Handler : Bind(m, h)
           \/ DispatchUnwatched(m) \/ OutputUnwatched(m) \/ EndUnwatched(m)
    BY <1>8 DEF create_followup_plan, Forget, Bind, DispatchUnwatched, OutputUnwatched, EndUnwatched, KeepStore
<1> QED
    BY <1>2, <1>3, <1>4, <1>5, <1>6, <1>7, <1>8 DEF RunStep

LEMMA OthersIsAStep ==
    ASSUME Others
    PROVE  [Next]_vars
<1>1. CASE Watchdog
    BY <1>1 DEF Next
<1>2. ASSUME NEW t \in Task, StopMainQueue(t) \/ CancelQueued(t) \/ BlockActive(t) \/ ResumeById(t)
      PROVE  [Next]_vars
  <2>1. TaskStep(t)
      BY <1>2 DEF TaskStep
  <2> QED
      BY <2>1, HookIsAStep
<1> QED
    BY <1>1, <1>2 DEF Others, Intervenes

\* The plugin's runs, operators and the watchdog together are a behaviour of the
\* store: whatever is proved of TaskLifecycle holds with index.ts at work.
THEOREM RunsAreHooks == RunSpec => Spec
<1>1. RunInit => Init
    BY DEF RunInit
<1>2. BindingOK /\ [RunNext]_rvars => [Next]_vars
  <2> SUFFICES ASSUME BindingOK, [RunNext]_rvars PROVE [Next]_vars
      OBVIOUS
  <2>1. CASE \E m \in Message : RunStep(m)
      BY <2>1, RunStepIsAStep
  <2>2. CASE Others
      BY <2>2, OthersIsAStep
  <2>3. CASE \E s \in Session : TaskMonitorCommand(s)
      BY <2>3 DEF TaskMonitorCommand, KeepStore
  <2>4. CASE UNCHANGED rvars
      BY <2>4 DEF rvars
  <2> QED
      BY <2>1, <2>2, <2>3, <2>4 DEF RunNext
<1> QED
    BY <1>1, <1>2, BindingTyped, PTL DEF RunSpec, Spec

\* What the plugin holds is well-formed in every reachable state: no binding, and
\* no task a suspended handler will ask for, is another session's.
THEOREM RunTypeCorrect == RunSpec => []RunTypeOK
  BY RunsAreHooks, BindingTyped, TypeCorrect, PTL DEF RunTypeOK

\* The slot stays exclusive with the plugin's runs, their overlapping handlers
\* and whatever record an operator resumes.
THEOREM RunsKeepTheSlot == RunSpec => []SlotExclusive
  BY RunsAreHooks, SlotIsExclusive, PTL

-----------------------------------------------------------------------------
\* How far a message is, and what its handlers may be at.

Serving == {"dispatched", "running"}
Asking  == {"call", "call hushed"}

\* What a suspended handler is at.
Places == {"idle", "bind", "bind hushed", "call", "call hushed", "forget"}

\* One message of a session is served at a time; a handler of a run exists from
\* its start on, the one of its end from then on; and with the monitor off a run
\* is hidden from its dispatch to its end.
Staged(m) ==
    /\ stage[m] = "unsent" => decision[m] = Pending
    /\ stage[m] \notin {"unsent", "waiting"} => decision[m] # Pending
    /\ stage[m] \in {"unsent", "waiting", "dispatched"} => \A h \in Handler : pc[m][h] = "idle"
    /\ stage[m] # "over" => pc[m]["end"] = "idle"
    /\ stage[m] \in Serving => (m \in unseen <=> SessionOf[m] \in unwatched)
    /\ m \in unseen => stage[m] \notin {"unsent", "waiting"} /\ pc[m]["end"] = "idle"
    /\ m \in planned => stage[m] \in {"running", "over"}
    /\ pc[m]["tool"] # "idle" => m \in planned
    /\ \A h \in Handler : pc[m][h] = "bind hushed" => knows[m][h] \in silent
    /\ \A h \in Handler : pc[m][h] \in {"bind", "bind hushed"} => knows[m][h] # NoTask

OneServed ==
    \A m, n \in Message :
        stage[m] \in Serving /\ stage[n] \in Serving /\ SessionOf[m] = SessionOf[n] => m = n

Stages == OneServed /\ \A m \in Message : Staged(m)

\* A handler moves alone.
LEMMA HandlerMoves ==
    ASSUME BindingOK, NEW m \in Message, NEW h \in Handler, NEW v,
           pc' = [pc EXCEPT ![m][h] = v]
    PROVE  /\ pc'[m][h] = v /\ \A g \in Handler \ {h} : pc'[m][g] = pc[m][g]
           /\ \A n \in Message \ {m} : pc'[n] = pc[n]
<1>1. pc \in [Message -> [Handler -> Places]]
    BY DEF BindingOK, Places
<1>2. pc[m] \in [Handler -> Places]
    BY <1>1
<1> QED
    BY <1>1, <1>2

LEMMA HandlerLearns ==
    ASSUME BindingOK, NEW m \in Message, NEW h \in Handler, NEW t,
           knows' = [knows EXCEPT ![m][h] = t]
    PROVE  /\ knows'[m][h] = t /\ \A g \in Handler \ {h} : knows'[m][g] = knows[m][g]
           /\ \A n \in Message \ {m} : knows'[n] = knows[n]
<1>1. knows \in [Message -> [Handler -> Task \cup {NoTask}]]
    BY DEF BindingOK
<1>2. knows[m] \in [Handler -> Task \cup {NoTask}]
    BY <1>1
<1> QED
    BY <1>1, <1>2

\* What a handler does once it holds a binding, as its fields see it.
LEMMA HoldsMoves ==
    ASSUME BindingOK, NEW m \in Message, NEW h \in Handler, NEW t, NEW mark, Holds(m, h, t, mark)
    PROVE  /\ \A n \in Message \ {m} : pc'[n] = pc[n] /\ knows'[n] = knows[n]
           /\ \A g \in Handler \ {h} : pc'[m][g] = pc[m][g] /\ knows'[m][g] = knows[m][g]
           /\ \/ h = "output" /\ pc'[m][h] = "idle"
              \/ /\ knows'[m][h] = t /\ (h = "output" => ~ mark)
                 /\ pc'[m][h] = "call" \/ (h = "end" /\ pc'[m][h] = "call hushed")
<1>1. \/ /\ h = "output"
         /\ pc' = [pc EXCEPT ![m][h] = "idle"] /\ knows' = [knows EXCEPT ![m][h] = NoTask]
      \/ /\ h = "output" => ~ mark
         /\ knows' = [knows EXCEPT ![m][h] = t]
         /\ \/ pc' = [pc EXCEPT ![m][h] = "call"]
            \/ h = "end" /\ pc' = [pc EXCEPT ![m][h] = "call hushed"]
  <2>1. CASE h = "output" /\ Returns(m, h)
      BY <2>1 DEF Returns
  <2>2. CASE /\ h # "output" \/ ~ mark
             /\ knows' = [knows EXCEPT ![m][h] = t]
             /\ pc' = [pc EXCEPT ![m][h] = IF h = "end" /\ mark THEN "call hushed" ELSE "call"]
    <3>1. CASE h = "end" /\ mark
        BY <2>2, <3>1
    <3>2. CASE ~ (h = "end" /\ mark)
        BY <2>2, <3>2
    <3> QED
        BY <2>2, <3>1, <3>2
  <2> QED
      BY <2>1, <2>2, Zenon DEF Holds
<1>2. PICK v, u : /\ pc' = [pc EXCEPT ![m][h] = v] /\ knows' = [knows EXCEPT ![m][h] = u]
                  /\ \/ h = "output" /\ v = "idle"
                     \/ /\ u = t /\ (h = "output" => ~ mark)
                        /\ v = "call" \/ (h = "end" /\ v = "call hushed")
    BY <1>1
<1>3. /\ pc'[m][h] = v /\ \A g \in Handler \ {h} : pc'[m][g] = pc[m][g]
      /\ \A n \in Message \ {m} : pc'[n] = pc[n]
    BY <1>2, HandlerMoves
<1>4. /\ knows'[m][h] = u /\ \A g \in Handler \ {h} : knows'[m][g] = knows[m][g]
      /\ \A n \in Message \ {m} : knows'[n] = knows[n]
    BY <1>2, HandlerLearns
<1> QED
    BY <1>2, <1>3, <1>4

\* What a handler does when it asks for the binding: it holds the one there is,
\* or none when nothing is active, or waits for an answer to bind.
LEMMA EnsureMoves ==
    ASSUME BindingOK, NEW m \in Message, NEW h \in Handler, ensureActiveTaskBinding(m, h)
    PROVE  /\ \A n \in Message \ {m} : pc'[n] = pc[n] /\ knows'[n] = knows[n]
           /\ \A g \in Handler \ {h} : pc'[m][g] = pc[m][g] /\ knows'[m][g] = knows[m][g]
           /\ \/ h = "output" /\ pc'[m][h] = "idle"
              \/ /\ bound[SessionOf[m]] # NoTask \/ Active(SessionOf[m]) = {}
                 /\ knows'[m][h] = bound[SessionOf[m]] /\ (h = "output" => SessionOf[m] \notin hushed \/ bound[SessionOf[m]] = NoTask)
                 /\ pc'[m][h] = "call" \/ (h = "end" /\ pc'[m][h] = "call hushed")
              \/ /\ bound[SessionOf[m]] = NoTask /\ knows'[m][h] \in Active(SessionOf[m])
                 /\ pc'[m][h] = BindMode(knows'[m][h])
<1> DEFINE s == SessionOf[m]
<1>1. CASE bound[s] # NoTask /\ Holds(m, h, bound[s], s \in hushed)
  <2>1. PICK mark : (mark <=> s \in hushed) /\ Holds(m, h, bound[s], mark)
      BY <1>1, Zenon
  <2> HIDE DEF s
  <2>2. /\ \A n \in Message \ {m} : pc'[n] = pc[n] /\ knows'[n] = knows[n]
        /\ \A g \in Handler \ {h} : pc'[m][g] = pc[m][g] /\ knows'[m][g] = knows[m][g]
        /\ \/ h = "output" /\ pc'[m][h] = "idle"
           \/ /\ knows'[m][h] = bound[s] /\ (h = "output" => ~ mark)
              /\ pc'[m][h] = "call" \/ (h = "end" /\ pc'[m][h] = "call hushed")
      BY <2>1, HoldsMoves, ZenonT(60)
  <2> QED
      BY <1>1, <2>1, <2>2 DEF s
<1>2. CASE bound[s] = NoTask /\ Active(s) = {} /\ Holds(m, h, NoTask, FALSE)
    BY <1>2, HoldsMoves, ZenonT(60)
<1>3. ASSUME bound[s] = NoTask, NEW t \in Active(s),
             knows' = [knows EXCEPT ![m][h] = t], pc' = [pc EXCEPT ![m][h] = BindMode(t)]
      PROVE  /\ \A n \in Message \ {m} : pc'[n] = pc[n] /\ knows'[n] = knows[n]
             /\ \A g \in Handler \ {h} : pc'[m][g] = pc[m][g] /\ knows'[m][g] = knows[m][g]
             /\ knows'[m][h] = t /\ pc'[m][h] = BindMode(t)
  <2>1. /\ pc'[m][h] = BindMode(t) /\ \A g \in Handler \ {h} : pc'[m][g] = pc[m][g]
        /\ \A n \in Message \ {m} : pc'[n] = pc[n]
      BY <1>3, HandlerMoves
  <2>2. /\ knows'[m][h] = t /\ \A g \in Handler \ {h} : knows'[m][g] = knows[m][g]
        /\ \A n \in Message \ {m} : knows'[n] = knows[n]
      BY <1>3, HandlerLearns
  <2> QED
      BY <2>1, <2>2
<1> QED
    BY <1>1, <1>2, <1>3 DEF ensureActiveTaskBinding

\* A handler that returns.
LEMMA ReturnsMoves ==
    ASSUME BindingOK, NEW m \in Message, NEW h \in Handler, Returns(m, h)
    PROVE  /\ \A n \in Message \ {m} : pc'[n] = pc[n] /\ knows'[n] = knows[n]
           /\ \A g \in Handler \ {h} : pc'[m][g] = pc[m][g] /\ knows'[m][g] = knows[m][g]
           /\ pc'[m][h] = "idle"
<1>1. /\ pc'[m][h] = "idle" /\ \A g \in Handler \ {h} : pc'[m][g] = pc[m][g]
      /\ \A n \in Message \ {m} : pc'[n] = pc[n]
    BY HandlerMoves DEF Returns
<1>2. /\ \A g \in Handler \ {h} : knows'[m][g] = knows[m][g]
      /\ \A n \in Message \ {m} : knows'[n] = knows[n]
    BY HandlerLearns DEF Returns
<1> QED
    BY <1>1, <1>2

\* The end of a run goes on to forget.
LEMMA FinalizeMoves ==
    ASSUME BindingOK, NEW m \in Message, finalize_active(m)
    PROVE  /\ \A n \in Message \ {m} : pc'[n] = pc[n]
           /\ \A g \in Handler \ {"end"} : pc'[m][g] = pc[m][g]
           /\ pc'[m]["end"] = "forget" /\ knows' = knows
<1>1. pc' = [pc EXCEPT ![m]["end"] = "forget"] /\ knows' = knows
    BY DEF finalize_active
<1> QED
    BY <1>1, HandlerMoves DEF Handler

\* What a step of one message leaves alone of another one, ...
LEMMA Bystanders ==
    ASSUME BindingOK, NEW m \in Message, RunStep(m), NEW n \in Message, n # m
    PROVE  /\ stage'[n] = stage[n] /\ decision'[n] = decision[n]
           /\ pc'[n] = pc[n] /\ knows'[n] = knows[n]
           /\ n \in planned' <=> n \in planned
           /\ n \in unseen' <=> n \in unseen
<1> USE DEF Handler
<1>1. CASE Receive(m)
    BY <1>1 DEF Receive, calls, history, BindingOK
<1>2. CASE before_dispatch(m)
    BY <1>2 DEF before_dispatch, Dispatched, calls, history, BindingOK
<1>3. CASE DispatchUnwatched(m)
    BY <1>3 DEF DispatchUnwatched, Dispatched, calls, BindingOK
<1>4. CASE before_agent_start(m)
    BY <1>4 DEF before_agent_start, calls, history, BindingOK
<1>5. ASSUME NEW h \in Handler, ensureActiveTaskBinding(m, h),
             stage' = stage \/ stage' = [stage EXCEPT ![m] = "over"],
             planned' = planned \/ planned' = planned \cup {m}
      PROVE  /\ stage'[n] = stage[n] /\ decision'[n] = decision[n]
             /\ pc'[n] = pc[n] /\ knows'[n] = knows[n]
             /\ n \in planned' <=> n \in planned
             /\ n \in unseen' <=> n \in unseen
  <2>1. pc'[n] = pc[n] /\ knows'[n] = knows[n]
      BY <1>5, EnsureMoves
  <2> QED
      BY <1>5, <2>1 DEF ensureActiveTaskBinding, BindingOK
<1>6. CASE llm_output(m) \/ ts_create_followup_plan(m) \/ agent_end(m)
  <2>1. CASE llm_output(m)
      BY <1>5, <2>1 DEF llm_output
  <2>2. CASE ts_create_followup_plan(m)
      BY <1>5, <2>2 DEF ts_create_followup_plan
  <2>3. CASE agent_end(m)
      BY <1>5, <2>3 DEF agent_end, RunEnds
  <2> QED
      BY <1>6, <2>1, <2>2, <2>3
<1>7. CASE OutputUnwatched(m)
    BY <1>7, ReturnsMoves DEF OutputUnwatched, history
<1>8. CASE progress_active(m)
    BY <1>8, ReturnsMoves DEF progress_active
<1>9. CASE create_followup_plan(m)
    BY <1>9, ReturnsMoves DEF create_followup_plan, history
<1>10. CASE EndUnwatched(m)
    BY <1>10 DEF EndUnwatched, RunEnds, calls, BindingOK
<1>11. CASE finalize_active(m)
    BY <1>11, FinalizeMoves DEF finalize_active, history
<1>12. CASE Forget(m)
    BY <1>12, ReturnsMoves DEF Forget
<1>13. ASSUME NEW h \in Handler, Bind(m, h)
       PROVE  /\ stage'[n] = stage[n] /\ decision'[n] = decision[n]
              /\ pc'[n] = pc[n] /\ knows'[n] = knows[n]
              /\ n \in planned' <=> n \in planned
              /\ n \in unseen' <=> n \in unseen
  <2>0. PICK t, mark : Holds(m, h, t, mark)
      BY <1>13, Zenon DEF Bind
  <2>1. \A o \in Message \ {m} : pc'[o] = pc[o] /\ knows'[o] = knows[o]
      BY <1>13, <2>0, HoldsMoves
  <2> QED
      BY <1>13, <2>1 DEF Bind
<1> QED
    BY <1>1, <1>2, <1>3, <1>4, <1>6, <1>7, <1>8, <1>9, <1>10, <1>11, <1>12, <1>13 DEF RunStep

\* ... and what is never forgotten.
LEMMA Remembers ==
    ASSUME NEW m \in Message, RunStep(m)
    PROVE  /\ unwatched' = unwatched /\ disturbed' = disturbed /\ revived' = revived
           /\ silent \subseteq silent' /\ overwritten \subseteq overwritten'
           /\ forgotten \subseteq forgotten' /\ unseen \subseteq unseen' /\ planned \subseteq planned'
<1> USE DEF history, calls, Unbind
<1>1. CASE Receive(m) \/ before_dispatch(m) \/ DispatchUnwatched(m) \/ before_agent_start(m)
    BY <1>1 DEF Receive, before_dispatch, DispatchUnwatched, Dispatched, before_agent_start
<1>2. CASE llm_output(m) \/ ts_create_followup_plan(m) \/ agent_end(m)
    BY <1>2 DEF llm_output, ts_create_followup_plan, agent_end, ensureActiveTaskBinding
<1>3. CASE OutputUnwatched(m) \/ create_followup_plan(m) \/ EndUnwatched(m) \/ finalize_active(m) \/ Forget(m)
    BY <1>3 DEF OutputUnwatched, create_followup_plan, EndUnwatched, finalize_active, Forget
<1>4. CASE progress_active(m)
    BY <1>4 DEF progress_active
<1>5. CASE \E h \in Handler : Bind(m, h)
    BY <1>5 DEF Bind
<1> QED
    BY <1>1, <1>2, <1>3, <1>4, <1>5 DEF RunStep


\* A message goes through its stages.
LEMMA StageMoves ==
    ASSUME BindingOK, NEW m \in Message, RunStep(m)
    PROVE  /\ stage'[m] \in Serving => stage[m] \in Serving \/ Undisturbed(SessionOf[m])
           /\ stage'[m] # stage[m] =>
                 \/ stage[m] = "unsent" /\ stage'[m] = "waiting"
                 \/ stage[m] = "waiting" /\ stage'[m] = "dispatched"
                 \/ stage[m] = "dispatched" /\ stage'[m] = "running"
                 \/ stage[m] = "running" /\ stage'[m] = "over" /\ pc[m]["tool"] = "idle"
<1> USE DEF Serving, BindingOK
<1>1. CASE Receive(m)
    BY <1>1 DEF Receive
<1>2. CASE before_dispatch(m) \/ DispatchUnwatched(m)
    BY <1>2 DEF before_dispatch, DispatchUnwatched, Dispatched
<1>3. CASE before_agent_start(m)
    BY <1>3 DEF before_agent_start
<1>4. CASE agent_end(m) \/ EndUnwatched(m)
    BY <1>4 DEF agent_end, EndUnwatched, RunEnds
<1>5. CASE UNCHANGED stage
    BY <1>5
<1>6. CASE llm_output(m) \/ OutputUnwatched(m) \/ progress_active(m) \/ ts_create_followup_plan(m)
    BY <1>5, <1>6 DEF llm_output, OutputUnwatched, progress_active, ts_create_followup_plan
<1>7. CASE create_followup_plan(m) \/ finalize_active(m) \/ Forget(m) \/ \E h \in Handler : Bind(m, h)
    BY <1>5, <1>7 DEF create_followup_plan, finalize_active, Forget, Bind
<1> QED
    BY <1>1, <1>2, <1>3, <1>4, <1>6, <1>7 DEF RunStep

\* What asking for the binding does to the run it is asked for.
LEMMA EnsureStaged ==
    ASSUME BindingOK, NEW m \in Message, Staged(m), stage[m] = "running",
           NEW h \in Handler, ensureActiveTaskBinding(m, h),
           h = "end" => SessionOf[m] \notin unwatched /\ stage' = [stage EXCEPT ![m] = "over"],
           h # "end" => stage' = stage,
           planned' = IF h = "tool" THEN planned \cup {m} ELSE planned
    PROVE  Staged(m)'
<1>1. /\ stage[m] = "running" /\ stage'[m] \in {"running", "over"} /\ (h # "end" => stage'[m] = "running")
      /\ decision' = decision /\ decision[m] # Pending
      /\ unseen' = unseen /\ unwatched' = unwatched /\ silent' = silent
      /\ m \in planned' <=> m \in planned \/ h = "tool"
    BY DEF ensureActiveTaskBinding, BindingOK, Staged
<1>2. /\ \A g \in Handler \ {h} : pc'[m][g] = pc[m][g] /\ knows'[m][g] = knows[m][g]
      /\ pc'[m][h] = "bind hushed" => knows'[m][h] \in silent
      /\ pc'[m][h] \in {"bind", "bind hushed"} => knows'[m][h] # NoTask
    BY EnsureMoves, NoTaskAssumption, ZenonT(60) DEF BindMode, Active, InSession
<1>3. /\ \A g \in Handler : pc'[m][g] = "bind hushed" => knows'[m][g] \in silent'
      /\ \A g \in Handler : pc'[m][g] \in {"bind", "bind hushed"} => knows'[m][g] # NoTask
    BY <1>1, <1>2 DEF Staged
<1>4. (stage'[m] # "over" => pc'[m]["end"] = "idle") /\ (pc'[m]["tool"] # "idle" => m \in planned')
    BY <1>1, <1>2 DEF Staged, Handler, BindingOK
<1>5. m \in unseen' => pc'[m]["end"] = "idle"
    BY <1>1, <1>2 DEF Staged, Handler, Serving
<1>6. stage'[m] \in Serving => (m \in unseen' <=> SessionOf[m] \in unwatched')
    BY <1>1 DEF Staged, Serving
<1>7. m \in planned' => stage'[m] \in {"running", "over"}
    BY <1>1
<1> QED
    BY <1>1, <1>3, <1>4, <1>5, <1>6, <1>7 DEF Staged

\* A handler that moves on keeps its run well-staged.
LEMMA MovesOn ==
    ASSUME NEW n \in Message, Staged(n), stage'[n] = stage[n], decision'[n] = decision[n],
           unwatched' = unwatched, n \in unseen' <=> n \in unseen, n \in planned' <=> n \in planned,
           \A t \in silent : t \in silent',
           \A g \in Handler : \/ pc'[n][g] = pc[n][g] /\ knows'[n][g] = knows[n][g]
                              \/ pc[n][g] # "idle" /\ pc'[n][g] \in {"idle", "call", "call hushed", "forget"}
    PROVE  Staged(n)'
<1>1. /\ stage'[n] \in {"unsent", "waiting", "dispatched"} => \A h \in Handler : pc'[n][h] = "idle"
      /\ stage'[n] # "over" => pc'[n]["end"] = "idle"
      /\ n \in unseen' => pc'[n]["end"] = "idle"
      /\ pc'[n]["tool"] # "idle" => n \in planned'
    BY DEF Staged, Handler
<1>2. /\ \A h \in Handler : pc'[n][h] = "bind hushed" => knows'[n][h] \in silent'
      /\ \A h \in Handler : pc'[n][h] \in {"bind", "bind hushed"} => knows'[n][h] # NoTask
    BY DEF Staged
<1>3. /\ stage'[n] \in Serving => (n \in unseen' <=> SessionOf[n] \in unwatched')
      /\ n \in unseen' => stage'[n] \notin {"unsent", "waiting"}
      /\ n \in planned' => stage'[n] \in {"running", "over"}
      /\ stage'[n] = "unsent" => decision'[n] = Pending
      /\ stage'[n] \notin {"unsent", "waiting"} => decision'[n] # Pending
    BY DEF Staged
<1> QED
    BY <1>1, <1>2, <1>3 DEF Staged

LEMMA StepStaged ==
    ASSUME BindingOK, NEW m \in Message, Staged(m), RunStep(m)
    PROVE  Staged(m)'
<1> USE DEF Handler, Serving
<1>1. CASE Receive(m)
    BY <1>1 DEF Receive, register, calls, history, BindingOK, Staged
<1>2. CASE before_dispatch(m)
    BY <1>2, NoTaskAssumption, OwnMessages DEF before_dispatch, Dispatched, register, calls, history, BindingOK, Staged, InSession
<1>3. CASE DispatchUnwatched(m)
    BY <1>3, NoTaskAssumption DEF DispatchUnwatched, Dispatched, calls, BindingOK, Staged
<1>4. CASE before_agent_start(m)
    BY <1>4 DEF before_agent_start, calls, history, BindingOK, Staged
<1>5. CASE llm_output(m)
    BY <1>5, EnsureStaged DEF llm_output
<1>6. CASE ts_create_followup_plan(m)
    BY <1>6, EnsureStaged DEF ts_create_followup_plan
<1>7. CASE agent_end(m)
    BY <1>7, EnsureStaged DEF agent_end, RunEnds
<1>8. CASE OutputUnwatched(m)
  <2>1. /\ \A g \in Handler \ {"output"} : pc'[m][g] = pc[m][g] /\ knows'[m][g] = knows[m][g]
        /\ pc[m]["output"] # "idle" /\ pc'[m]["output"] = "idle"
      BY <1>8, ReturnsMoves DEF OutputUnwatched
  <2>2. /\ stage' = stage /\ decision' = decision /\ unwatched' = unwatched /\ unseen' = unseen
        /\ planned' = planned /\ silent \subseteq silent'
      BY <1>8 DEF OutputUnwatched, history
  <2> QED
      BY <2>1, <2>2, MovesOn
<1>9. CASE progress_active(m)
  <2>1. /\ \A g \in Handler \ {"output"} : pc'[m][g] = pc[m][g] /\ knows'[m][g] = knows[m][g]
        /\ pc[m]["output"] # "idle" /\ pc'[m]["output"] = "idle"
      BY <1>9, ReturnsMoves DEF progress_active
  <2>2. /\ stage' = stage /\ decision' = decision /\ unwatched' = unwatched /\ unseen' = unseen
        /\ planned' = planned /\ silent \subseteq silent'
      BY <1>9 DEF progress_active
  <2> QED
      BY <2>1, <2>2, MovesOn
<1>10. CASE create_followup_plan(m)
  <2>1. /\ \A g \in Handler \ {"tool"} : pc'[m][g] = pc[m][g] /\ knows'[m][g] = knows[m][g]
        /\ pc[m]["tool"] # "idle" /\ pc'[m]["tool"] = "idle"
      BY <1>10, ReturnsMoves DEF create_followup_plan
  <2>2. /\ stage' = stage /\ decision' = decision /\ unwatched' = unwatched /\ unseen' = unseen
        /\ planned' = planned /\ silent \subseteq silent'
      BY <1>10 DEF create_followup_plan, history
  <2> QED
      BY <2>1, <2>2, MovesOn
<1>11. CASE EndUnwatched(m)
    BY <1>11 DEF EndUnwatched, RunEnds, calls, BindingOK, Staged
<1>12. CASE finalize_active(m)
    BY <1>12, FinalizeMoves, MovesOn, ZenonT(60) DEF finalize_active, history
<1>13. CASE Forget(m)
    BY <1>13, ReturnsMoves, MovesOn, ZenonT(60) DEF Forget
<1>14. ASSUME NEW h \in Handler, Bind(m, h) PROVE Staged(m)'
  <2>1. PICK t, mark : Holds(m, h, t, mark)
      BY <1>14, Zenon DEF Bind
  <2>2. /\ \A g \in Handler \ {h} : pc'[m][g] = pc[m][g] /\ knows'[m][g] = knows[m][g]
        /\ pc'[m][h] \in {"idle", "call", "call hushed"}
      BY <2>1, HoldsMoves, ZenonT(60)
  <2>3. pc[m][h] # "idle"
      BY <1>14 DEF Bind
  <2> QED
      BY <1>14, <2>2, <2>3 DEF Bind, Staged
<1> QED
    BY <1>1, <1>2, <1>3, <1>4, <1>5, <1>6, <1>7, <1>8, <1>9, <1>10, <1>11, <1>12, <1>13, <1>14 DEF RunStep

LEMMA StagesKept ==
    ASSUME BindingOK, Stages, [RunNext]_rvars
    PROVE  Stages'
<1>1. ASSUME NEW m \in Message, RunStep(m) PROVE Stages'
  <2>1. ASSUME NEW n \in Message, n # m PROVE Staged(n)'
    <3>1. /\ stage'[n] = stage[n] /\ decision'[n] = decision[n] /\ pc'[n] = pc[n] /\ knows'[n] = knows[n]
          /\ n \in planned' <=> n \in planned
          /\ n \in unseen' <=> n \in unseen
        BY <1>1, <2>1, Bystanders
    <3>2. unwatched' = unwatched /\ silent \subseteq silent'
        BY <1>1, Remembers
    <3> QED
        BY <2>1, <3>1, <3>2, MovesOn DEF Stages
  <2>2. Staged(m)'
      BY <1>1, StepStaged DEF Stages
  <2>3. OneServed'
    <3>1. \A n \in Message : n # m => stage'[n] = stage[n]
        BY <1>1, Bystanders
    <3>2. stage'[m] \in Serving => stage[m] \in Serving \/ Undisturbed(SessionOf[m])
        BY <1>1, StageMoves
    <3> QED
        BY <3>1, <3>2 DEF Stages, OneServed, Undisturbed, SentIn, Serving
  <2> QED
      BY <2>1, <2>2, <2>3 DEF Stages
<1>2. ASSUME stage' = stage, decision' = decision, UNCHANGED calls, planned' = planned, unseen' = unseen,
             silent' = silent,
             \A m \in Message : stage[m] \in Serving => (SessionOf[m] \in unwatched' <=> SessionOf[m] \in unwatched)
      PROVE  Stages'
  <2>1. ASSUME NEW m \in Message PROVE Staged(m)'
    <3>1. Staged(m)
        BY DEF Stages
    <3> QED
        BY <1>2, <3>1 DEF Staged, calls
  <2>2. OneServed'
      BY <1>2 DEF Stages, OneServed
  <2> QED
      BY <2>1, <2>2 DEF Stages
<1>3. CASE Others
    BY <1>2, <1>3 DEF Others
<1>4. ASSUME NEW s \in Session, TaskMonitorCommand(s) PROVE Stages'
  <2>1. \A m \in Message : stage[m] \in Serving => (SessionOf[m] \in unwatched' <=> SessionOf[m] \in unwatched)
      BY <1>4 DEF TaskMonitorCommand, Undisturbed, SentIn, Serving
  <2> QED
      BY <1>2, <1>4, <2>1 DEF TaskMonitorCommand
<1>5. CASE UNCHANGED rvars
    BY <1>2, <1>5 DEF rvars, history
<1> QED
    BY <1>1, <1>3, <1>4, <1>5 DEF RunNext

LEMMA StagesHold == RunSpec => []Stages
<1>1. RunInit => Stages
    BY DEF RunInit, Stages, OneServed, Staged, Serving, Handler
<1>2. BindingOK /\ Stages /\ [RunNext]_rvars => Stages'
    BY StagesKept
<1> QED
    BY <1>1, <1>2, BindingTyped, PTL DEF RunSpec


-----------------------------------------------------------------------------
\* Who may touch the binding of a session.

\* Asking for the binding leaves it as it is; only the planning tool marks it.
LEMMA EnsureBinds ==
    ASSUME BindingOK, NEW m \in Message, NEW h \in Handler, ensureActiveTaskBinding(m, h)
    PROVE  /\ \A r \in Session : bound'[r] = bound[r]
           /\ h # "tool" => hushed' = hushed
           /\ h = "tool" => /\ hushed' = hushed \/ hushed' = hushed \cup {SessionOf[m]}
                            /\ bound[SessionOf[m]] # NoTask => SessionOf[m] \in hushed'
<1> DEFINE s == SessionOf[m]
<1>0. s \in Session /\ DOMAIN bound = Session
    BY OwnMessages DEF BindingOK
<1>1. CASE bound[s] # NoTask /\ Holds(m, h, bound[s], s \in hushed)
  <2>1. /\ bound' = [bound EXCEPT ![s] = bound[s]]
        /\ hushed' = IF s \in hushed \/ h = "tool" THEN hushed \cup {s} ELSE hushed \ {s}
      BY <1>1, Zenon DEF Holds
  <2> QED
      BY <1>0, <2>1
<1>2. CASE bound[s] = NoTask /\ UNCHANGED binding
    BY <1>2 DEF binding
<1>3. CASE bound[s] = NoTask /\ Holds(m, h, NoTask, FALSE)
    BY <1>2, <1>3 DEF Holds
<1> QED
    BY <1>1, <1>2, <1>3 DEF ensureActiveTaskBinding

\* A session is its own: steps of one leave the others' bindings alone.  And the
\* binding of a run that is served is changed by another message only as a late
\* handler does it, which is remembered.
LEMMA ServedUntouched ==
    ASSUME BindingOK, Stages, NEW m \in Message, NEW n \in Message, n # m, RunStep(n),
           stage[m] \in Serving
    PROVE  \/ m \in overwritten'
           \/ m \in forgotten' /\ bound'[SessionOf[m]] = NoTask /\ SessionOf[m] \notin hushed'
           \/ /\ bound'[SessionOf[m]] = bound[SessionOf[m]]
              /\ SessionOf[m] \in hushed' <=> SessionOf[m] \in hushed
<1> DEFINE s == SessionOf[m]
           Same == bound'[s] = bound[s] /\ (s \in hushed' <=> s \in hushed)
<1>0. s \in Session /\ SessionOf[n] \in Session /\ DOMAIN bound = Session
    BY OwnMessages DEF BindingOK
<1>1. SessionOf[n] = s => m \in Served(n)
    BY DEF Served, SentIn, Serving
<1>2. SessionOf[n] = s => stage[n] \notin Serving /\ ~ Undisturbed(SessionOf[n])
    BY DEF Stages, OneServed, Undisturbed, SentIn, Serving
<1>3. CASE SessionOf[n] # s /\ Rebind(SessionOf[n], decision'[n])
    BY <1>0, <1>3 DEF Rebind, binding
<1>4. ASSUME Unbind(n)
      PROVE  Same \/ (m \in forgotten' /\ bound'[s] = NoTask /\ s \notin hushed')
    BY <1>0, <1>1, <1>4 DEF Unbind
<1>5. ASSUME NEW h \in Handler, Bind(n, h)
      PROVE  Same \/ m \in overwritten'
  <2>1. CASE SessionOf[n] = s
      BY <1>1, <1>5, <2>1 DEF Bind
  <2>2. CASE SessionOf[n] # s
    <3>1. PICK t, mark : Holds(n, h, t, mark)
        BY <1>5, Zenon DEF Bind
    <3>2. \/ UNCHANGED binding
          \/ /\ bound' = [bound EXCEPT ![SessionOf[n]] = t]
             /\ hushed' = hushed \cup {SessionOf[n]} \/ hushed' = hushed \ {SessionOf[n]}
        BY <3>1, Zenon DEF Holds
    <3> QED
        BY <1>0, <2>2, <3>2 DEF binding
  <2> QED
      BY <2>1, <2>2
<1>6. ASSUME NEW h \in Handler, ensureActiveTaskBinding(n, h), stage[n] \in Serving PROVE Same
  <2>1. SessionOf[n] # s
      BY <1>2, <1>6
  <2> QED
      BY <1>0, <1>6, <2>1, EnsureBinds
<1>7. UNCHANGED binding => Same
    BY DEF binding
<1> HIDE DEF Same
<1>8. CASE before_dispatch(n)
    BY <1>2, <1>3, <1>8 DEF before_dispatch, Dispatched, Same
<1>9. CASE llm_output(n) \/ ts_create_followup_plan(n) \/ agent_end(n)
  <2>1. stage[n] \in Serving /\ \E h \in Handler : ensureActiveTaskBinding(n, h)
      BY <1>9 DEF llm_output, ts_create_followup_plan, agent_end, RunEnds, Serving, Handler
  <2> QED
      BY <1>6, <2>1 DEF Same
<1>10. CASE progress_active(n) \/ EndUnwatched(n) \/ Forget(n)
  <2>1. Unbind(n) \/ UNCHANGED binding
      BY <1>10 DEF progress_active, EndUnwatched, Forget
  <2> QED
      BY <1>4, <1>7, <2>1 DEF Same
<1>11. CASE \/ Receive(n) \/ DispatchUnwatched(n) \/ before_agent_start(n) \/ OutputUnwatched(n)
            \/ create_followup_plan(n) \/ finalize_active(n)
  <2>1. UNCHANGED binding
      BY <1>11 DEF Receive, DispatchUnwatched, before_agent_start, OutputUnwatched, create_followup_plan, finalize_active
  <2> QED
      BY <1>7, <2>1 DEF Same
<1>12. CASE \E h \in Handler : Bind(n, h)
    BY <1>5, <1>12 DEF Same
<1> QED
    BY <1>8, <1>9, <1>10, <1>11, <1>12 DEF RunStep


-----------------------------------------------------------------------------
\* A planned run stays silent.

\* Once the planning tool holds the binding of its run the session is hushed for
\* as long as it stays bound.
Marked(m) ==
    /\ m \in planned \ overwritten /\ stage[m] = "running" /\ pc[m]["tool"] \in {"idle", "call"}
    /\ bound[SessionOf[m]] # NoTask
    => SessionOf[m] \in hushed

Muted == \A m \in Message : Marked(m)

\* What the run itself does to its mark.
LEMMA OwnMark ==
    ASSUME BindingOK, Stages, NEW m \in Message, Marked(m), RunStep(m)
    PROVE  Marked(m)'
<1> DEFINE s == SessionOf[m]
<1> SUFFICES ASSUME m \in planned', m \notin overwritten', stage'[m] = "running",
                    pc'[m]["tool"] \in {"idle", "call"}, bound'[s] # NoTask
             PROVE  s \in hushed'
    BY DEF Marked
<1>0. s \in Session /\ DOMAIN bound = Session /\ Staged(m) /\ m \notin overwritten
    BY OwnMessages, Remembers DEF BindingOK, Stages
<1> HIDE DEF s
<1> USE DEF Handler
<1>1. CASE stage[m] # "running"
  <2>1. m \notin planned
      BY <1>0, <1>1, StageMoves DEF Staged
  <2>2. planned' = planned
      BY <1>0, <1>1, StageMoves DEF RunStep, Receive, before_dispatch, DispatchUnwatched, Dispatched,
          before_agent_start, llm_output, ts_create_followup_plan, agent_end, RunEnds, EndUnwatched,
          OutputUnwatched, progress_active, create_followup_plan, finalize_active, Forget, Bind, history,
          ensureActiveTaskBinding
  <2> QED
      BY <2>1, <2>2
<1>2. CASE llm_output(m)
  <2>1. /\ planned' = planned /\ stage[m] = "running" /\ hushed' = hushed /\ bound'[s] = bound[s]
        /\ pc'[m]["tool"] = pc[m]["tool"]
      BY <1>0, <1>2, EnsureBinds, EnsureMoves DEF llm_output, s
  <2> QED
      BY <1>0, <2>1 DEF Marked, s
<1>3. CASE ts_create_followup_plan(m)
  <2>1. bound'[s] = bound[s] /\ (bound[s] # NoTask => s \in hushed')
      BY <1>0, <1>3, EnsureBinds DEF ts_create_followup_plan, s
  <2> QED
      BY <2>1
<1>4. CASE stage[m] = "running" /\ UNCHANGED <<binding, planned>> /\ pc[m]["tool"] \in {"idle", "call"}
    BY <1>0, <1>4 DEF Marked, binding, s
<1>5. CASE OutputUnwatched(m) \/ create_followup_plan(m)
  <2>1. pc[m]["tool"] = pc'[m]["tool"] \/ pc[m]["tool"] = "call"
      BY <1>5, ReturnsMoves DEF OutputUnwatched, create_followup_plan
  <2> QED
      BY <1>1, <1>4, <1>5, <2>1 DEF OutputUnwatched, create_followup_plan, history
<1>6. CASE progress_active(m)
  <2>1. pc[m]["tool"] = pc'[m]["tool"] /\ planned' = planned /\ stage' = stage
      BY <1>6, ReturnsMoves DEF progress_active
  <2>2. UNCHANGED binding
      BY <1>0, <1>6 DEF progress_active, Unbind, s
  <2> QED
      BY <1>1, <1>4, <2>1, <2>2
<1>7. ASSUME NEW h \in Handler, Bind(m, h) PROVE s \in hushed'
  <2>1. PICK t, mark : /\ Holds(m, h, t, mark) /\ t # NoTask
                       /\ pc[m][h] = "bind hushed" => mark
                       /\ h = "output" /\ pc[m][h] # "bind hushed" /\ m \in planned => m \in overwritten'
    <3>1. knows[m][h] # NoTask
        BY <1>0, <1>7 DEF Bind, Staged
    <3>2. \E mark : Holds(m, h, knows[m][h], mark) /\ (pc[m][h] = "bind hushed" => mark)
        BY <1>7, Zenon DEF Bind
    <3>3. h = "output" /\ pc[m][h] # "bind hushed" /\ m \in planned => m \in overwritten'
        BY <1>7 DEF Bind
    <3> QED
        BY <3>1, <3>2, <3>3
  <2>2. hushed' = IF mark \/ h = "tool" THEN hushed \cup {s} ELSE hushed \ {s}
      BY <2>1, Zenon DEF Holds, s
  <2>3. m \in planned /\ stage[m] = "running" /\ stage' = stage
      BY <1>1, <1>7 DEF Bind
  <2>4. h # "end"
      BY <1>0, <1>7, <2>3 DEF Staged, Bind
  <2> QED
      BY <2>1, <2>2, <2>3, <2>4
<1>8. CASE agent_end(m) \/ EndUnwatched(m)
    BY <1>8 DEF agent_end, EndUnwatched, RunEnds, BindingOK
<1>9. CASE finalize_active(m) \/ Forget(m)
  <2>1. stage[m] = "running" /\ pc[m]["end"] # "idle"
      BY <1>1, <1>9 DEF finalize_active, Forget
  <2> QED
      BY <1>0, <2>1 DEF Staged
<1>10. CASE Receive(m) \/ before_dispatch(m) \/ DispatchUnwatched(m) \/ before_agent_start(m)
    BY <1>1, <1>10 DEF Receive, before_dispatch, DispatchUnwatched, Dispatched, before_agent_start
<1> QED
    BY <1>2, <1>3, <1>5, <1>6, <1>7, <1>8, <1>9, <1>10 DEF RunStep

LEMMA MutedKept ==
    ASSUME BindingOK, Stages, Muted, [RunNext]_rvars
    PROVE  Muted'
<1> SUFFICES ASSUME NEW m \in Message PROVE Marked(m)'
    BY DEF Muted
<1>0. Marked(m) /\ SessionOf[m] \in Session
    BY OwnMessages DEF Muted
<1>1. CASE RunStep(m)
    BY <1>0, <1>1, OwnMark
<1>2. ASSUME NEW n \in Message, n # m, RunStep(n) PROVE Marked(m)'
  <2>1. stage'[m] = stage[m] /\ pc'[m] = pc[m] /\ (m \in planned' <=> m \in planned) /\ overwritten \subseteq overwritten'
      BY <1>2, Bystanders, Remembers
  <2>2. CASE stage[m] = "running"
    <3>1. \/ m \in overwritten' \/ bound'[SessionOf[m]] = NoTask
          \/ /\ bound'[SessionOf[m]] = bound[SessionOf[m]]
             /\ SessionOf[m] \in hushed' <=> SessionOf[m] \in hushed
        BY <1>2, <2>2, ServedUntouched DEF Serving
    <3> QED
        BY <1>0, <2>1, <3>1 DEF Marked
  <2> QED
      BY <2>1, <2>2 DEF Marked
<1>3. CASE Others
    BY <1>0, <1>3 DEF Others, Marked, binding, calls
<1>4. ASSUME NEW s \in Session, TaskMonitorCommand(s) PROVE Marked(m)'
  <2>1. stage[m] = "running" => s # SessionOf[m]
      BY <1>4 DEF TaskMonitorCommand, Undisturbed, SentIn
  <2> QED
      BY <1>0, <1>4, <2>1 DEF TaskMonitorCommand, Marked, binding, calls, BindingOK
<1>5. CASE UNCHANGED rvars
    BY <1>0, <1>5 DEF rvars, Marked, binding, calls, history
<1> QED
    BY <1>1, <1>2, <1>3, <1>4, <1>5 DEF RunNext

\* An output of a run is let through only by its own request for the binding.
LEMMA OnlyOutputsAsk ==
    ASSUME BindingOK, Stages, NEW m \in Message, [RunNext]_rvars, m \in planned,
           pc[m]["output"] = "idle", pc'[m]["output"] \in {"call", "bind"}
    PROVE  llm_output(m)
<1>1. ASSUME NEW n \in Message, n # m, RunStep(n) PROVE FALSE
    BY <1>1, Bystanders
<1>2. CASE RunStep(m)
  <2> USE DEF Handler
  <2>1. CASE \/ Receive(m) \/ before_dispatch(m) \/ DispatchUnwatched(m) \/ before_agent_start(m) \/ EndUnwatched(m)
      BY <2>1 DEF Receive, before_dispatch, DispatchUnwatched, Dispatched, before_agent_start, EndUnwatched, calls
  <2>2. CASE OutputUnwatched(m) \/ progress_active(m)
      BY <2>2 DEF OutputUnwatched, progress_active
  <2>3. CASE create_followup_plan(m) \/ Forget(m)
      BY <2>3, ReturnsMoves DEF create_followup_plan, Forget
  <2>4. CASE finalize_active(m)
      BY <2>4, FinalizeMoves
  <2>5. CASE ts_create_followup_plan(m) \/ agent_end(m)
      BY <2>5, EnsureMoves DEF ts_create_followup_plan, agent_end
  <2>6. ASSUME NEW h \in Handler, Bind(m, h) PROVE FALSE
    <3>1. PICK t, mark : Holds(m, h, t, mark)
        BY <2>6, Zenon DEF Bind
    <3>2. \A g \in Handler \ {h} : pc'[m][g] = pc[m][g]
        BY <3>1, HoldsMoves, ZenonT(60)
    <3> QED
        BY <2>6, <3>2 DEF Bind
  <2> QED
      BY <1>2, <2>1, <2>2, <2>3, <2>4, <2>5, <2>6 DEF RunStep
<1>3. CASE Others \/ \E s \in Session : TaskMonitorCommand(s)
    BY <1>3 DEF Others, TaskMonitorCommand, calls
<1>4. CASE UNCHANGED rvars
    BY <1>4 DEF rvars, calls
<1> QED
    BY <1>1, <1>2, <1>3, <1>4 DEF RunNext

LEMMA MutedHolds == RunSpec => []Muted
<1>1. RunInit => Muted
    BY DEF RunInit, Muted, Marked
<1>2. BindingOK /\ Stages /\ Muted /\ [RunNext]_rvars => Muted'
    BY MutedKept
<1> QED
    BY <1>1, <1>2, BindingTyped, StagesHold, PTL DEF RunSpec

\* A planned run is heard again only when its task is not the one the session
\* works on: while the session is bound the mark is on it (Muted), and when the
\* binding is gone resolve-active brings the mark back from the record.
THEOREM PlannedRunsStaySilent == RunSpec => PlannedRunStaysSilent
<1> DEFINE LetThrough(m) ==
        /\ pc[m]["output"] = "idle" /\ pc'[m]["output"] \in {"call", "bind"}
        /\ m \in planned /\ pc[m]["tool"] = "idle" /\ decision[m] \in silent
        => Active(SessionOf[m]) # {decision[m]}
<1>1. BindingOK /\ Stages /\ Muted /\ [RunNext]_rvars => \A m \in Message \ (disturbed \cup overwritten) : LetThrough(m)
  <2> SUFFICES ASSUME BindingOK, Stages, Muted, [RunNext]_rvars, NEW m \in Message \ (disturbed \cup overwritten),
                      pc[m]["output"] = "idle", pc'[m]["output"] \in {"call", "bind"},
                      m \in planned, pc[m]["tool"] = "idle", decision[m] \in silent,
                      Active(SessionOf[m]) = {decision[m]}
               PROVE  FALSE
      OBVIOUS
  <2>1. llm_output(m)
      BY OnlyOutputsAsk
  <2>2. \/ /\ bound[SessionOf[m]] # NoTask
           /\ SessionOf[m] \notin hushed
        \/ pc'[m]["output"] = BindMode(decision[m])
    <3>1. ensureActiveTaskBinding(m, "output")
        BY <2>1 DEF llm_output
    <3> QED
        BY <3>1, EnsureMoves DEF Handler
  <2>3. Marked(m) /\ stage[m] = "running"
      BY <2>1 DEF llm_output, Muted
  <2> QED
      BY <2>2, <2>3 DEF Marked, BindMode
<1>2. RunSpec => [][\A m \in Message \ (disturbed \cup overwritten) : LetThrough(m)]_rvars
    BY <1>1, BindingTyped, StagesHold, MutedHolds, PTL DEF RunSpec
<1> QED
    BY <1>2, Zenon DEF PlannedRunStaysSilent


-----------------------------------------------------------------------------
\* What the steps of a run do to one task of the store.

\* The statuses of a task that still wants the end of a run.
Wanted == ACTIVE_STATUSES \cup OBSERVED_STATUSES

\* Nobody touched the task, but for the promotion of a waiting one.
Kept(t) ==
    /\ inflight'[t] = inflight[t] \/ (inflight[t] = "queued" /\ inflight'[t] = "running")
    /\ created_at'[t] = created_at[t]

\* The task was registered for a message: it was one of the store before, or
\* its id was never used.
Registered(t) ==
    /\ inflight'[t] \in Wanted /\ created_at'[t] # 0
    /\ inflight[t] = "absent" => created_at[t] = 0

\* The task was worked on: it got the slot or its place in the queue, or it ended.
WorkedOn(t) ==
    /\ inflight[t] # "absent" /\ created_at'[t] = created_at[t]
    /\ inflight'[t] = "absent" \/ (inflight[t] \in Wanted /\ inflight'[t] \in Wanted)

LEMMA SlotIsWanted ==
    ASSUME NEW f \in [Task -> Status], NEW t \in Task
    PROVE  /\ SlotStatus(f, t) \in Wanted
           /\ claim_execution_slot(f, t)[t] \in Wanted
           /\ \A u \in Task \ {t} : claim_execution_slot(f, t)[u] = f[u]
<1>1. SlotStatus(f, t) \in Wanted /\ "running" \in Wanted
    BY DEF SlotStatus, Wanted, ACTIVE_STATUSES
<1>2. PICK v \in Wanted : claim_execution_slot(f, t) = [f EXCEPT ![t] = v]
    BY <1>1, Zenon DEF claim_execution_slot
<1> QED
    BY <1>1, <1>2

LEMMA RegisterEffect ==
    ASSUME TypeOK, QueueOrderTotal, NEW m \in Message, NEW start \in BOOLEAN, NEW a \in Task \cup {NoTask},
           register(m, start, a)
    PROVE  /\ a \in Task => Registered(a)
           /\ \A t \in Task \ {a} : Kept(t)
           /\ skipped' = skipped
<1>0. /\ m \in Task /\ inflight \in [Task -> Status] /\ created_at \in [Task -> Nat] /\ clock \in Nat
      /\ "received" \in Wanted /\ "queued" \in Wanted /\ Wanted \subseteq Status
      /\ \A t \in Task : inflight[t] # "absent" => created_at[t] # 0
  <2>1. m \in Task /\ inflight \in [Task -> Status] /\ created_at \in [Task -> Nat] /\ clock \in Nat
      BY OwnMessages, BoundAssumption DEF TypeOK
  <2>2. "received" \in Wanted /\ "queued" \in Wanted /\ Wanted \subseteq Status
      BY DEF Wanted, Status, LiveStatus, ACTIVE_STATUSES, OBSERVED_STATUSES
  <2>3. \A t \in Task : inflight[t] # "absent" => created_at[t] # 0
      BY StoredMeans DEF QueueOrderTotal
  <2> QED
      BY <2>1, <2>2, <2>3
<1>1. ASSUME NEW t \in Task, NEW v \in Wanted, inflight' = [inflight EXCEPT ![t] = v],
             \/ Stamp(t) /\ (inflight[t] = "absent" => created_at[t] = 0)
             \/ KeepStamps /\ inflight[t] # "absent"
      PROVE  Registered(t) /\ \A u \in Task \ {t} : Kept(u)
  <2>1. inflight'[t] \in Wanted /\ \A u \in Task \ {t} : inflight'[u] = inflight[u]
      BY <1>0, <1>1
  <2>2. created_at'[t] # 0 /\ (inflight[t] = "absent" => created_at[t] = 0)
      BY <1>0, <1>1 DEF Stamp, KeepStamps
  <2>3. \A u \in Task \ {t} : created_at'[u] = created_at[u]
      BY <1>0, <1>1 DEF Stamp, KeepStamps
  <2> QED
      BY <2>1, <2>2, <2>3 DEF Registered, Kept
<1>2. CASE a = m /\ RegisterNew(m, start)
  <2>1. PICK v \in Wanted : inflight' = [inflight EXCEPT ![m] = v]
      BY <1>0, <1>2, SlotIsWanted, Zenon DEF RegisterNew, register_main_task
  <2>2. Stamp(m) /\ created_at[m] = 0 /\ skipped' = skipped
      BY <1>2 DEF RegisterNew, register_main_task, Fresh, flags
  <2> QED
      BY <1>0, <1>1, <1>2, <2>1, <2>2
<1>3. CASE a \in Task /\ ResumeRecoverable(a)
  <2>1. SlotStatus(inflight, a) \in Wanted /\ inflight' = [inflight EXCEPT ![a] = SlotStatus(inflight, a)]
      BY <1>0, <1>3, SlotIsWanted DEF ResumeRecoverable, resume_task
  <2>2. KeepStamps /\ inflight[a] # "absent" /\ skipped' = skipped
      BY <1>3 DEF ResumeRecoverable, resume_task, RECOVERABLE_STATUSES, flags
  <2> QED
      BY <1>1, <1>3, <2>1, <2>2
<1>4. CASE a \in Task /\ TakeOverStaleObserved(a, start)
  <2>1. Stamp(a) /\ inflight[a] = "received" /\ skipped' = skipped
        /\ inflight' = IF start THEN claim_execution_slot(inflight, a) ELSE inflight
      BY <1>4 DEF TakeOverStaleObserved, flags
  <2>2. PICK v \in Wanted : inflight' = [inflight EXCEPT ![a] = v]
    <3>1. CASE start
        BY <1>0, <1>4, <2>1, <3>1, SlotIsWanted DEF claim_execution_slot
    <3>2. CASE ~ start
        BY <1>0, <1>4, <2>1, <3>2
    <3> QED
        BY <3>1, <3>2
  <2> QED
      BY <1>1, <1>4, <2>1, <2>2
<1>5. CASE KeepStore /\ (a \in InSession(SessionOf[m], {"queued", "received"}) \/ a = NoTask)
  <2>1. inflight' = inflight /\ created_at' = created_at /\ skipped' = skipped
      BY <1>5 DEF KeepStore, vars, flags
  <2>2. a \in Task => inflight[a] \in {"queued", "received"}
      BY <1>5, NoTaskAssumption DEF InSession
  <2> QED
      BY <1>0, <2>1, <2>2 DEF Registered, Kept
<1> QED
    BY <1>2, <1>3, <1>4, <1>5 DEF register

\* A task that ends, or is released some other way, disturbs no other task.
LEMMA ReleaseEffect ==
    ASSUME TypeOK, NEW u \in Task, NEW s \in Status, inflight' = Release(inflight, {u}, s), KeepStamps
    PROVE  /\ \A t \in Task \ {u} : Kept(t)
           /\ s # "queued" => inflight'[u] = s
<1> DEFINE h == [t \in Task |-> IF t \in {u} THEN s ELSE inflight[t]]
<1>1. h \in [Task -> Status] /\ h[u] = s /\ \A t \in Task \ {u} : h[t] = inflight[t]
    BY DEF TypeOK
<1>2. inflight' = promote_next_queued_task(h, AgentsOf({u})) /\ created_at' = created_at
    BY DEF Release, KeepStamps
<1> HIDE DEF h
<1>3. \A t \in Task : inflight'[t] # h[t] => h[t] = "queued" /\ inflight'[t] = "running"
    BY <1>1, <1>2, PromoteStatus
<1> QED
    BY <1>1, <1>2, <1>3 DEF Kept

LEMMA FinishEffect ==
    ASSUME TypeOK, NEW u \in Task, inflight[u] # "absent", _finalize_task(u)
    PROVE  /\ \A t \in Task \ {u} : Kept(t)
           /\ inflight'[u] = "absent" /\ WorkedOn(u)
<1>1. inflight' = Release(inflight, {u}, "absent") /\ KeepStamps /\ "absent" \in Status
    BY DEF _finalize_task, FinalizeAll, Status
<1>2. (\A t \in Task \ {u} : Kept(t)) /\ inflight'[u] = "absent" /\ created_at' = created_at
    BY <1>1, ReleaseEffect DEF KeepStamps
<1> QED
    BY <1>2 DEF WorkedOn

\* One step of a message, as a task of the store sees it.
LEMMA StepEffect ==
    ASSUME TypeOK, QueueOrderTotal, BindingOK, Stages, NEW m \in Message, RunStep(m), NEW t \in Task
    PROVE  /\ t \in skipped => t \in skipped'
           /\ \/ Kept(t)
              \/ WorkedOn(t)
              \/ /\ Registered(t) /\ decision[m] = Pending /\ decision'[m] = t
                 /\ Receive(m) \/ before_dispatch(m)
<1>0. DOMAIN decision = Message /\ Staged(m)
    BY DEF BindingOK, Stages
<1>1. KeepStore => Kept(t) /\ skipped' = skipped
    BY DEF KeepStore, vars, flags, Kept
<1>2. ASSUME NEW a \in Task \cup {NoTask}, NEW start \in BOOLEAN, register(m, start, a),
             decision' = [decision EXCEPT ![m] = a], decision[m] = Pending, Receive(m) \/ before_dispatch(m)
      PROVE  /\ skipped' = skipped
             /\ Kept(t) \/ (Registered(t) /\ decision[m] = Pending /\ decision'[m] = t /\ (Receive(m) \/ before_dispatch(m)))
    BY <1>0, <1>2, RegisterEffect
<1>3. CASE Receive(m)
    BY <1>0, <1>1, <1>2, <1>3 DEF Receive, Staged
<1>4. CASE before_dispatch(m)
    BY <1>1, <1>2, <1>4 DEF before_dispatch
<1>5. CASE before_agent_start(m)
  <2>1. ASSUME NEW u \in Activated(SessionOf[m]), ActivateLatest(u)
        PROVE  skipped' = skipped /\ (Kept(t) \/ WorkedOn(t))
    <3>1. u \in Task /\ inflight \in [Task -> Status]
        BY <2>1, ActivatedIsATask DEF TypeOK
    <3>2. /\ inflight[u] = "received" /\ inflight' = claim_execution_slot(inflight, u)
          /\ created_at' = created_at /\ skipped' = skipped
        BY <2>1 DEF ActivateLatest, AskForSlot, KeepStamps, flags
    <3>3. inflight'[u] \in Wanted /\ \A v \in Task \ {u} : inflight'[v] = inflight[v]
        BY <3>1, <3>2, SlotIsWanted
    <3> QED
        BY <3>2, <3>3 DEF Kept, WorkedOn, Wanted, OBSERVED_STATUSES
  <2> QED
      BY <1>1, <1>5, <2>1 DEF before_agent_start
<1>6. CASE progress_active(m)
  <2>1. ASSUME NEW u \in Targets(SessionOf[m], knows[m]["output"]), u # NoTask, ProgressRepairsSkip(u)
        PROVE  skipped' = skipped /\ (Kept(t) \/ WorkedOn(t))
    <3>1. u \in Task
        BY <2>1, TargetIsATask DEF Handler
    <3> QED
        BY <2>1, <3>1, FinishEffect DEF ProgressRepairsSkip, flags
  <2> QED
      BY <1>1, <1>6, <2>1 DEF progress_active
<1>7. CASE finalize_active(m)
  <2>1. ASSUME NEW u \in Targets(SessionOf[m], knows[m]["end"]), u # NoTask, FinishActive(u) \/ FinalizeSkipped(u)
        PROVE  skipped \subseteq skipped' /\ (Kept(t) \/ WorkedOn(t))
    <3>1. u \in Task
        BY <2>1, TargetIsATask DEF Handler
    <3>2. CASE FinishActive(u)
        BY <3>1, <3>2, FinishEffect DEF FinishActive, flags
    <3>3. CASE FinalizeSkipped(u)
        BY <3>3 DEF FinalizeSkipped, Kept
    <3> QED
        BY <2>1, <3>2, <3>3
  <2> QED
      BY <1>1, <1>7, <2>1 DEF finalize_active
<1>8. CASE llm_output(m) \/ ts_create_followup_plan(m) \/ agent_end(m)
  <2>1. KeepStore
      BY <1>8 DEF llm_output, ts_create_followup_plan, agent_end, ensureActiveTaskBinding, KeepStore
  <2> QED
      BY <1>1, <2>1
<1>9. CASE \/ create_followup_plan(m) \/ Forget(m) \/ \E h \in Handler : Bind(m, h)
           \/ DispatchUnwatched(m) \/ OutputUnwatched(m) \/ EndUnwatched(m)
  <2>1. KeepStore
      BY <1>9 DEF create_followup_plan, Forget, Bind, DispatchUnwatched, OutputUnwatched, EndUnwatched, KeepStore
  <2> QED
      BY <1>1, <2>1
<1> QED
    BY <1>3, <1>4, <1>5, <1>6, <1>7, <1>8, <1>9 DEF RunStep

\* A released task is not received again.
LEMMA ReleaseReceives ==
    ASSUME TypeOK, NEW T, NEW s \in {"blocked", "absent"}, NEW t \in Task,
           Release(inflight, T, s)[t] = "received"
    PROVE  inflight[t] = "received"
<1> DEFINE h == [u \in Task |-> IF u \in T THEN s ELSE inflight[u]]
<1>1. h \in [Task -> Status] /\ (h[t] = "received" => inflight[t] = "received")
    BY RestingStatus DEF TypeOK
<1>2. Release(inflight, T, s) = promote_next_queued_task(h, AgentsOf(T))
    BY DEF Release
<1> HIDE DEF h
<1>3. Release(inflight, T, s)[t] # h[t] => Release(inflight, T, s)[t] = "running"
    BY <1>1, <1>2, PromoteStatus
<1> QED
    BY <1>1, <1>3

\* Operators and the watchdog create nothing, and leave no task received that
\* was not.
LEMMA OthersEffect ==
    ASSUME TypeOK, Others, NEW t \in Task
    PROVE  /\ created_at' = created_at /\ skipped' = skipped
           /\ inflight'[t] = "received" => inflight[t] = "received"
<1>0. inflight \in [Task -> Status] /\ "blocked" \in Status /\ "absent" \in Status
    BY RestingStatus DEF TypeOK
<1>2. ASSUME NEW u \in Task, StopMainQueue(u) \/ CancelQueued(u)
      PROVE  /\ created_at' = created_at /\ skipped' = skipped
             /\ inflight' = Release(inflight, {u}, "absent")
    BY <1>2 DEF StopMainQueue, CancelQueued, _finalize_task, FinalizeAll, KeepStamps, flags
<1>3. ASSUME NEW u \in Task, BlockActive(u)
      PROVE  /\ created_at' = created_at /\ skipped' = skipped
             /\ inflight' = Release(inflight, {u}, "blocked")
    BY <1>3 DEF BlockActive, block_task, KeepStamps, flags
<1>4. ASSUME NEW u \in Task, ResumeById(u)
      PROVE  /\ created_at' = created_at /\ skipped' = skipped
             /\ inflight'[t] = "received" => inflight[t] = "received"
  <2>1. /\ created_at' = created_at /\ skipped' = skipped
        /\ inflight' = [inflight EXCEPT ![u] = SlotStatus(inflight, u)]
      BY <1>4 DEF ResumeById, resume_task, KeepStamps, flags
  <2>2. SlotStatus(inflight, u) # "received"
      BY DEF SlotStatus
  <2> QED
      BY <1>0, <2>1, <2>2
<1>5. CASE Watchdog
  <2>1. PICK hit \in SUBSET Task, R \in SUBSET Task, first \in Task :
              /\ inflight' = ResumeEach(Release(inflight, hit, "blocked"), R, first)
              /\ KeepStamps
      BY <1>5, WatchdogStep
  <2>2. skipped' = skipped
      BY <1>5 DEF Watchdog, WatchdogAutoRecover
  <2>3. inflight'[t] = "received" => Release(inflight, hit, "blocked")[t] = "received"
      BY <2>1 DEF ResumeEach, SlotStatus
  <2> QED
      BY <2>1, <2>2, <2>3, ReleaseReceives DEF KeepStamps
<1>6. ASSUME NEW u \in Task, StopMainQueue(u) \/ CancelQueued(u) \/ BlockActive(u) \/ ResumeById(u)
      PROVE  /\ created_at' = created_at /\ skipped' = skipped
             /\ inflight'[t] = "received" => inflight[t] = "received"
  <2>1. CASE StopMainQueue(u) \/ CancelQueued(u)
      BY <1>2, <2>1, ReleaseReceives
  <2>2. CASE BlockActive(u)
      BY <1>3, <2>2, ReleaseReceives
  <2>3. CASE ResumeById(u)
      BY <1>4, <2>3
  <2> QED
      BY <1>6, <2>1, <2>2, <2>3
<1> QED
    BY <1>5, <1>6 DEF Others, Intervenes


-----------------------------------------------------------------------------
\* The run of a message has its task in hand.

\* Runs whose binding a handler of another run has set or deleted, or which the
\* switched-off monitor hid.
Crossed == overwritten \cup forgotten \cup unseen

\* The end of the run of m will ask for task t: m still waits for its run, or its
\* session is bound to t and no handler holds another task, or the handler of its
\* end holds t.
Holding(m, t) ==
    \/ stage[m] = "waiting"
    \/ /\ stage[m] \in Serving /\ bound[SessionOf[m]] = t
       /\ \A h \in {"output", "tool"} : pc[m][h] = "idle" \/ (pc[m][h] = "call" /\ knows[m][h] = t)
    \/ stage[m] = "over" /\ pc[m]["end"] \in Asking /\ knows[m]["end"] = t

\* The end of the run has asked.
Returned(m) == stage[m] = "over" /\ pc[m]["end"] \in {"forget", "idle"}

LEMMA BystanderHolding ==
    ASSUME BindingOK, Stages, NEW m \in Message, NEW n \in Message, n # m, RunStep(n),
           NEW t, Holding(m, t)
    PROVE  m \in Crossed' \/ Holding(m, t)'
<1>1. stage'[m] = stage[m] /\ pc'[m] = pc[m] /\ knows'[m] = knows[m]
    BY Bystanders
<1>2. CASE stage[m] \in Serving
  <2>1. m \in overwritten' \/ m \in forgotten' \/ bound'[SessionOf[m]] = bound[SessionOf[m]]
      BY <1>2, ServedUntouched
  <2> QED
      BY <1>1, <1>2, <2>1 DEF Holding, Crossed, Serving
<1>3. CASE stage[m] \notin Serving
    BY <1>1, <1>3 DEF Holding
<1> QED
    BY <1>2, <1>3

\* A hook that asks for a task in flight gets it.
LEMMA TargetIsKnown ==
    ASSUME NEW m \in Message, NEW h \in Handler, NEW t \in Task, knows[m][h] = t, inflight[t] # "absent"
    PROVE  Targets(SessionOf[m], knows[m][h]) = {t}
  BY NoTaskAssumption DEF Targets

\* A handler of a run that has its task in hand, and asks for the binding.
LEMMA EnsureHolding ==
    ASSUME BindingOK, NEW m \in Message, NEW h \in Handler, NEW t \in Task, ensureActiveTaskBinding(m, h),
           stage[m] = "running", Holding(m, t)
    PROVE  /\ bound'[SessionOf[m]] = t
           /\ \A g \in Handler \ {h} : pc'[m][g] = pc[m][g] /\ knows'[m][g] = knows[m][g]
           /\ \/ h = "output" /\ pc'[m][h] = "idle"
              \/ knows'[m][h] = t /\ (pc'[m][h] = "call" \/ (h = "end" /\ pc'[m][h] = "call hushed"))
<1>1. bound[SessionOf[m]] = t /\ t # NoTask /\ SessionOf[m] \in Session
    BY NoTaskAssumption, OwnMessages DEF Holding
<1>2. bound'[SessionOf[m]] = t
    BY <1>1, EnsureBinds
<1>3. /\ \A g \in Handler \ {h} : pc'[m][g] = pc[m][g] /\ knows'[m][g] = knows[m][g]
      /\ \/ h = "output" /\ pc'[m][h] = "idle"
         \/ /\ knows'[m][h] = bound[SessionOf[m]]
            /\ pc'[m][h] = "call" \/ (h = "end" /\ pc'[m][h] = "call hushed")
  <2>1. /\ \A g \in Handler \ {h} : pc'[m][g] = pc[m][g] /\ knows'[m][g] = knows[m][g]
        /\ \/ h = "output" /\ pc'[m][h] = "idle"
           \/ /\ knows'[m][h] = bound[SessionOf[m]]
              /\ pc'[m][h] = "call" \/ (h = "end" /\ pc'[m][h] = "call hushed")
           \/ bound[SessionOf[m]] = NoTask
      BY EnsureMoves, ZenonT(30)
  <2> QED
      BY <1>1, <2>1
<1> QED
    BY <1>1, <1>2, <1>3

LEMMA OwnHolding ==
    ASSUME TypeOK, BindingOK, Stages, NEW m \in Message, RunStep(m), NEW t \in Task,
           decision[m] = t, inflight[t] \in Wanted, Holding(m, t)
    PROVE  \/ m \in Crossed' \/ Holding(m, t)' \/ inflight'[t] = "absent"
           \/ Returned(m)' /\ t \in skipped'
<1> USE DEF Handler
<1>0. /\ Staged(m) /\ t # NoTask /\ t # Pending /\ inflight[t] # "absent" /\ inflight[t] # "blocked"
      /\ SessionOf[m] \in Session /\ DOMAIN bound = Session /\ DOMAIN decision = Message
      /\ stage \in [Message -> {"unsent", "waiting", "dispatched", "running", "over"}]
    BY NoTaskAssumption, OwnMessages DEF Stages, Wanted, ACTIVE_STATUSES, OBSERVED_STATUSES, BindingOK
<1>1. CASE Receive(m)
    BY <1>0, <1>1 DEF Receive, Holding
<1>2. CASE before_dispatch(m)
  <2>1. stage'[m] = "dispatched" /\ pc' = pc /\ knows' = knows /\ stage[m] = "waiting"
      BY <1>0, <1>2 DEF before_dispatch, Dispatched, calls
  <2>2. decision'[m] = t
      BY <1>0, <1>2 DEF before_dispatch
  <2>3. bound'[SessionOf[m]] = t
      BY <1>0, <1>2, <2>2 DEF before_dispatch, Rebind
  <2>4. \A h \in Handler : pc[m][h] = "idle"
      BY <1>0, <2>1 DEF Staged
  <2> QED
      BY <2>1, <2>3, <2>4 DEF Holding, Serving
<1>3. CASE DispatchUnwatched(m)
    BY <1>3 DEF DispatchUnwatched, Crossed
<1>4. CASE before_agent_start(m)
  <2>1. stage'[m] = "running" /\ stage[m] = "dispatched" /\ pc' = pc /\ knows' = knows /\ bound' = bound
      BY <1>0, <1>4 DEF before_agent_start, calls, binding
  <2> QED
      BY <2>1 DEF Holding, Serving
<1>5. ASSUME NEW h \in {"output", "tool"}, ensureActiveTaskBinding(m, h), stage[m] = "running", stage' = stage
      PROVE  Holding(m, t)'
  <2>0. h # "end" /\ h \in Handler
      OBVIOUS
  <2>1. bound'[SessionOf[m]] = t
      BY <1>5, <2>0, EnsureHolding, ZenonT(60)
  <2>2. \A g \in Handler \ {h} : pc'[m][g] = pc[m][g] /\ knows'[m][g] = knows[m][g]
      BY <1>5, <2>0, EnsureHolding, ZenonT(60)
  <2>3. \/ h = "output" /\ pc'[m][h] = "idle"
        \/ knows'[m][h] = t /\ (pc'[m][h] = "call" \/ (h = "end" /\ pc'[m][h] = "call hushed"))
      BY <1>5, <2>0, EnsureHolding, ZenonT(60)
  <2>4. pc'[m][h] = "idle" \/ (pc'[m][h] = "call" /\ knows'[m][h] = t)
      BY <2>0, <2>3
  <2> QED
      BY <1>5, <2>1, <2>2, <2>4 DEF Holding, Serving
<1>6. CASE OutputUnwatched(m) \/ create_followup_plan(m)
  <2>1. stage' = stage /\ bound' = bound
      BY <1>6 DEF OutputUnwatched, create_followup_plan, binding
  <2>2. PICK h \in {"output", "tool"} : Returns(m, h)
      BY <1>6 DEF OutputUnwatched, create_followup_plan
  <2>3. /\ \A g \in Handler \ {h} : pc'[m][g] = pc[m][g] /\ knows'[m][g] = knows[m][g]
        /\ pc'[m][h] = "idle"
      BY <2>2, ReturnsMoves
  <2> QED
      BY <2>1, <2>3 DEF Holding
<1>7. CASE progress_active(m)
  <2>1. /\ \A g \in Handler \ {"output"} : pc'[m][g] = pc[m][g] /\ knows'[m][g] = knows[m][g]
        /\ pc'[m]["output"] = "idle" /\ stage' = stage /\ pc[m]["output"] = "call"
      BY <1>7, ReturnsMoves DEF progress_active
  <2>2. CASE bound'[SessionOf[m]] = bound[SessionOf[m]] \/ stage[m] \notin Serving
      BY <2>1, <2>2 DEF Holding
  <2>3. CASE stage[m] \in Serving
    <3>1. knows[m]["output"] = t
        BY <2>1, <2>3 DEF Holding, Serving
    <3>2. Targets(SessionOf[m], knows[m]["output"]) = {t}
        BY <1>0, <3>1, TargetIsKnown
    <3>3. ProgressRepairsSkip(t) \/ UNCHANGED binding
        BY <1>0, <1>7, <3>2 DEF progress_active
    <3>4. ProgressRepairsSkip(t) => inflight'[t] = "absent"
        BY <1>0, FinishEffect DEF ProgressRepairsSkip
    <3> QED
        BY <2>2, <3>3, <3>4 DEF binding
  <2> QED
      BY <2>2, <2>3
<1>8. CASE agent_end(m)
  <2>1. ensureActiveTaskBinding(m, "end") /\ stage[m] = "running" /\ stage'[m] = "over"
      BY <1>0, <1>8 DEF agent_end, RunEnds
  <2>2. knows'[m]["end"] = t /\ pc'[m]["end"] \in Asking
      BY <2>1, EnsureHolding DEF Asking
  <2> QED
      BY <2>1, <2>2 DEF Holding
<1>9. CASE EndUnwatched(m)
  <2>1. m \in unseen /\ unseen' = unseen
      BY <1>0, <1>9 DEF EndUnwatched, RunEnds, Staged, Serving
  <2> QED
      BY <2>1 DEF Crossed
<1>10. CASE finalize_active(m)
  <2>1. stage[m] = "over" /\ stage' = stage /\ pc'[m]["end"] = "forget"
      BY <1>0, <1>10, FinalizeMoves DEF finalize_active, Staged
  <2>2. knows[m]["end"] = t
      BY <2>1 DEF Holding, Serving
  <2>3. Targets(SessionOf[m], knows[m]["end"]) = {t}
      BY <1>0, <2>2, TargetIsKnown
  <2>4. FinishActive(t) \/ FinalizeSkipped(t)
      BY <1>0, <1>10, <2>3 DEF finalize_active
  <2>5. inflight'[t] = "absent" \/ t \in skipped'
      BY <1>0, <2>4, FinishEffect DEF FinishActive, FinalizeSkipped
  <2> QED
      BY <2>1, <2>5 DEF Returned
<1>11. CASE Forget(m)
  <2>1. stage[m] = "over" /\ pc[m]["end"] = "forget"
      BY <1>0, <1>11 DEF Forget, Staged
  <2> QED
      BY <2>1 DEF Holding, Serving, Asking
<1>12. ASSUME NEW h \in Handler, Bind(m, h) PROVE Holding(m, t)'
  <2>1. PICK u, mark : Holds(m, h, u, mark)
      BY <1>12, Zenon DEF Bind
  <2>2. \A g \in Handler \ {h} : pc'[m][g] = pc[m][g] /\ knows'[m][g] = knows[m][g]
      BY <2>1, HoldsMoves, ZenonT(60)
  <2>3. stage' = stage /\ pc[m][h] \in {"bind", "bind hushed"}
      BY <1>12 DEF Bind
  <2>4. stage[m] = "over" /\ h # "end"
      BY <1>0, <2>3 DEF Holding, Staged, Serving, Asking
  <2> QED
      BY <2>2, <2>3, <2>4 DEF Holding, Serving
<1>13. CASE llm_output(m) \/ ts_create_followup_plan(m)
    BY <1>5, <1>13 DEF llm_output, ts_create_followup_plan
<1> QED
    BY <1>1, <1>2, <1>3, <1>4, <1>6, <1>7, <1>8, <1>9, <1>10, <1>11, <1>12, <1>13 DEF RunStep


\* The end of a run asks once.
LEMMA ReturnedStays ==
    ASSUME BindingOK, Stages, NEW m \in Message, NEW n \in Message, RunStep(n), Returned(m)
    PROVE  Returned(m)'
<1>1. CASE n # m
    BY <1>1, Bystanders DEF Returned
<1>2. CASE n = m
  <2> USE DEF Handler
  <2>0. RunStep(m) /\ stage[m] = "over" /\ pc[m]["end"] \in {"forget", "idle"}
      BY <1>2 DEF Returned
  <2>1. stage'[m] = "over"
      BY <2>0, StageMoves
  <2>2. CASE OutputUnwatched(m) \/ progress_active(m) \/ create_followup_plan(m) \/ Forget(m)
    <3>1. PICK h \in Handler : Returns(m, h)
        BY <2>2 DEF OutputUnwatched, progress_active, create_followup_plan, Forget
    <3>2. pc'[m]["end"] \in {"forget", "idle"}
        BY <2>0, <3>1, ReturnsMoves
    <3> QED
        BY <2>1, <3>2 DEF Returned
  <2>3. ASSUME NEW h \in Handler, Bind(m, h) PROVE Returned(m)'
    <3>1. PICK t, mark : Holds(m, h, t, mark)
        BY <2>3, Zenon DEF Bind
    <3>2. h # "end" /\ \A g \in Handler \ {h} : pc'[m][g] = pc[m][g]
        BY <2>0, <2>3, <3>1, HoldsMoves, ZenonT(60) DEF Bind
    <3> QED
        BY <2>0, <2>1, <3>2 DEF Returned
  <2>4. CASE finalize_active(m)
      BY <2>0, <2>4 DEF finalize_active
  <2>5. CASE \/ Receive(m) \/ before_dispatch(m) \/ DispatchUnwatched(m) \/ before_agent_start(m) \/ llm_output(m)
             \/ ts_create_followup_plan(m) \/ agent_end(m) \/ EndUnwatched(m)
      BY <2>0, <2>5 DEF Receive, before_dispatch, DispatchUnwatched, Dispatched, before_agent_start, llm_output,
          ts_create_followup_plan, agent_end, EndUnwatched, RunEnds
  <2> QED
      BY <2>0, <2>2, <2>3, <2>4, <2>5 DEF RunStep
<1> QED
    BY <1>1, <1>2

\* A registration is answered once, by a task that is then in flight.
LEMMA Decided ==
    ASSUME TypeOK, QueueOrderTotal, BindingOK, Stages, NEW m \in Message, RunStep(m), decision'[m] # decision[m]
    PROVE  /\ decision[m] = Pending
           /\ decision'[m] \in Task => Registered(decision'[m]) /\ (Receive(m) \/ before_dispatch(m))
<1>0. DOMAIN decision = Message /\ Staged(m)
    BY DEF BindingOK, Stages
<1>1. ASSUME NEW a \in Task \cup {NoTask}, NEW start \in BOOLEAN, register(m, start, a),
             decision' = [decision EXCEPT ![m] = a]
      PROVE  decision'[m] \in Task => Registered(decision'[m])
    BY <1>0, <1>1, RegisterEffect
<1>2. CASE Receive(m)
    BY <1>0, <1>1, <1>2 DEF Receive, Staged
<1>3. CASE before_dispatch(m)
    BY <1>1, <1>3 DEF before_dispatch
<1>4. CASE DispatchUnwatched(m)
    BY <1>0, <1>4, NoTaskAssumption DEF DispatchUnwatched
<1>5. CASE llm_output(m) \/ ts_create_followup_plan(m) \/ agent_end(m)
    BY <1>5 DEF llm_output, ts_create_followup_plan, agent_end, ensureActiveTaskBinding
<1>6. CASE \/ before_agent_start(m) \/ OutputUnwatched(m) \/ create_followup_plan(m) \/ EndUnwatched(m)
           \/ finalize_active(m) \/ Forget(m) \/ progress_active(m) \/ \E h \in Handler : Bind(m, h)
    BY <1>6 DEF before_agent_start, OutputUnwatched, create_followup_plan, EndUnwatched, finalize_active, Forget,
        progress_active, Bind
<1> QED
    BY <1>2, <1>3, <1>4, <1>5, <1>6 DEF RunStep

\* A task that has ended stays so, and one that wants a run goes on wanting it
\* or ends, whatever runs do.
LEMMA StoreSettles ==
    ASSUME TypeOK, QueueOrderTotal, BindingOK, Stages, NEW n \in Message, RunStep(n), NEW t \in Task,
           created_at[t] # 0, inflight[t] \in Wanted \cup {"absent"}
    PROVE  /\ created_at'[t] # 0 /\ inflight'[t] \in Wanted \cup {"absent"}
           /\ inflight[t] = "absent" => inflight'[t] = "absent"
<1>1. Kept(t) \/ WorkedOn(t) \/ Registered(t)
    BY StepEffect
<1> QED
    BY <1>1 DEF Kept, WorkedOn, Registered, Wanted, ACTIVE_STATUSES, OBSERVED_STATUSES

\* What is done by nobody's run.
Elsewhere == Others \/ (\E s \in Session : TaskMonitorCommand(s)) \/ UNCHANGED rvars

LEMMA ElsewhereKeeps ==
    ASSUME TypeOK, BindingOK, Stages, Elsewhere
    PROVE  /\ stage' = stage /\ decision' = decision /\ pc' = pc /\ knows' = knows /\ silent' = silent
           /\ planned' = planned /\ overwritten' = overwritten /\ forgotten' = forgotten /\ unseen' = unseen
           /\ disturbed \subseteq disturbed' /\ revived \subseteq revived' /\ skipped' = skipped
           /\ \A m \in Message : stage[m] \in Serving =>
                 /\ bound'[SessionOf[m]] = bound[SessionOf[m]]
                 /\ SessionOf[m] \in hushed' <=> SessionOf[m] \in hushed
           /\ \A m \in Message : m \notin disturbed' /\ decision[m] \in Task => Kept(decision[m])
           /\ \A t \in Task : inflight'[t] \in Wanted /\ SessionOf[t] \notin revived' => inflight[t] \in Wanted
<1>1. CASE Others
  <2>1. /\ created_at' = created_at /\ skipped' = skipped
        /\ \A t \in Task : inflight'[t] = "received" => inflight[t] = "received"
      <3>1. \A t \in Task : /\ created_at' = created_at /\ skipped' = skipped
                            /\ inflight'[t] = "received" => inflight[t] = "received"
          BY <1>1, OthersEffect
      <3>2. Task # {}
          BY <1>1, WatchdogStep DEF Others, Intervenes
      <3> QED
          BY <3>1, <3>2
  <2>2. \A t \in Task : t \notin Moved => Kept(t)
      BY <2>1 DEF Moved, Kept
  <2>3. \A m \in Message : m \notin disturbed' /\ decision[m] \in Task => Kept(decision[m])
      BY <1>1, <2>2 DEF Others
  <2>4. ASSUME NEW t \in Task, inflight'[t] \in Wanted, SessionOf[t] \notin revived' PROVE inflight[t] \in Wanted
    <3>1. t \notin Moved \/ inflight'[t] \notin ACTIVE_STATUSES
        BY <1>1, <2>4 DEF Others
    <3> QED
        BY <2>1, <2>2, <2>4, <3>1 DEF Kept, Wanted, ACTIVE_STATUSES, OBSERVED_STATUSES
  <2> QED
      BY <1>1, <2>1, <2>3, <2>4 DEF Others, calls, binding
<1>2. ASSUME NEW s \in Session, TaskMonitorCommand(s) PROVE Elsewhere /\ KeepStore /\ stage' = stage /\ decision' = decision
          /\ \A m \in Message : stage[m] \in Serving =>
                 /\ bound'[SessionOf[m]] = bound[SessionOf[m]]
                 /\ SessionOf[m] \in hushed' <=> SessionOf[m] \in hushed
  <2>1. \A m \in Message : stage[m] \in Serving => SessionOf[m] # s
      BY <1>2 DEF TaskMonitorCommand, Undisturbed, SentIn, Serving
  <2> QED
      BY <1>2, <2>1, OwnMessages DEF TaskMonitorCommand, BindingOK, binding, Elsewhere
<1>3. KeepStore => skipped' = skipped /\ inflight' = inflight /\ created_at' = created_at
    BY DEF KeepStore, vars, flags
<1>4. CASE \E s \in Session : TaskMonitorCommand(s)
    BY <1>2, <1>3, <1>4 DEF TaskMonitorCommand, calls, Kept
<1>5. CASE UNCHANGED rvars
    BY <1>5 DEF rvars, vars, flags, calls, history, binding, Kept
<1> QED
    BY <1>1, <1>4, <1>5 DEF Elsewhere


-----------------------------------------------------------------------------
\* The tasks of messages, and the runs that end them.

WellFormed == TypeOK /\ QueueOrderTotal /\ BindingOK /\ Stages

\* A message that was registered as a task, which nobody else moved.
Owns(m) == m \notin disturbed /\ decision[m] \in Task

\* Its task is in the store and wants a run, until it ends.
Settled ==
    \A m \in Message : Owns(m) =>
        created_at[decision[m]] # 0 /\ inflight[decision[m]] \in Wanted \cup {"absent"}

\* Unless handlers of other runs crossed its own, a run has its task in hand
\* until its end has asked for it.
Faithful ==
    \A m \in Message \ Crossed : Owns(m) =>
        inflight[decision[m]] = "absent" \/ Holding(m, decision[m]) \/ Returned(m)

\* Every task that wants a run has a message whose run has it in hand, or had it
\* before handlers crossed.
Tended ==
    \A t \in Task :
        inflight[t] \in Wanted /\ SessionOf[t] \notin revived /\ t \notin skipped
        => \E m \in Message : decision[m] = t /\ (m \in Crossed \/ Holding(m, t))

\* A message that has just been registered waits for its run, or its session is
\* bound to its task.
LEMMA NewlyHolding ==
    ASSUME BindingOK, Stages, NEW m \in Message, Receive(m) \/ before_dispatch(m),
           NEW t \in Task, decision'[m] = t
    PROVE  Holding(m, t)'
<1>0. /\ SessionOf[m] \in Session /\ DOMAIN bound = Session /\ Staged(m)
      /\ stage \in [Message -> {"unsent", "waiting", "dispatched", "running", "over"}]
    BY OwnMessages DEF Stages, BindingOK
<1>1. CASE Receive(m)
    BY <1>0, <1>1 DEF Receive, Holding
<1>2. CASE before_dispatch(m)
  <2>1. stage'[m] = "dispatched" /\ pc' = pc /\ stage[m] = "waiting"
      BY <1>0, <1>2 DEF before_dispatch, Dispatched, calls
  <2>2. bound'[SessionOf[m]] = t
      BY <1>0, <1>2, NoTaskAssumption DEF before_dispatch, Rebind
  <2>3. \A h \in Handler : pc[m][h] = "idle"
      BY <1>0, <2>1 DEF Staged
  <2> QED
      BY <2>1, <2>2, <2>3 DEF Holding, Serving, Handler
<1> QED
    BY <1>1, <1>2

LEMMA SettledKept ==
    ASSUME WellFormed, Settled, [RunNext]_rvars
    PROVE  Settled'
<1> SUFFICES ASSUME NEW m \in Message, m \notin disturbed', NEW t \in Task, decision'[m] = t
             PROVE  created_at'[t] # 0 /\ inflight'[t] \in Wanted \cup {"absent"}
    BY DEF Settled, Owns
<1> USE DEF WellFormed
<1>1. ASSUME NEW n \in Message, RunStep(n), decision[m] = t
      PROVE  created_at'[t] # 0 /\ inflight'[t] \in Wanted \cup {"absent"}
  <2>1. created_at[t] # 0 /\ inflight[t] \in Wanted \cup {"absent"}
      BY <1>1, Remembers DEF Settled, Owns
  <2> QED
      BY <1>1, <2>1, StoreSettles
<1>2. ASSUME NEW n \in Message, RunStep(n), decision[m] # t
      PROVE  created_at'[t] # 0 /\ inflight'[t] \in Wanted \cup {"absent"}
  <2>1. n = m
      BY <1>2, Bystanders
  <2> QED
      BY <1>2, <2>1, Decided DEF Registered
<1>3. CASE Elsewhere
  <2>1. decision[m] = t /\ m \notin disturbed /\ Kept(t)
      BY <1>3, ElsewhereKeeps
  <2>2. created_at[t] # 0 /\ inflight[t] \in Wanted \cup {"absent"}
      BY <2>1 DEF Settled, Owns
  <2> QED
      BY <2>1, <2>2 DEF Kept, Wanted, ACTIVE_STATUSES
<1> QED
    BY <1>1, <1>2, <1>3 DEF RunNext, Elsewhere

LEMMA FaithfulKept ==
    ASSUME WellFormed, Settled, Faithful, [RunNext]_rvars
    PROVE  Faithful'
<1> SUFFICES ASSUME NEW m \in Message, m \notin Crossed', m \notin disturbed',
                    NEW t \in Task, decision'[m] = t
             PROVE  inflight'[t] = "absent" \/ Holding(m, t)' \/ Returned(m)'
    BY DEF Faithful, Owns, Holding
<1> USE DEF WellFormed
<1>1. ASSUME NEW n \in Message, RunStep(n), decision[m] = t
      PROVE  inflight'[t] = "absent" \/ Holding(m, t)' \/ Returned(m)'
  <2>1. /\ m \notin disturbed /\ m \notin Crossed /\ created_at[t] # 0 /\ inflight[t] \in Wanted \cup {"absent"}
        /\ inflight[t] = "absent" \/ Holding(m, t) \/ Returned(m)
      BY <1>1, Remembers DEF Settled, Faithful, Owns, Crossed
  <2>2. CASE inflight[t] = "absent"
      BY <1>1, <2>1, <2>2, StoreSettles
  <2>3. CASE Returned(m)
      BY <1>1, <2>3, ReturnedStays
  <2>4. CASE inflight[t] \in Wanted /\ Holding(m, t) /\ n # m
      BY <1>1, <2>4, BystanderHolding
  <2>5. CASE inflight[t] \in Wanted /\ Holding(m, t) /\ n = m
      BY <1>1, <2>5, OwnHolding
  <2> QED
      BY <2>1, <2>2, <2>3, <2>4, <2>5
<1>2. ASSUME NEW n \in Message, RunStep(n), decision[m] # t
      PROVE  Holding(m, t)'
  <2>1. n = m
      BY <1>2, Bystanders
  <2>2. Receive(m) \/ before_dispatch(m)
      BY <1>2, <2>1, Decided
  <2> QED
      BY <2>2, NewlyHolding
<1>3. CASE Elsewhere
  <2>1. /\ decision[m] = t /\ m \notin disturbed /\ m \notin Crossed /\ Kept(t)
        /\ stage' = stage /\ pc' = pc /\ knows' = knows
        /\ stage[m] \in Serving => bound'[SessionOf[m]] = bound[SessionOf[m]]
      BY <1>3, ElsewhereKeeps DEF Crossed
  <2>2. inflight[t] = "absent" \/ Holding(m, t) \/ Returned(m)
      BY <2>1 DEF Faithful, Owns
  <2> QED
      BY <2>1, <2>2 DEF Kept, Holding, Returned
<1> QED
    BY <1>1, <1>2, <1>3 DEF RunNext, Elsewhere


LEMMA TendedKept ==
    ASSUME WellFormed, Tended, [RunNext]_rvars
    PROVE  Tended'
<1> SUFFICES ASSUME NEW t \in Task, inflight'[t] \in Wanted, SessionOf[t] \notin revived', t \notin skipped'
             PROVE  \E m \in Message : decision'[m] = t /\ (m \in Crossed' \/ Holding(m, t)')
    BY DEF Tended, Holding
<1> USE DEF WellFormed
<1>0. inflight'[t] # "absent" /\ t # Pending
    BY NoTaskAssumption DEF Wanted, ACTIVE_STATUSES, OBSERVED_STATUSES
<1>1. ASSUME NEW n \in Message, RunStep(n), inflight[t] \in Wanted
      PROVE  \E m \in Message : decision'[m] = t /\ (m \in Crossed' \/ Holding(m, t)')
  <2>1. PICK m \in Message : decision[m] = t /\ (m \in Crossed \/ Holding(m, t))
    <3>1. SessionOf[t] \notin revived /\ t \notin skipped
        BY <1>1, Remembers, StepEffect
    <3> QED
        BY <1>1, <3>1 DEF Tended
  <2>2. decision'[m] = t
    <3>1. CASE n = m
        BY <1>0, <1>1, <2>1, <3>1, Decided
    <3>2. CASE n # m
        BY <1>1, <2>1, <3>2, Bystanders
    <3> QED
        BY <3>1, <3>2
  <2>3. m \in Crossed => m \in Crossed'
      BY <1>1, Remembers DEF Crossed
  <2>4. CASE Holding(m, t) /\ n # m
      BY <1>1, <2>2, <2>4, BystanderHolding
  <2>5. CASE Holding(m, t) /\ n = m
      BY <1>0, <1>1, <2>1, <2>2, <2>5, OwnHolding
  <2> QED
      BY <2>1, <2>2, <2>3, <2>4, <2>5
<1>2. ASSUME NEW n \in Message, RunStep(n), inflight[t] \notin Wanted
      PROVE  Holding(n, t)' /\ decision'[n] = t
  <2>1. ~ Kept(t) /\ ~ WorkedOn(t)
      BY <1>0, <1>2 DEF Kept, WorkedOn, Wanted, ACTIVE_STATUSES
  <2>2. decision'[n] = t /\ (Receive(n) \/ before_dispatch(n))
      BY <1>2, <2>1, StepEffect
  <2> QED
      BY <2>2, NewlyHolding
<1>3. CASE Elsewhere
  <2>1. /\ inflight[t] \in Wanted /\ SessionOf[t] \notin revived /\ t \notin skipped
        /\ stage' = stage /\ decision' = decision /\ pc' = pc /\ knows' = knows /\ Crossed' = Crossed
        /\ \A m \in Message : stage[m] \in Serving => bound'[SessionOf[m]] = bound[SessionOf[m]]
      BY <1>3, ElsewhereKeeps DEF Crossed
  <2>2. PICK m \in Message : decision[m] = t /\ (m \in Crossed \/ Holding(m, t))
      BY <2>1 DEF Tended
  <2> QED
      BY <2>1, <2>2 DEF Holding
<1> QED
    BY <1>1, <1>2, <1>3 DEF RunNext, Elsewhere

LEMMA RunsWellFormed == RunSpec => []WellFormed
  BY RunsAreHooks, TypeCorrect, QueueOrdered, BindingTyped, StagesHold, PTL DEF WellFormed

LEMMA SettledHolds == RunSpec => []Settled
<1>1. RunInit => Settled
    BY NoTaskAssumption DEF RunInit, Settled, Owns
<1>2. WellFormed /\ Settled /\ [RunNext]_rvars => Settled'
    BY SettledKept
<1> QED
    BY <1>1, <1>2, RunsWellFormed, PTL DEF RunSpec

LEMMA FaithfulHolds == RunSpec => []Faithful
<1>1. RunInit => Faithful
    BY NoTaskAssumption DEF RunInit, Faithful, Owns
<1>2. WellFormed /\ Settled /\ Faithful /\ [RunNext]_rvars => Faithful'
    BY FaithfulKept
<1> QED
    BY <1>1, <1>2, RunsWellFormed, SettledHolds, PTL DEF RunSpec

LEMMA TendedHolds == RunSpec => []Tended
<1>1. RunInit => Tended
    BY DEF RunInit, Init, Tended, Wanted, ACTIVE_STATUSES, OBSERVED_STATUSES
<1>2. WellFormed /\ Tended /\ [RunNext]_rvars => Tended'
    BY TendedKept
<1> QED
    BY <1>1, <1>2, RunsWellFormed, PTL DEF RunSpec

\* Nothing but the end of a run goes on to forget.
LEMMA OnlyEndsFinalize ==
    ASSUME BindingOK, Stages, NEW m \in Message, [RunNext]_rvars,
           pc[m]["end"] # "forget", pc'[m]["end"] = "forget"
    PROVE  finalize_active(m)
<1>1. ASSUME NEW n \in Message, n # m, RunStep(n) PROVE FALSE
    BY <1>1, Bystanders
<1>2. CASE RunStep(m)
  <2> USE DEF Handler
  <2>1. CASE \/ Receive(m) \/ before_dispatch(m) \/ DispatchUnwatched(m) \/ before_agent_start(m) \/ EndUnwatched(m)
      BY <2>1 DEF Receive, before_dispatch, DispatchUnwatched, Dispatched, before_agent_start, EndUnwatched, calls
  <2>2. CASE OutputUnwatched(m) \/ progress_active(m)
      BY <2>2, ReturnsMoves DEF OutputUnwatched, progress_active
  <2>3. CASE create_followup_plan(m) \/ Forget(m)
      BY <2>3, ReturnsMoves DEF create_followup_plan, Forget
  <2>4. ASSUME NEW h \in Handler, ensureActiveTaskBinding(m, h) PROVE FALSE
    <3>1. pc'[m]["end"] # "forget"
        BY <2>4, EnsureMoves DEF BindMode
    <3> QED
        BY <3>1
  <2>5. ASSUME NEW h \in Handler, Bind(m, h) PROVE FALSE
    <3>1. PICK t, mark : Holds(m, h, t, mark)
        BY <2>5, Zenon DEF Bind
    <3>2. pc'[m]["end"] # "forget"
        BY <3>1, HoldsMoves, ZenonT(60)
    <3> QED
        BY <3>2
  <2>6. CASE llm_output(m) \/ ts_create_followup_plan(m) \/ agent_end(m)
      BY <2>4, <2>6 DEF llm_output, ts_create_followup_plan, agent_end
  <2> QED
      BY <1>2, <2>1, <2>2, <2>3, <2>5, <2>6 DEF RunStep
<1>3. CASE Others \/ \E s \in Session : TaskMonitorCommand(s)
    BY <1>3 DEF Others, TaskMonitorCommand, calls
<1>4. CASE UNCHANGED rvars
    BY <1>4 DEF rvars, calls
<1> QED
    BY <1>1, <1>2, <1>3, <1>4 DEF RunNext

\* A task that holds the slot or waits has a message whose run is still to end
\* it, or whose run's handlers were crossed by another run's.
THEOREM NothingIsLeftRunning == RunSpec => []NothingLeftRunning
<1>1. Tended => NothingLeftRunning
  <2> SUFFICES ASSUME Tended, NEW t \in Task, inflight[t] \in ACTIVE_STATUSES,
                      SessionOf[t] \notin revived, t \notin skipped
               PROVE  \E m \in Message :
                          /\ decision[m] = t
                          /\ \/ stage[m] # "over" \/ pc[m]["end"] # "idle"
                             \/ m \in overwritten \cup forgotten \cup unseen
      BY DEF NothingLeftRunning
  <2>1. PICK m \in Message : decision[m] = t /\ (m \in Crossed \/ Holding(m, t))
      BY DEF Tended, Wanted
  <2> QED
      BY <2>1 DEF Crossed, Holding, Serving, Asking
<1> QED
    BY <1>1, TendedHolds, PTL

\* The end of a run that nobody crossed ends the task its message was registered
\* as and no other: the handler of the end holds that task (Faithful), and a hook
\* that asks for a task in flight gets it.
THEOREM RunsEndTheirOwn == RunSpec => EndsItsOwn
<1> DEFINE Ends(m) ==
        pc[m]["end"] # "forget" /\ pc'[m]["end"] = "forget"
        => \A t \in Task : inflight[t] # "absent" /\ inflight'[t] = "absent"
              => t = decision[m] \/ Lost(decision[m])
<1>1. WellFormed /\ Faithful /\ [RunNext]_rvars
      => \A m \in Message \ (disturbed \cup overwritten \cup forgotten) : Ends(m)
  <2> SUFFICES ASSUME WellFormed, Faithful, [RunNext]_rvars,
                      NEW m \in Message \ (disturbed \cup overwritten \cup forgotten),
                      pc[m]["end"] # "forget", pc'[m]["end"] = "forget",
                      ~ Lost(decision[m]),
                      NEW t \in Task, inflight[t] # "absent", inflight'[t] = "absent"
               PROVE  t = decision[m]
      OBVIOUS
  <2> USE DEF WellFormed
  <2>1. finalize_active(m)
      BY OnlyEndsFinalize
  <2>2. stage[m] = "over" /\ pc[m]["end"] \in Asking /\ m \notin unseen /\ decision[m] # Pending
      BY <2>1 DEF finalize_active, Asking, Stages, Staged
  <2>3. decision[m] \in Task /\ inflight[decision[m]] # "absent"
      BY <2>2 DEF Lost, BindingOK, Own, ACTIVE_STATUSES
  <2>4. knows[m]["end"] = decision[m]
      BY <2>2, <2>3 DEF Faithful, Owns, Crossed, Holding, Returned, Serving, Asking
  <2>5. Targets(SessionOf[m], knows[m]["end"]) = {decision[m]}
      BY <2>3, <2>4, TargetIsKnown DEF Handler
  <2>6. FinishActive(decision[m]) \/ FinalizeSkipped(decision[m]) \/ KeepStore
      BY <2>1, <2>5 DEF finalize_active
  <2>7. t # decision[m] => Kept(t)
    <3>1. CASE FinishActive(decision[m])
        BY <2>3, <3>1, FinishEffect DEF FinishActive
    <3>2. CASE FinalizeSkipped(decision[m]) \/ KeepStore
        BY <3>2 DEF FinalizeSkipped, KeepStore, vars, Kept
    <3> QED
        BY <2>6, <3>1, <3>2
  <2> QED
      BY <2>7 DEF Kept
<1>2. RunSpec => [][\A m \in Message \ (disturbed \cup overwritten \cup forgotten) : Ends(m)]_rvars
    BY <1>1, RunsWellFormed, FaithfulHolds, PTL DEF RunSpec
<1> QED
    BY <1>2, Zenon DEF EndsItsOwn


-----------------------------------------------------------------------------
\* A binding carries the plan of its own task.

\* A hushed session serves a run that asked for silence, or whose task's record
\* does, unless the task is gone or the run's binding was taken away.
HushedRightly(m) ==
    m \notin overwritten \cup unseen /\ Owns(m) /\ stage[m] \in Serving /\ SessionOf[m] \in hushed
    => \/ m \in planned \/ decision[m] \in silent \/ inflight[decision[m]] = "absent"
       \/ m \in forgotten /\ bound[SessionOf[m]] \in silent

Hushed == \A m \in Message : HushedRightly(m)

\* What the run itself does to the mark of its binding.
LEMMA OwnHush ==
    ASSUME BindingOK, Stages, Faithful, NEW m \in Message, RunStep(m), HushedRightly(m),
           m \notin overwritten', m \notin unseen', Owns(m), decision'[m] = decision[m],
           stage'[m] \in Serving, SessionOf[m] \in hushed'
    PROVE  \/ m \in planned' \/ decision[m] \in silent' \/ inflight[decision[m]] = "absent"
           \/ m \in forgotten' /\ bound'[SessionOf[m]] \in silent'
<1> DEFINE s == SessionOf[m]
           Right == \/ m \in planned' \/ decision[m] \in silent' \/ inflight[decision[m]] = "absent"
                    \/ m \in forgotten' /\ bound'[SessionOf[m]] \in silent'
<1>0. /\ s \in Session /\ DOMAIN bound = Session /\ DOMAIN decision = Message /\ Staged(m)
      /\ stage \in [Message -> {"unsent", "waiting", "dispatched", "running", "over"}]
      /\ silent \subseteq silent' /\ planned \subseteq planned' /\ forgotten \subseteq forgotten'
      /\ m \notin overwritten /\ m \notin unseen
    BY OwnMessages, Remembers DEF BindingOK, Stages
<1> USE DEF Handler
<1>1. ASSUME stage[m] \in Serving, SessionOf[m] \in hushed, bound'[SessionOf[m]] = bound[SessionOf[m]]
      PROVE  Right
    BY <1>0, <1>1 DEF HushedRightly
<1>2. CASE before_dispatch(m)
  <2>1. decision'[m] # NoTask
      BY NoTaskAssumption DEF Owns
  <2> QED
      BY <1>0, <1>2, <2>1 DEF before_dispatch, Rebind
<1>3. CASE Receive(m) \/ DispatchUnwatched(m) \/ agent_end(m) \/ EndUnwatched(m)
    BY <1>0, <1>3 DEF Receive, DispatchUnwatched, agent_end, EndUnwatched, RunEnds, Serving
<1>4. CASE before_agent_start(m)
    BY <1>1, <1>4 DEF before_agent_start, binding, Serving
<1>5. CASE llm_output(m)
  <2>1. bound'[SessionOf[m]] = bound[SessionOf[m]] /\ hushed' = hushed /\ stage[m] \in Serving
      BY <1>0, <1>5, EnsureBinds DEF llm_output, Serving
  <2> QED
      BY <1>1, <2>1
<1>6. CASE ts_create_followup_plan(m)
    BY <1>6 DEF ts_create_followup_plan
<1>7. CASE progress_active(m) \/ Forget(m)
  <2>1. Unbind(m) \/ UNCHANGED binding
      BY <1>7 DEF progress_active, Forget
  <2>2. UNCHANGED binding /\ stage' = stage
      BY <1>0, <1>7, <2>1 DEF Unbind, progress_active, Forget
  <2> QED
      BY <1>1, <2>2 DEF binding
<1>8. CASE OutputUnwatched(m) \/ create_followup_plan(m) \/ finalize_active(m)
  <2>1. UNCHANGED binding /\ stage' = stage
      BY <1>8 DEF OutputUnwatched, create_followup_plan, finalize_active
  <2> QED
      BY <1>1, <2>1 DEF binding
<1>9. ASSUME NEW h \in Handler, Bind(m, h) PROVE Right
  <2>1. PICK mark : Holds(m, h, knows[m][h], mark) /\ (mark <=> pc[m][h] = "bind hushed")
      BY <1>9, Zenon DEF Bind
  <2>2. /\ stage[m] \in Serving /\ pc[m][h] \in {"bind", "bind hushed"} /\ knows[m][h] # NoTask
        /\ pc[m][h] = "bind hushed" => knows[m][h] \in silent
      BY <1>0, <1>9 DEF Bind, Staged
  <2>3. h # "end" /\ (h = "tool" => m \in planned)
      BY <1>0, <2>2 DEF Staged, Serving
  <2>4. /\ bound' = [bound EXCEPT ![SessionOf[m]] = knows[m][h]]
        /\ hushed' = IF mark \/ h = "tool" THEN hushed \cup {SessionOf[m]} ELSE hushed \ {SessionOf[m]}
      BY <2>1, <2>2, Zenon DEF Holds
  <2>5. CASE h = "tool"
      BY <1>0, <2>3, <2>5
  <2>6. CASE h = "output"
    <3>1. bound'[SessionOf[m]] \in silent'
        BY <1>0, <2>1, <2>2, <2>4, <2>6
    <3>2. m \in forgotten \/ inflight[decision[m]] = "absent"
        BY <1>0, <2>2, <2>6 DEF Faithful, Crossed, Holding, Returned, Serving
    <3> QED
        BY <1>0, <3>1, <3>2
  <2> QED
      BY <2>3, <2>5, <2>6
<1> QED
    BY <1>2, <1>3, <1>4, <1>5, <1>6, <1>7, <1>8, <1>9 DEF RunStep

LEMMA HushedKept ==
    ASSUME WellFormed, Settled, Faithful, Hushed, [RunNext]_rvars
    PROVE  Hushed'
<1> SUFFICES ASSUME NEW m \in Message, m \notin overwritten', m \notin unseen', m \notin disturbed',
                    NEW t \in Task, decision'[m] = t, stage'[m] \in Serving, SessionOf[m] \in hushed'
             PROVE  \/ m \in planned' \/ t \in silent' \/ inflight'[t] = "absent"
                    \/ m \in forgotten' /\ bound'[SessionOf[m]] \in silent'
    BY DEF Hushed, HushedRightly, Owns
<1> USE DEF WellFormed
<1>0. HushedRightly(m) /\ SessionOf[m] \in Session
    BY OwnMessages DEF Hushed
<1>1. ASSUME NEW n \in Message, RunStep(n), decision[m] = t
      PROVE  \/ m \in planned' \/ t \in silent' \/ inflight'[t] = "absent"
             \/ m \in forgotten' /\ bound'[SessionOf[m]] \in silent'
  <2>1. /\ Owns(m) /\ m \notin overwritten /\ m \notin unseen
        /\ silent \subseteq silent' /\ planned \subseteq planned' /\ forgotten \subseteq forgotten'
      BY <1>1, Remembers DEF Owns
  <2>2. inflight[t] = "absent" => inflight'[t] = "absent"
      BY <1>1, <2>1, StoreSettles DEF Settled
  <2>3. CASE n = m
    <3>1. \/ m \in planned' \/ decision[m] \in silent' \/ inflight[decision[m]] = "absent"
          \/ m \in forgotten' /\ bound'[SessionOf[m]] \in silent'
        BY <1>0, <1>1, <2>1, <2>3, OwnHush
    <3> QED
        BY <1>1, <2>2, <3>1
  <2>4. CASE n # m
    <3>1. stage'[m] = stage[m]
        BY <1>1, <2>4, Bystanders
    <3>2. bound'[SessionOf[m]] = bound[SessionOf[m]] /\ SessionOf[m] \in hushed
        BY <1>1, <2>4, <3>1, ServedUntouched
    <3> QED
        BY <1>0, <1>1, <2>1, <2>2, <3>1, <3>2 DEF HushedRightly
  <2> QED
      BY <2>3, <2>4
<1>2. ASSUME NEW n \in Message, RunStep(n), decision[m] # t PROVE FALSE
  <2>1. n = m
      BY <1>2, Bystanders
  <2>2. Receive(m) \/ before_dispatch(m)
      BY <1>2, <2>1, Decided
  <2>3. DOMAIN bound = Session /\ t # NoTask
        /\ stage \in [Message -> {"unsent", "waiting", "dispatched", "running", "over"}]
      BY NoTaskAssumption DEF BindingOK
  <2> QED
      BY <2>2, <2>3 DEF Receive, before_dispatch, Rebind, Serving
<1>3. CASE Elsewhere
  <2>1. /\ decision[m] = t /\ m \notin disturbed /\ Kept(t) /\ stage' = stage /\ silent' = silent /\ planned' = planned
        /\ overwritten' = overwritten /\ forgotten' = forgotten /\ unseen' = unseen
        /\ bound'[SessionOf[m]] = bound[SessionOf[m]] /\ SessionOf[m] \in hushed
      BY <1>3, ElsewhereKeeps
  <2> QED
      BY <1>0, <2>1 DEF HushedRightly, Owns, Kept
<1> QED
    BY <1>1, <1>2, <1>3 DEF RunNext, Elsewhere

\* The text of a run that was registered as a task is suppressed only when the
\* run or its task's record asks for silence, or the binding of the run was
\* deleted by a late handler: a binding never carries an earlier run's plan over.
THEOREM AnswersStayAudible == RunSpec => []AnswersAreNotSwallowed
<1>1. RunInit => Hushed
    BY DEF RunInit, Hushed, HushedRightly
<1>2. WellFormed /\ Settled /\ Faithful /\ Hushed /\ [RunNext]_rvars => Hushed'
    BY HushedKept
<1>3. WellFormed /\ Hushed => AnswersAreNotSwallowed
  <2> SUFFICES ASSUME WellFormed, Hushed, NEW m \in Message, m \notin disturbed \cup overwritten \cup unseen,
                      stage[m] = "running", SessionOf[m] \in hushed, decision[m] # NoTask
               PROVE  \/ m \in planned \/ decision[m] \in silent \/ Lost(decision[m])
                      \/ m \in forgotten /\ bound[SessionOf[m]] \in silent
      BY DEF AnswersAreNotSwallowed
  <2>1. decision[m] \in Task
      BY DEF WellFormed, BindingOK, Own, Stages, Staged
  <2>2. HushedRightly(m)
      BY DEF Hushed
  <2> QED
      BY <2>1, <2>2 DEF HushedRightly, Owns, Serving, Lost, ACTIVE_STATUSES
<1> QED
    BY <1>1, <1>2, <1>3, RunsWellFormed, SettledHolds, FaithfulHolds, PTL DEF RunSpec

=============================================================================
