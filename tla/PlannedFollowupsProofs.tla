----------------------- MODULE PlannedFollowupsProofs -----------------------
(***************************************************************************)
(* Planning does to the store nothing but what its hooks do, a promise     *)
(* that was checked is kept or flagged, and none is called broken while    *)
(* its follow-up is alive.                                                 *)
(***************************************************************************)
EXTENDS PlannedFollowups, TaskLifecycleProofs

\* Each step of the tools, the runner and the others is one hook of the store, or
\* none.
LEMMA PlanStepIsAStep ==
    ASSUME [PlanNext]_pvars
    PROVE  [Next]_vars
<1>0. Source \subseteq Task /\ Planned \subseteq Task
    BY PlanAssumption, TaskAssumption
<1>1. ASSUME NEW t \in Task, TaskStep(t) PROVE [Next]_vars
    BY <1>1 DEF Next
<1>2. ASSUME NEW s \in Source, attach_promise_guard(s) \/ create_followup_plan(s) \/ finalize_planned_followup(s)
      PROVE  [Next]_vars
    BY <1>2 DEF attach_promise_guard, create_followup_plan, finalize_planned_followup
<1>3. ASSUME NEW s \in Source, NEW f \in Planned, NEW when \in {"future", "past"},
             schedule_followup_from_plan(s, f, when)
      PROVE  [Next]_vars
  <2>1. f \in Task /\ TaskStep(f)
      BY <1>0, <1>3 DEF schedule_followup_from_plan, TaskStep
  <2> QED
      BY <1>1, <2>1
<1>4. ASSUME NEW t \in Task, finalize_active(t) PROVE [Next]_vars
    BY <1>1, <1>4 DEF finalize_active, TaskStep
<1>5. ASSUME NEW f \in Planned, ReportsSent(f) \/ ReportsFailure(f) \/ ReportsNothing(f) \/ SayReply(f)
      PROVE  [Next]_vars
  <2>1. f \in Task /\ TaskStep(f)
      BY <1>0, <1>5 DEF ReportsSent, ReportsFailure, ReportsNothing, SayReply, TaskStep
  <2> QED
      BY <1>1, <2>1
<1>6. ASSUME NEW f \in Planned, SendReply(f) PROVE [Next]_vars
    BY <1>6 DEF SendReply
<1>7. CASE Others
  <2>1. ASSUME NEW t \in Task, Elsewhere(t) \/ Intervenes(t) PROVE [Next]_vars
      BY <1>1, <2>1 DEF Elsewhere, Intervenes, TaskStep
  <2> QED
      BY <1>7, <2>1 DEF Others, Next
<1>8. CASE UNCHANGED pvars
    BY <1>8 DEF pvars
<1> QED
    BY <1>2, <1>3, <1>4, <1>5, <1>6, <1>7, <1>8 DEF PlanNext

\* The tools, the runner, the agent, operators and the watchdog together are a
\* behaviour of the store: whatever is proved of TaskLifecycle holds with plans.
THEOREM PlansAreHooks == PlanSpec => Spec
<1>1. PlanInit => Init
    BY DEF PlanInit
<1> QED
    BY <1>1, PlanStepIsAStep, PTL DEF PlanSpec, Spec

-----------------------------------------------------------------------------
\* What a step of the store does to the tasks it does not schedule.

\* Nothing leaves the store, and a follow-up comes in flight from the archive only.
Conserves ==
    /\ archived \subseteq archived'
    /\ \A u \in Task : inflight[u] # "absent" /\ inflight'[u] = "absent" => u \in archived'
    /\ \A u \in Planned : inflight[u] = "absent" /\ inflight'[u] # "absent" => u \in archived

\* Giving the slot up touches the in-flight state of the given tasks only.
LEMMA ReleaseKeepsFlight ==
    ASSUME NEW f \in [Task -> Status], NEW T, NEW s \in Status
    PROVE  \A u \in Task \ T : Release(f, T, s)[u] = "absent" <=> f[u] = "absent"
<1> DEFINE h == [t \in Task |-> IF t \in T THEN s ELSE f[t]]
<1>1. h \in [Task -> Status] /\ \A u \in Task \ T : h[u] = f[u]
    OBVIOUS
<1>2. Release(f, T, s) = promote_next_queued_task(h, AgentsOf(T))
    BY DEF Release
<1> HIDE DEF h
<1>3. \A u \in Task : Release(f, T, s)[u] # h[u] => h[u] = "queued" /\ Release(f, T, s)[u] = "running"
    BY <1>1, <1>2, PromoteStatus
<1> QED
    BY <1>1, <1>3

\* A task that gives the slot up has the status it was given, or waits no more.
LEMMA ReleaseGives ==
    ASSUME NEW f \in [Task -> Status], NEW T, NEW s \in Status \ ACTIVE_STATUSES
    PROVE  \A u \in Task \cap T : Release(f, T, s)[u] = s
<1> DEFINE h == [t \in Task |-> IF t \in T THEN s ELSE f[t]]
<1>1. h \in [Task -> Status] /\ \A u \in Task \cap T : h[u] = s
    OBVIOUS
<1>2. Release(f, T, s) = promote_next_queued_task(h, AgentsOf(T))
    BY DEF Release
<1> HIDE DEF h
<1>3. \A u \in Task : Release(f, T, s)[u] # h[u] => h[u] = "queued"
    BY <1>1, <1>2, PromoteStatus
<1> QED
    BY <1>1, <1>3 DEF ACTIVE_STATUSES

LEMMA FinalizeMoves ==
    ASSUME TypeOK, NEW t \in Task, _finalize_task(t)
    PROVE  /\ \A u \in Task \ {t} : inflight'[u] = "absent" <=> inflight[u] = "absent"
           /\ inflight'[t] = "absent" /\ archived' = archived \cup {t}
<1>1. inflight \in [Task -> Status]
    BY DEF TypeOK
<1> QED
    BY <1>1, RestingStatus, ReleaseKeepsFlight, ReleaseGives DEF _finalize_task, FinalizeAll

LEMMA BlockMoves ==
    ASSUME TypeOK, NEW t \in Task, block_task(t)
    PROVE  /\ \A u \in Task \ {t} : inflight'[u] = "absent" <=> inflight[u] = "absent"
           /\ inflight'[t] = "blocked"
<1>1. inflight \in [Task -> Status]
    BY DEF TypeOK
<1> QED
    BY <1>1, RestingStatus, ReleaseKeepsFlight, ReleaseGives DEF block_task

\* Every hook but the one that schedules a follow-up conserves.
LEMMA HookConserves ==
    ASSUME TypeOK, NEW t \in Task,
           \/ Elsewhere(t) \/ Intervenes(t) \/ FulfillDueContinuation(t)
           \/ DeliverySucceeds(t) \/ DeliveryFails(t) \/ DeliveryUnreported(t)
    PROVE  Conserves
<1>0. inflight \in [Task -> Status] /\ archived \subseteq Task /\ Planned \subseteq Task
    BY TaskAssumption DEF TypeOK
<1>1. CASE UNCHANGED <<inflight, archived>>
    BY <1>1 DEF Conserves
<1>2. ASSUME NEW v, v # "absent", inflight' = [inflight EXCEPT ![t] = v], archived' = archived,
             t \notin Planned \/ inflight[t] # "absent" \/ t \in archived
      PROVE  Conserves
    BY <1>0, <1>2 DEF Conserves
<1>3. ASSUME _finalize_task(t), inflight[t] # "absent" \/ t \in archived PROVE Conserves
    BY <1>0, <1>3, FinalizeMoves DEF Conserves
<1>4. ASSUME block_task(t), archived' = archived, inflight[t] # "absent" \/ t \in archived PROVE Conserves
    BY <1>0, <1>4, BlockMoves DEF Conserves
<1>5. SlotStatus(inflight, t) # "absent"
    BY DEF SlotStatus
<1>6. CASE \E start \in BOOLEAN : RegisterNew(t, start)
    BY <1>2, <1>5, <1>6 DEF RegisterNew, register_main_task
<1>7. CASE \E start \in BOOLEAN : TakeOverStaleObserved(t, start)
    BY <1>0, <1>1, <1>2, <1>5, <1>7 DEF TakeOverStaleObserved, claim_execution_slot
<1>8. CASE ResumeRecoverable(t) \/ ResumeById(t)
  <2>1. inflight[t] # "absent" \/ t \in archived
      BY <1>8, OperatorAssumption
      DEF ResumeRecoverable, ResumeById, Stored, LiveStatus, RECOVERABLE_STATUSES, ACTIVE_STATUSES, OBSERVED_STATUSES
  <2> QED
      BY <1>2, <1>5, <1>8, <2>1 DEF ResumeRecoverable, ResumeById, resume_task
<1>9. CASE ActivateLatest(t) \/ MergeWindow(t)
    BY <1>2, <1>5, <1>9 DEF ActivateLatest, MergeWindow, AskForSlot, claim_execution_slot
<1>10. CASE BlockActive(t)
    BY <1>4, <1>10 DEF BlockActive
<1>11. CASE FinishActive(t) \/ ProgressRepairsSkip(t) \/ FulfillDueContinuation(t)
    BY <1>3, <1>11 DEF FinishActive, ProgressRepairsSkip, FulfillDueContinuation
<1>12. CASE CancelQueued(t) \/ StopMainQueue(t)
    BY <1>3, <1>12 DEF CancelQueued, StopMainQueue, find_queued_tasks, find_running_tasks, find_inflight_tasks
<1>13. CASE FinalizeSkipped(t) \/ FallsDue(t) \/ DeliveryUnreported(t)
    BY <1>1, <1>13 DEF FinalizeSkipped, FallsDue, DeliveryUnreported
<1>14. CASE DeliverySucceeds(t)
    BY <1>3, <1>14 DEF DeliverySucceeds, Stored
<1>15. CASE DeliveryFails(t)
    BY <1>4, <1>15 DEF DeliveryFails, Stored
<1> QED
    BY <1>6, <1>7, <1>8, <1>9, <1>10, <1>11, <1>12, <1>13, <1>14, <1>15 DEF Elsewhere, Intervenes

\* So does whatever happens to the store besides planning and replies.
LEMMA OthersConserve ==
    ASSUME TypeOK, Others
    PROVE  Conserves
<1>0. inflight \in [Task -> Status] /\ archived \subseteq Task /\ Planned \subseteq Task
    BY TaskAssumption DEF TypeOK
<1>1. ASSUME NEW t \in Task, Elsewhere(t) \/ Intervenes(t) PROVE Conserves
    BY <1>1, HookConserves
<1>2. CASE ClaimDueContinuations
    BY <1>0, <1>2 DEF ClaimDueContinuations, Claimable, Conserves
<1>3. ASSUME NEW stopped \in SUBSET Task, StopAllMainQueue(stopped) PROVE Conserves
  <2> DEFINE T == stopped \cup find_queued_tasks(inflight, Main)
  <2>1. \A u \in T : u \in Task /\ inflight[u] # "absent"
      BY <1>3 DEF StopAllMainQueue, find_queued_tasks, find_running_tasks, find_inflight_tasks
  <2>2. inflight' = Release(inflight, T, "absent") /\ archived' = archived \cup T
      BY <1>3 DEF StopAllMainQueue, FinalizeAll
  <2> HIDE DEF T
  <2>3. /\ \A u \in Task \ T : inflight'[u] = "absent" <=> inflight[u] = "absent"
        /\ \A u \in T : inflight'[u] = "absent"
      BY <1>0, <2>1, <2>2, RestingStatus, ReleaseKeepsFlight, ReleaseGives
  <2> QED
      BY <1>0, <2>1, <2>2, <2>3 DEF Conserves
<1>4. CASE Watchdog
  <2>1. PICK hit \in SUBSET Task, R \in SUBSET Task, first \in Task :
                /\ inflight' = ResumeEach(Release(inflight, hit, "blocked"), R, first)
                /\ \A t \in hit : inflight[t] # "absent"
                /\ \A t \in R : Release(inflight, hit, "blocked")[t] = "blocked"
                /\ archived' = archived
      BY <1>4, WatchdogStep
  <2> DEFINE settled == Release(inflight, hit, "blocked")
  <2>2. \A u \in Task : settled[u] = "absent" <=> inflight[u] = "absent"
      BY <1>0, <2>1, RestingStatus, ReleaseKeepsFlight, ReleaseGives
  <2>3. \A u \in Task : inflight'[u] = "absent" <=> settled[u] = "absent"
      BY <2>1 DEF ResumeEach, SlotStatus
  <2> QED
      BY <1>0, <2>1, <2>2, <2>3 DEF Conserves
<1> QED
    BY <1>1, <1>2, <1>3, <1>4 DEF Others

\* What others archive was in flight, and so is what they claim.
LEMMA OthersArchive ==
    ASSUME TypeOK, Others
    PROVE  archived' \ archived \subseteq {u \in Task : inflight[u] # "absent"}
<1>1. ASSUME NEW t \in Task, Elsewhere(t) \/ Intervenes(t)
      PROVE  archived' \subseteq archived \cup {t} /\ (archived' = archived \/ inflight[t] # "absent")
  <2>1. CASE Elsewhere(t)
      BY <2>1 DEF Elsewhere, RegisterNew, register_main_task, ActivateLatest, AskForSlot, BlockActive,
                  FinishActive, FinalizeSkipped, ProgressRepairsSkip, _finalize_task, FinalizeAll, FallsDue
  <2>2. CASE Intervenes(t)
      BY <2>2 DEF Intervenes, ResumeRecoverable, ResumeById, resume_task, MergeWindow, AskForSlot, CancelQueued,
                  StopMainQueue, TakeOverStaleObserved, _finalize_task, FinalizeAll,
                  find_queued_tasks, find_running_tasks, find_inflight_tasks
  <2> QED
      BY <1>1, <2>1, <2>2
<1>2. CASE ClaimDueContinuations \/ Watchdog
    BY <1>2 DEF ClaimDueContinuations, Watchdog, WatchdogAutoRecover
<1>3. CASE \E stopped \in SUBSET Task : StopAllMainQueue(stopped)
    BY <1>3 DEF StopAllMainQueue, FinalizeAll, find_queued_tasks, find_running_tasks, find_inflight_tasks
<1> QED
    BY <1>1, <1>2, <1>3 DEF Others

LEMMA OthersClaim ==
    ASSUME Others
    PROVE  \A f \in delivering' \ delivering : inflight[f] # "absent" /\ inflight'[f] # "absent"
<1>1. CASE ClaimDueContinuations
    BY <1>1 DEF ClaimDueContinuations, Claimable
<1>2. CASE Watchdog
    BY <1>2 DEF Watchdog, WatchdogAutoRecover
<1>3. CASE \E stopped \in SUBSET Task : StopAllMainQueue(stopped)
    BY <1>3 DEF StopAllMainQueue, flags
<1>4. ASSUME NEW t \in Task, Elsewhere(t) PROVE delivering' = delivering
    BY <1>4 DEF Elsewhere, RegisterNew, register_main_task, ActivateLatest, AskForSlot, BlockActive,
                FinishActive, FinalizeSkipped, ProgressRepairsSkip, FallsDue, flags
<1>5. ASSUME NEW t \in Task, Intervenes(t) PROVE delivering' = delivering
    BY <1>5 DEF Intervenes, ResumeRecoverable, ResumeById, resume_task, MergeWindow, AskForSlot,
                CancelQueued, StopMainQueue, TakeOverStaleObserved, flags
<1> QED
    BY <1>1, <1>2, <1>3, <1>4, <1>5 DEF Others

\* A follow-up that is scheduled is new, and nobody else comes or goes.
LEMMA ScheduleMoves ==
    ASSUME TypeOK, QueueOrderTotal, NEW s \in Source, NEW f \in Planned, NEW when,
           ScheduleFollowup(s, f, when)
    PROVE  /\ f # s /\ f \in Task /\ s \in Task
           /\ inflight[s] # "absent" /\ Stored(f) = "absent" /\ inflight[f] = "absent"
           /\ archived' = archived /\ delivering' = delivering
           /\ inflight'[f] # "absent"
           /\ \A u \in Task \ {f} : inflight'[u] = "absent" <=> inflight[u] = "absent"
<1>0. inflight \in [Task -> Status] /\ f # s /\ f \in Task /\ s \in Task
    BY TaskAssumption, PlanAssumption DEF TypeOK
<1>1. inflight[s] # "absent" /\ created_at[f] = 0
    BY DEF ScheduleFollowup, Fresh
<1>2. Stored(f) = "absent" /\ inflight[f] = "absent"
    BY <1>0, <1>1, StoredMeans DEF QueueOrderTotal
<1>3. /\ inflight' = [Release(inflight, {f}, "paused") EXCEPT ![s] = inflight[s]]
      /\ archived' = archived /\ delivering' = delivering
    BY DEF ScheduleFollowup
<1>4. /\ Release(inflight, {f}, "paused") \in [Task -> Status]
      /\ Release(inflight, {f}, "paused")[f] = "paused"
      /\ \A u \in Task \ {f} : Release(inflight, {f}, "paused")[u] = "absent" <=> inflight[u] = "absent"
    BY <1>0, RestingStatus, ReleaseStatus, ReleaseKeepsFlight, ReleaseGives
<1> QED
    BY <1>0, <1>1, <1>2, <1>3, <1>4

InStore(u) == inflight[u] # "absent" \/ u \in archived

\* Whatever is stored stays stored: no record is purged here.
LEMMA StoredStays ==
    ASSUME TypeOK, QueueOrderTotal, PlanNext, NEW u \in Task, InStore(u)
    PROVE  InStore(u)'
<1> USE DEF InStore
<1>0. inflight[u] # "absent" \/ u \in archived
    OBVIOUS
<1>1. SUFFICES inflight'[u] # "absent" \/ u \in archived'
    OBVIOUS
<1>2. CASE Conserves
    BY <1>0, <1>2 DEF Conserves
<1>3. CASE UNCHANGED vars
    BY <1>0, <1>3 DEF vars
<1>4. ASSUME NEW s \in Source, NEW f \in Planned, NEW when, schedule_followup_from_plan(s, f, when)
      PROVE  inflight'[u] # "absent" \/ u \in archived'
    BY <1>0, <1>4, ScheduleMoves DEF schedule_followup_from_plan
<1>5. ASSUME NEW t \in Task, finalize_active(t) PROVE Conserves
    BY <1>5, HookConserves DEF finalize_active, Elsewhere
<1>6. ASSUME NEW f \in Planned, ReportsSent(f) \/ ReportsFailure(f) \/ ReportsNothing(f) \/ SayReply(f)
      PROVE  Conserves
    BY <1>6, HookConserves, TaskAssumption DEF ReportsSent, ReportsFailure, ReportsNothing, SayReply
<1>7. CASE Others
    BY <1>2, <1>7, OthersConserve
<1>8. ASSUME NEW s \in Source, attach_promise_guard(s) \/ create_followup_plan(s) \/ finalize_planned_followup(s)
      PROVE  UNCHANGED vars
    BY <1>8 DEF attach_promise_guard, create_followup_plan, finalize_planned_followup
<1>9. ASSUME NEW f \in Planned, SendReply(f) PROVE UNCHANGED vars
    BY <1>9 DEF SendReply
<1> QED
    BY <1>2, <1>3, <1>4, <1>5, <1>6, <1>7, <1>8, <1>9 DEF PlanNext

-----------------------------------------------------------------------------
\* The records of plans.

PlanRecords ==
    /\ guard \in [Source -> {"none", "armed", "scheduled", "fulfilled", "anomaly"}]
    /\ plan \in [Source -> PlanStatus]
    /\ link \in [Source -> Planned \cup {NoTask}]
    /\ anomaly \subseteq Source /\ sent \subseteq delivering /\ verified \subseteq Source
    /\ number \in [Source -> 0..MaxPlans]
    /\ heard \in [Planned -> 0..2]
    /\ DOMAIN origin = Planned

\* A plan's follow-up was made for this very plan and is stored.
LinkIsMade ==
    \A s \in Source : link[s] # NoTask =>
        origin[link[s]] = <<s, number[s]>> /\ InStore(link[s])

LEMMA HearsTyped ==
    ASSUME PlanRecords, NEW f \in Planned, Hears(f)
    PROVE  /\ heard' \in [Planned -> 0..2] /\ heard'[f] > 0
           /\ \A g \in Planned : heard[g] > 0 => heard'[g] > 0
BY DEF PlanRecords, Hears

LEMMA MarkTyped ==
    ASSUME PlanRecords, NEW t, _maybe_mark_promise_without_task(t)
    PROVE  /\ guard' \in [Source -> {"none", "armed", "scheduled", "fulfilled", "anomaly"}]
           /\ anomaly' \subseteq Source
           /\ \A s \in Source : s # t => guard'[s] = guard[s] /\ (s \in anomaly' <=> s \in anomaly)
           /\ t \in Source /\ guard'[t] # "none" => link[t] # NoTask \/ t \in anomaly'
           /\ t \in Source /\ t \in anomaly' \ anomaly => link[t] = NoTask
BY DEF PlanRecords, _maybe_mark_promise_without_task

LEMMA PlanStepTyped ==
    ASSUME PlanRecords, [PlanNext]_pvars
    PROVE  PlanRecords'
<1> USE DEF PlanRecords, meta, history
<1>1. ASSUME NEW s \in Source,
             attach_promise_guard(s) \/ create_followup_plan(s) \/ finalize_planned_followup(s)
      PROVE  PlanRecords'
  <2>1. CASE attach_promise_guard(s)
      BY <2>1 DEF attach_promise_guard, vars, flags
  <2>2. CASE create_followup_plan(s)
    <3>1. number[s] + 1 \in 0..MaxPlans
        BY <2>2, PlanAssumption DEF create_followup_plan
    <3> QED
        BY <2>2, <3>1 DEF create_followup_plan, vars, flags, PlanStatus
  <2>3. CASE finalize_planned_followup(s)
    <3>1. PICK outcome \in {"fulfilled", "anomaly"} :
              /\ plan' = [plan EXCEPT ![s] = outcome]
              /\ guard' = IF guard[s] = "none" THEN guard ELSE [guard EXCEPT ![s] = outcome]
              /\ anomaly' = IF outcome = "anomaly" THEN anomaly \cup {s} ELSE anomaly
        BY <2>3, Zenon DEF finalize_planned_followup
    <3> QED
        BY <2>3, <3>1 DEF finalize_planned_followup, vars, flags, PlanStatus
  <2> QED
      BY <1>1, <2>1, <2>2, <2>3
<1>2. ASSUME NEW s \in Source, NEW f \in Planned, NEW when, schedule_followup_from_plan(s, f, when)
      PROVE  PlanRecords'
    BY <1>2 DEF schedule_followup_from_plan, ScheduleFollowup, PlanStatus
<1>3. ASSUME NEW t \in Task, finalize_active(t) PROVE PlanRecords'
  <2>1. delivering' = delivering
      BY <1>3 DEF finalize_active, FinishActive, flags
  <2> QED
      BY <1>3, <2>1, MarkTyped DEF finalize_active
<1>4. ASSUME NEW f \in Planned, SendReply(f) PROVE PlanRecords'
    BY <1>4, HearsTyped DEF SendReply, vars, flags
<1>5. ASSUME NEW f \in Planned, SayReply(f) PROVE PlanRecords'
  <2>1. delivering' = delivering
      BY <1>5 DEF SayReply, FulfillDueContinuation, flags
  <2> QED
      BY <1>5, <2>1, HearsTyped DEF SayReply
<1>6. ASSUME NEW f \in Planned, ReportsSent(f) \/ ReportsFailure(f) \/ ReportsNothing(f) PROVE PlanRecords'
  <2>1. delivering' = delivering \ {f}
      BY <1>6 DEF ReportsSent, ReportsFailure, ReportsNothing, DeliverySucceeds, DeliveryFails, DeliveryUnreported
  <2> QED
      BY <1>6, <2>1 DEF ReportsSent, ReportsFailure, ReportsNothing
<1>7. CASE Others
  <2>1. UNCHANGED <<meta, number, origin, heard>> /\ sent' = sent \cap delivering' /\ verified' \subseteq verified
      BY <1>7 DEF Others
  <2> QED
      BY <2>1
<1>8. CASE UNCHANGED pvars
    BY <1>8 DEF pvars, vars, flags
<1> QED
    BY <1>1, <1>2, <1>3, <1>4, <1>5, <1>6, <1>7, <1>8 DEF PlanNext

LEMMA LinkStaysMade ==
    ASSUME TypeOK, QueueOrderTotal, PlanRecords, LinkIsMade, [PlanNext]_pvars
    PROVE  LinkIsMade'
<1>1. \A s \in Source : link[s] # NoTask => link[s] \in Task /\ link[s] \in Planned
    BY TaskAssumption DEF PlanRecords
<1>2. \A s \in Source : link[s] # NoTask => InStore(link[s]) /\ origin[link[s]] = <<s, number[s]>>
    BY DEF LinkIsMade
<1>3. \A u \in Task : InStore(u) => InStore(u)'
  <2>1. CASE PlanNext
      BY <2>1, StoredStays
  <2>2. CASE UNCHANGED pvars
      BY <2>2 DEF pvars, vars, InStore
  <2> QED
      BY <2>1, <2>2
<1>4. CASE UNCHANGED <<link, origin, number>>
    BY <1>1, <1>2, <1>3, <1>4 DEF LinkIsMade, InStore
<1>5. ASSUME NEW s \in Source, create_followup_plan(s) PROVE LinkIsMade'
  <2>1. /\ link' = [link EXCEPT ![s] = NoTask] /\ origin' = origin
        /\ number' = [number EXCEPT ![s] = @ + 1]
      BY <1>5 DEF create_followup_plan
  <2>2. \A r \in Source : link'[r] # NoTask => r # s /\ link'[r] = link[r] /\ number'[r] = number[r]
      BY <2>1 DEF PlanRecords
  <2> QED
      BY <1>1, <1>2, <1>3, <2>1, <2>2 DEF LinkIsMade, InStore
<1>6. ASSUME NEW s \in Source, NEW f \in Planned, NEW when, schedule_followup_from_plan(s, f, when)
      PROVE  LinkIsMade'
  <2>1. /\ link' = [link EXCEPT ![s] = f] /\ number' = number
        /\ origin' = [origin EXCEPT ![f] = <<s, number[s]>>]
      BY <1>6 DEF schedule_followup_from_plan
  <2>2. f \in Task /\ Stored(f) = "absent" /\ inflight'[f] # "absent"
      BY <1>6, ScheduleMoves DEF schedule_followup_from_plan
  <2>3. \A r \in Source : link[r] # f
      BY <1>2, <2>2, StoredMeans, PlanAssumption DEF InStore
  <2>4. \A r \in Source : link'[r] # NoTask => r = s \/ (link'[r] = link[r] /\ link[r] # f)
      BY <2>1, <2>3 DEF PlanRecords
  <2>5. link'[s] = f /\ origin'[f] = <<s, number'[s]>> /\ InStore(f)'
      BY <2>1, <2>2 DEF PlanRecords, InStore
  <2>6. \A r \in Source : link[r] # NoTask => origin'[link[r]] = origin[link[r]]
      BY <1>1, <2>1, <2>3 DEF PlanRecords
  <2> QED
      BY <1>1, <1>2, <1>3, <2>1, <2>4, <2>5, <2>6 DEF LinkIsMade, InStore
<1>7. CASE \E t \in Task : finalize_active(t)
    BY <1>4, <1>7 DEF finalize_active
<1>8. CASE \E f \in Planned :
              SendReply(f) \/ ReportsSent(f) \/ ReportsFailure(f) \/ ReportsNothing(f) \/ SayReply(f)
    BY <1>4, <1>8 DEF SendReply, ReportsSent, ReportsFailure, ReportsNothing, SayReply, meta, history
<1>9. CASE Others
    BY <1>4, <1>9 DEF Others, meta
<1>10. CASE \E s \in Source : attach_promise_guard(s) \/ finalize_planned_followup(s)
    BY <1>4, <1>10 DEF attach_promise_guard, finalize_planned_followup, history
<1>11. CASE UNCHANGED pvars
    BY <1>4, <1>11 DEF pvars, meta, history
<1> QED
    BY <1>5, <1>6, <1>7, <1>8, <1>9, <1>10, <1>11 DEF PlanNext

LEMMA PlanRecordsHold == PlanSpec => [](PlanRecords /\ LinkIsMade)
<1>1. PlanInit => PlanRecords /\ LinkIsMade
    BY PlanAssumption DEF PlanInit, Init, PlanRecords, LinkIsMade, PlanStatus
<1>2. TypeOK /\ QueueOrderTotal /\ PlanRecords /\ LinkIsMade /\ [PlanNext]_pvars => PlanRecords' /\ LinkIsMade'
    BY PlanStepTyped, LinkStaysMade
<1> QED
    BY <1>1, <1>2, PlansAreHooks, TypeCorrect, QueueOrdered, PTL DEF PlanSpec

\* Every record of a plan is well-formed in every reachable state, and a plan's
\* follow-up is a stored task that was made for it.
THEOREM PlanTypeCorrect == PlanSpec => []PlanTypeOK
<1>1. TypeOK /\ PlanRecords /\ LinkIsMade => PlanTypeOK
  <2> SUFFICES ASSUME TypeOK, PlanRecords, LinkIsMade, NEW s \in Source, link[s] # NoTask
               PROVE  origin[link[s]] = <<s, number[s]>> /\ Stored(link[s]) # "absent"
      BY DEF PlanTypeOK, PlanRecords
  <2>1. link[s] \in Task
      BY TaskAssumption DEF PlanRecords
  <2> QED
      BY <2>1, StoredMeans DEF LinkIsMade, InStore
<1> QED
    BY <1>1, PlanRecordsHold, PlansAreHooks, TypeCorrect, PTL

-----------------------------------------------------------------------------
\* Which tasks have a reply to send.

DeliveriesPlanned ==
    /\ \A t \in Task : due[t] # "none" => t \in Planned
    /\ delivering \subseteq Planned

LEMMA OnlyPlannedAreDelivered == Spec => []DeliveriesPlanned
<1> USE DEF DeliveriesPlanned
<1>1. Init => DeliveriesPlanned
    BY DEF Init
<1>2. TypeOK /\ DeliveriesPlanned /\ [Next]_vars => DeliveriesPlanned'
  <2> SUFFICES ASSUME TypeOK, DeliveriesPlanned, [Next]_vars PROVE DeliveriesPlanned'
      OBVIOUS
  <2>1. CASE due' = due /\ delivering' \subseteq delivering
      BY <2>1
  <2>2. ASSUME NEW t \in Task, TaskStep(t) PROVE DeliveriesPlanned'
    <3>1. ASSUME NEW source \in Task, NEW when, ScheduleFollowup(source, t, when) PROVE DeliveriesPlanned'
        BY <3>1 DEF ScheduleFollowup, TypeOK
    <3>2. CASE FallsDue(t)
        BY <3>2 DEF FallsDue, TypeOK
    <3>3. CASE \E start \in BOOLEAN : \/ RegisterNew(t, start) \/ MaterializeWindow(t, start)
                                      \/ TakeOverStaleObserved(t, start)
        BY <2>1, <3>3 DEF RegisterNew, MaterializeWindow, register_main_task, TakeOverStaleObserved, flags
    <3>4. CASE ResumeRecoverable(t) \/ ResumeById(t) \/ ActivateLatest(t) \/ MergeWindow(t)
        BY <2>1, <3>4 DEF ResumeRecoverable, ResumeById, resume_task, ActivateLatest, MergeWindow, AskForSlot, flags
    <3>5. CASE BlockActive(t) \/ FinishActive(t) \/ FinalizeSkipped(t) \/ ProgressRepairsSkip(t)
        BY <2>1, <3>5 DEF BlockActive, FinishActive, FinalizeSkipped, ProgressRepairsSkip, flags
    <3>6. CASE CancelQueued(t) \/ StopMainQueue(t) \/ FulfillDueContinuation(t)
        BY <2>1, <3>6 DEF CancelQueued, StopMainQueue, FulfillDueContinuation, flags
    <3>7. CASE DeliverySucceeds(t) \/ DeliveryFails(t) \/ DeliveryUnreported(t)
        BY <2>1, <3>7 DEF DeliverySucceeds, DeliveryFails, DeliveryUnreported
    <3> QED
        BY <2>2, <3>1, <3>2, <3>3, <3>4, <3>5, <3>6, <3>7 DEF TaskStep
  <2>3. CASE ClaimDueContinuations
      BY <2>3 DEF ClaimDueContinuations, Claimable
  <2>4. CASE \E stopped \in SUBSET Task : StopAllMainQueue(stopped)
      BY <2>1, <2>4 DEF StopAllMainQueue, flags
  <2>5. CASE Watchdog
      BY <2>1, <2>5 DEF Watchdog, WatchdogAutoRecover
  <2>6. CASE \E s \in Session : PurgeSession(s)
      BY <2>1, <2>6 DEF PurgeSession, flags
  <2>7. CASE UNCHANGED vars
      BY <2>1, <2>7 DEF vars, flags
  <2> QED
      BY <2>2, <2>3, <2>4, <2>5, <2>6, <2>7 DEF Next
<1> QED
    BY <1>1, <1>2, TypeCorrect, PTL DEF Spec

-----------------------------------------------------------------------------
\* Promises.

\* The follow-up of a plan lives, was heard, or somebody else has ended it; a
\* task whose end was checked is over, and its open promise has a follow-up or is
\* flagged; a claim whose reply was sent is one whose reply was heard.
Promised ==
    /\ \A s \in Source : link[s] # NoTask =>
          InFlight(link[s]) \/ heard[link[s]] > 0 \/ link[s] \in astray
    /\ \A s \in verified : /\ inflight[s] = "absent" /\ s \in archived
                           /\ guard[s] # "none" => link[s] # NoTask \/ s \in anomaly
    /\ \A f \in sent : heard[f] > 0

\* What the replies and the ends of follow-ups leave of it.
LEMMA PromiseSurvives ==
    ASSUME PlanRecords, PlanRecords', DeliveriesPlanned', Promised,
           link' = link, astray \subseteq astray',
           archived \subseteq archived',
           \A f \in Planned : heard[f] > 0 => heard'[f] > 0,
           \A f \in Planned : inflight[f] # "absent" /\ inflight'[f] = "absent" =>
              heard'[f] > 0 \/ f \in astray',
           \A s \in verified' : /\ inflight'[s] = "absent" /\ s \in archived'
                                /\ guard'[s] # "none" => link[s] # NoTask \/ s \in anomaly',
           \A f \in sent' : f \in sent \/ heard'[f] > 0
    PROVE  Promised'
<1>1. ASSUME NEW s \in Source, link[s] # NoTask
      PROVE  inflight'[link[s]] # "absent" \/ heard'[link[s]] > 0 \/ link[s] \in astray'
  <2>1. link[s] \in Planned
      BY <1>1 DEF PlanRecords
  <2> QED
      BY <1>1, <2>1 DEF Promised, InFlight
<1>2. \A f \in sent' : heard'[f] > 0
    BY DEF Promised, PlanRecords, DeliveriesPlanned
<1> QED
    BY <1>1, <1>2 DEF Promised, InFlight

LEMMA PromiseStep ==
    ASSUME TypeOK, QueueOrderTotal, PlanRecords, PlanRecords', DeliveriesPlanned', Promised, [PlanNext]_pvars
    PROVE  Promised'
<1>0. /\ inflight \in [Task -> Status] /\ archived \subseteq Task
      /\ Planned \subseteq Task /\ Source \subseteq Task /\ Source \cap Planned = {}
      /\ verified \subseteq Source /\ verified' \subseteq Source
      /\ \A s \in Source : link[s] \in Planned \cup {NoTask}
    BY TaskAssumption, PlanAssumption DEF TypeOK, PlanRecords
<1>1. \A s \in verified : /\ inflight[s] = "absent" /\ s \in archived
                          /\ guard[s] # "none" => link[s] # NoTask \/ s \in anomaly
    BY DEF Promised
<1>2. CASE UNCHANGED <<vars, meta, sent, history>>
    BY <1>0, <1>2 DEF Promised, vars, meta, history, InFlight
\* The tools change the plan of a task in flight, whose end nobody has checked.
<1>3. ASSUME NEW s \in Source, s \notin verified, UNCHANGED <<vars, sent, heard, astray, verified>>,
             \A r \in Source \ {s} : guard'[r] = guard[r] /\ link'[r] = link[r],
             link'[s] = link[s] \/ link'[s] = NoTask, anomaly \subseteq anomaly'
      PROVE  Promised'
    BY <1>0, <1>1, <1>3 DEF Promised, vars, InFlight
<1>4. ASSUME NEW s \in Source, attach_promise_guard(s) PROVE Promised'
  <2>1. s \notin verified
      BY <1>1, <1>4 DEF attach_promise_guard, InFlight
  <2>2. \A r \in Source \ {s} : guard'[r] = guard[r]
      BY <1>4 DEF attach_promise_guard, PlanRecords
  <2> QED
      BY <1>3, <1>4, <2>1, <2>2 DEF attach_promise_guard, history
<1>5. ASSUME NEW s \in Source, create_followup_plan(s) PROVE Promised'
  <2>1. s \notin verified
      BY <1>1, <1>5 DEF create_followup_plan, InFlight
  <2>2. link'[s] = NoTask /\ \A r \in Source \ {s} : link'[r] = link[r]
      BY <1>5 DEF create_followup_plan, PlanRecords
  <2> QED
      BY <1>3, <1>5, <2>1, <2>2 DEF create_followup_plan
<1>6. ASSUME NEW s \in Source, finalize_planned_followup(s) PROVE Promised'
  <2>1. s \notin verified
      BY <1>1, <1>6 DEF finalize_planned_followup, InFlight
  <2>2. (\A r \in Source \ {s} : guard'[r] = guard[r]) /\ anomaly \subseteq anomaly'
      BY <1>6 DEF finalize_planned_followup, PlanRecords
  <2> QED
      BY <1>3, <1>6, <2>1, <2>2 DEF finalize_planned_followup, history
<1>7. ASSUME NEW s \in Source, NEW f \in Planned, NEW when, schedule_followup_from_plan(s, f, when)
      PROVE  Promised'
  <2>1. /\ f # s /\ f \in Task /\ inflight[s] # "absent" /\ inflight'[f] # "absent"
        /\ archived' = archived /\ \A u \in Task \ {f} : inflight'[u] = "absent" <=> inflight[u] = "absent"
      BY <1>7, ScheduleMoves DEF schedule_followup_from_plan
  <2>2. /\ UNCHANGED <<anomaly, sent, heard, verified>> /\ astray \subseteq astray'
        /\ link' = [link EXCEPT ![s] = f]
        /\ guard' = IF guard[s] = "none" THEN guard ELSE [guard EXCEPT ![s] = "scheduled"]
      BY <1>7 DEF schedule_followup_from_plan
  <2>3. link'[s] = f /\ \A r \in Source \ {s} : link'[r] = link[r] /\ guard'[r] = guard[r]
      BY <2>2 DEF PlanRecords
  <2>4. s \notin verified /\ \A r \in verified : inflight'[r] = "absent"
      BY <1>0, <1>1, <2>1
  <2>5. ASSUME NEW r \in Source, link'[r] # NoTask
        PROVE  inflight'[link'[r]] # "absent" \/ heard'[link'[r]] > 0 \/ link'[r] \in astray'
      BY <1>0, <2>1, <2>2, <2>3, <2>5 DEF Promised, InFlight
  <2>6. \A g \in sent' : heard'[g] > 0
      BY <2>2 DEF Promised
  <2>7. \A r \in verified' : /\ inflight'[r] = "absent" /\ r \in archived'
                             /\ guard'[r] # "none" => link'[r] # NoTask \/ r \in anomaly'
      BY <1>0, <1>1, <2>1, <2>2, <2>3, <2>4
  <2> QED
      BY <2>5, <2>6, <2>7 DEF Promised, InFlight
<1>8. ASSUME NEW t \in Task, finalize_active(t) PROVE Promised'
  <2>1. /\ \A u \in Task \ {t} : inflight'[u] = "absent" <=> inflight[u] = "absent"
        /\ inflight[t] # "absent" /\ inflight'[t] = "absent" /\ archived' = archived \cup {t}
      BY <1>8, FinalizeMoves DEF finalize_active, FinishActive
  <2>2. /\ UNCHANGED <<link, sent, heard>> /\ verified' = verified \cup ({t} \cap Source)
        /\ astray \subseteq astray' /\ _maybe_mark_promise_without_task(t)
        /\ \A f \in Planned : inflight[f] # "absent" /\ inflight'[f] = "absent" => f \in astray'
      BY <1>0, <1>8 DEF finalize_active, Ended
  <2>3. /\ \A s \in Source : s # t => guard'[s] = guard[s] /\ (s \in anomaly' <=> s \in anomaly)
        /\ t \in Source /\ guard'[t] # "none" => link[t] # NoTask \/ t \in anomaly'
      BY <2>2, MarkTyped
  <2>4. ASSUME NEW s \in verified'
        PROVE  /\ inflight'[s] = "absent" /\ s \in archived'
               /\ guard'[s] # "none" => link[s] # NoTask \/ s \in anomaly'
    <3>1. CASE s = t
        BY <1>0, <2>1, <2>3, <3>1
    <3>2. CASE s \in verified /\ s # t
        BY <1>0, <1>1, <2>1, <2>3, <3>2
    <3> QED
        BY <2>2, <3>1, <3>2
  <2> QED
      BY <2>1, <2>2, <2>4, PromiseSurvives
<1>9. ASSUME NEW f \in Planned, SendReply(f) PROVE Promised'
    BY <1>0, <1>1, <1>9, HearsTyped, PromiseSurvives DEF SendReply, vars, meta
\* A follow-up ends, is blocked or is given up: the checked tasks are others.
<1>10. ASSUME NEW f \in Planned, meta' = meta, verified' = verified, archived \subseteq archived',
              \A u \in Task \ {f} : inflight'[u] = "absent" <=> inflight[u] = "absent"
       PROVE  \A s \in verified' : /\ inflight'[s] = "absent" /\ s \in archived'
                                   /\ guard'[s] # "none" => link[s] # NoTask \/ s \in anomaly'
    BY <1>0, <1>1, <1>10 DEF meta
<1>11. ASSUME NEW f \in Planned, ReportsSent(f) \/ SayReply(f) PROVE Promised'
  <2>1. f \in Task /\ _finalize_task(f)
      BY <1>0, <1>11 DEF ReportsSent, SayReply, DeliverySucceeds, FulfillDueContinuation
  <2>2. /\ \A u \in Task \ {f} : inflight'[u] = "absent" <=> inflight[u] = "absent"
        /\ archived \subseteq archived'
      BY <2>1, FinalizeMoves
  <2>3. meta' = meta /\ verified' = verified /\ astray \subseteq astray' /\ sent' \subseteq sent
      BY <1>11 DEF ReportsSent, SayReply, history
  <2>4. \A g \in Planned : heard[g] > 0 => heard'[g] > 0
      BY <1>11, HearsTyped DEF ReportsSent, SayReply, history
  <2>5. heard'[f] > 0
      BY <1>11, HearsTyped DEF ReportsSent, SayReply, history, Promised
  <2>6. \A g \in Planned : inflight[g] # "absent" /\ inflight'[g] = "absent" => heard'[g] > 0
      BY <1>0, <2>2, <2>5
  <2> QED
      BY <1>10, <2>2, <2>3, <2>4, <2>6, PromiseSurvives DEF meta
<1>12. ASSUME NEW f \in Planned, ReportsFailure(f) \/ ReportsNothing(f) PROVE Promised'
  <2>1. /\ \A u \in Task \ {f} : inflight'[u] = "absent" <=> inflight[u] = "absent"
        /\ archived' = archived
        /\ inflight[f] # "absent" => inflight'[f] # "absent"
      BY <1>0, <1>12, BlockMoves DEF ReportsFailure, ReportsNothing, DeliveryFails, DeliveryUnreported
  <2>2. /\ meta' = meta /\ verified' = verified /\ heard' = heard
        /\ astray \subseteq astray' /\ sent' \subseteq sent
      BY <1>12 DEF ReportsFailure, ReportsNothing
  <2>3. \A g \in Planned : ~ (inflight[g] # "absent" /\ inflight'[g] = "absent")
      BY <1>0, <2>1
  <2> QED
      BY <1>10, <2>1, <2>2, <2>3, PromiseSurvives DEF meta
<1>13. CASE Others
  <2>1. Conserves
      BY <1>13, OthersConserve
  <2>2. /\ meta' = meta /\ heard' = heard /\ sent' \subseteq sent
        /\ verified' = verified \ (Ended \cup Revived)
        /\ astray \subseteq astray' /\ Ended \cap Planned \subseteq astray'
      BY <1>13 DEF Others
  <2>3. \A g \in Planned : inflight[g] # "absent" /\ inflight'[g] = "absent" => g \in astray'
      BY <1>0, <2>2 DEF Ended
  <2>4. \A s \in verified' : /\ inflight'[s] = "absent" /\ s \in archived'
                             /\ guard'[s] # "none" => link[s] # NoTask \/ s \in anomaly'
    <3>1. \A s \in verified' : s \in verified /\ s \notin Revived /\ s \in Task
        BY <1>0, <2>2
    <3> QED
        BY <1>0, <1>1, <2>1, <2>2, <3>1 DEF Conserves, Revived, meta
  <2> QED
      BY <2>1, <2>2, <2>3, <2>4, PromiseSurvives DEF Conserves, meta
<1>14. CASE UNCHANGED pvars
    BY <1>2, <1>14 DEF pvars
<1> QED
    BY <1>4, <1>5, <1>6, <1>7, <1>8, <1>9, <1>11, <1>12, <1>13, <1>14 DEF PlanNext

LEMMA PromisesHold == PlanSpec => []Promised
<1>1. PlanInit => Promised
    BY DEF PlanInit, Promised
<1>2. /\ TypeOK /\ QueueOrderTotal /\ PlanRecords /\ PlanRecords' /\ DeliveriesPlanned' /\ Promised
      /\ [PlanNext]_pvars
      => Promised'
    BY PromiseStep
<1> QED
    BY <1>1, <1>2, PlansAreHooks, TypeCorrect, QueueOrdered, OnlyPlannedAreDelivered, PlanRecordsHold, PTL
    DEF PlanSpec

\* However tools, runner, agent and operators interleave: a task that ended well
\* with a promise open is flagged, or its follow-up is alive, was heard, or was
\* ended by somebody else.
THEOREM PromisesAreKept == PlanSpec => []PromiseKeptOrFlagged
<1>1. PlanRecords /\ Promised => PromiseKeptOrFlagged
    BY DEF PlanRecords, Promised, PromiseKeptOrFlagged
<1> QED
    BY <1>1, PlanRecordsHold, PromisesHold, PTL

-----------------------------------------------------------------------------
\* False alarms.

\* A claim is of a follow-up in flight, or of one somebody else has ended; plans
\* are counted; the follow-up in flight of the latest plan is the one it is
\* linked to.
Alarmable ==
    /\ \A f \in delivering : InFlight(f) \/ f \in astray
    /\ \A f \in Planned, s \in Source : \A n \in Nat : n > number[s] => origin[f] # <<s, n>>
    /\ \A f \in Planned, s \in Source :
          InFlight(f) /\ f \notin astray /\ origin[f] = <<s, number[s]>> => link[s] = f

\* A step that schedules nothing, makes no plan, and brings back no follow-up
\* that is not astray.
LEMMA AlarmableKept ==
    ASSUME Alarmable, DeliveriesPlanned', UNCHANGED <<link, number, origin>>, astray \subseteq astray',
           \A f \in Planned : inflight[f] = "absent" /\ inflight'[f] # "absent" => f \in astray',
           \A f \in delivering' : (f \in delivering /\ inflight'[f] # "absent") \/ InFlight(f)' \/ f \in astray'
    PROVE  Alarmable'
  BY DEF Alarmable, InFlight, DeliveriesPlanned

LEMMA AlarmableStep ==
    ASSUME TypeOK, QueueOrderTotal, PlanRecords, DeliveriesPlanned, DeliveriesPlanned', Alarmable,
           [PlanNext]_pvars
    PROVE  Alarmable'
<1>0. /\ inflight \in [Task -> Status] /\ archived \subseteq Task
      /\ Planned \subseteq Task /\ Source \subseteq Task /\ NoTask \notin Task
      /\ number \in [Source -> Nat] /\ DOMAIN origin = Planned
      /\ delivering \subseteq Planned /\ delivering' \subseteq Planned
    BY TaskAssumption, PlanAssumption DEF TypeOK, PlanRecords, DeliveriesPlanned
<1>1. \A f \in delivering : inflight[f] # "absent" \/ f \in astray
    BY DEF Alarmable, InFlight
<1>2. ASSUME UNCHANGED <<vars, link, number, origin>>, astray \subseteq astray' PROVE Alarmable'
    BY <1>2 DEF Alarmable, vars, flags, InFlight
<1>3. ASSUME NEW s \in Source, attach_promise_guard(s) \/ finalize_planned_followup(s) PROVE Alarmable'
    BY <1>2, <1>3 DEF attach_promise_guard, finalize_planned_followup, history
<1>4. ASSUME NEW s \in Source, create_followup_plan(s) PROVE Alarmable'
  <2>1. /\ UNCHANGED <<inflight, delivering, origin, astray>>
        /\ link' = [link EXCEPT ![s] = NoTask] /\ number' = [number EXCEPT ![s] = @ + 1]
      BY <1>4 DEF create_followup_plan, vars, flags
  <2>2. /\ number'[s] = number[s] + 1 /\ number[s] \in Nat
        /\ \A r \in Source \ {s} : number'[r] = number[r] /\ link'[r] = link[r]
      BY <1>0, <2>1 DEF PlanRecords
  <2>3. \A f \in Planned : \A n \in Nat : n > number[s] => origin[f] # <<s, n>>
      BY DEF Alarmable
  <2>4. \A f \in Planned : origin[f] # <<s, number'[s]>>
      BY <2>2, <2>3
  <2>5. ASSUME NEW f \in Planned, NEW r \in Source, NEW n \in Nat, n > number'[r]
        PROVE  origin'[f] # <<r, n>>
      BY <2>1, <2>2, <2>3, <2>5 DEF Alarmable
  <2>6. ASSUME NEW f \in Planned, NEW r \in Source,
               InFlight(f), f \notin astray, origin[f] = <<r, number'[r]>>
        PROVE  link'[r] = f
      BY <2>2, <2>4, <2>6 DEF Alarmable
  <2> QED
      BY <1>1, <2>1, <2>5, <2>6 DEF Alarmable, InFlight
<1>5. ASSUME NEW s \in Source, NEW f \in Planned, NEW when, schedule_followup_from_plan(s, f, when)
      PROVE  Alarmable'
  <2>1. /\ f \in Task /\ inflight'[f] # "absent" /\ delivering' = delivering
        /\ \A u \in Task \ {f} : inflight'[u] = "absent" <=> inflight[u] = "absent"
      BY <1>5, ScheduleMoves DEF schedule_followup_from_plan
  <2>2. /\ ~ InFlight(link[s]) /\ astray \subseteq astray' /\ number' = number
        /\ link' = [link EXCEPT ![s] = f] /\ origin' = [origin EXCEPT ![f] = <<s, number[s]>>]
      BY <1>5 DEF schedule_followup_from_plan
  <2>3. /\ link'[s] = f /\ \A r \in Source \ {s} : link'[r] = link[r]
        /\ origin'[f] = <<s, number[s]>> /\ \A g \in Planned \ {f} : origin'[g] = origin[g]
      BY <1>0, <2>2 DEF PlanRecords
  <2>4. \A g \in delivering' : InFlight(g)' \/ g \in astray'
      BY <1>0, <1>1, <2>1, <2>2 DEF InFlight
  <2>5. ASSUME NEW g \in Planned, NEW r \in Source, NEW n \in Nat, n > number'[r]
        PROVE  origin'[g] # <<r, n>>
    <3>1. CASE g = f
        BY <1>0, <2>2, <2>3, <2>5, <3>1
    <3>2. CASE g # f
        BY <2>2, <2>3, <2>5, <3>2 DEF Alarmable
    <3> QED
        BY <3>1, <3>2
  <2>6. ASSUME NEW g \in Planned, NEW r \in Source,
               InFlight(g)', g \notin astray', origin'[g] = <<r, number'[r]>>
        PROVE  link'[r] = g
    <3>1. CASE g = f
      <4>1. r = s
          BY <2>3, <2>6, <3>1
      <4> QED
          BY <2>3, <3>1, <4>1
    <3>2. CASE g # f
      <4>1. InFlight(g) /\ link[r] = g
          BY <1>0, <2>1, <2>2, <2>3, <2>6, <3>2 DEF Alarmable, InFlight
      <4>2. r # s
          BY <2>2, <4>1
      <4> QED
          BY <2>3, <4>1, <4>2
    <3> QED
        BY <3>1, <3>2
  <2> QED
      BY <2>4, <2>5, <2>6 DEF Alarmable
<1>6. ASSUME NEW t \in Task, finalize_active(t) PROVE Alarmable'
  <2>1. /\ \A u \in Task \ {t} : inflight'[u] = "absent" <=> inflight[u] = "absent"
        /\ inflight[t] # "absent" /\ inflight'[t] = "absent" /\ delivering' = delivering
      BY <1>6, FinalizeMoves DEF finalize_active, FinishActive, flags
  <2>2. /\ UNCHANGED <<link, number, origin>> /\ astray' = astray \cup (Ended \cap Planned)
      BY <1>6 DEF finalize_active
  <2>3. \A f \in delivering' : (f \in delivering /\ inflight'[f] # "absent") \/ f \in astray'
      BY <1>0, <1>1, <2>1, <2>2 DEF Ended
  <2> QED
      BY <1>0, <2>1, <2>2, <2>3, AlarmableKept
<1>7. ASSUME NEW f \in Planned, SendReply(f) PROVE Alarmable'
    BY <1>2, <1>7 DEF SendReply, meta
<1>8. ASSUME NEW f \in Planned, SayReply(f) PROVE Alarmable'
  <2>1. f \in Task /\ _finalize_task(f) /\ delivering' = delivering /\ inflight[f] # "absent"
      BY <1>0, <1>8 DEF SayReply, FulfillDueContinuation, flags
  <2>2. \A u \in Task \ {f} : inflight'[u] = "absent" <=> inflight[u] = "absent"
      BY <2>1, FinalizeMoves
  <2>3. /\ UNCHANGED <<link, number, origin>> /\ astray \subseteq astray'
        /\ f \in delivering => f \in astray'
      BY <1>8 DEF SayReply, meta
  <2>4. \A g \in delivering' : (g \in delivering /\ inflight'[g] # "absent") \/ g \in astray'
      BY <1>0, <1>1, <2>1, <2>2, <2>3
  <2> QED
      BY <1>0, <2>1, <2>2, <2>3, <2>4, AlarmableKept
<1>9. ASSUME NEW f \in Planned, ReportsSent(f) \/ ReportsFailure(f) \/ ReportsNothing(f) PROVE Alarmable'
  <2>1. /\ f \in Task /\ f \in delivering /\ delivering' = delivering \ {f}
        /\ UNCHANGED <<link, number, origin>> /\ astray \subseteq astray'
      BY <1>0, <1>9 DEF ReportsSent, ReportsFailure, ReportsNothing, DeliverySucceeds, DeliveryFails,
                        DeliveryUnreported, meta, history
  <2>2. \A u \in Task \ {f} : inflight'[u] = "absent" <=> inflight[u] = "absent"
      BY <1>9, <2>1, FinalizeMoves, BlockMoves DEF ReportsSent, ReportsFailure, ReportsNothing,
         DeliverySucceeds, DeliveryFails, DeliveryUnreported
  <2>3. \A g \in delivering' : (g \in delivering /\ inflight'[g] # "absent") \/ g \in astray'
      BY <1>0, <1>1, <2>1, <2>2
  <2> QED
      BY <1>0, <1>1, <2>1, <2>2, <2>3, AlarmableKept
<1>10. CASE Others
  <2>1. Conserves
      BY <1>10, OthersConserve
  <2>2. UNCHANGED <<link, number, origin>> /\ (Ended \cup Revived) \cap Planned \subseteq astray' /\ astray \subseteq astray'
      BY <1>10 DEF Others, meta
  <2>3. \A g \in Planned : inflight[g] = "absent" /\ inflight'[g] # "absent" => g \in astray'
      BY <1>0, <2>1, <2>2 DEF Conserves, Revived
  <2>4. \A g \in delivering' \ delivering : inflight'[g] # "absent"
      BY <1>10, OthersClaim
  <2>5. \A g \in delivering' : (g \in delivering /\ inflight'[g] # "absent") \/ InFlight(g)' \/ g \in astray'
      BY <1>0, <1>1, <2>2, <2>4 DEF Ended, InFlight
  <2> QED
      BY <2>2, <2>3, <2>5, AlarmableKept
<1>11. CASE UNCHANGED pvars
    BY <1>2, <1>11 DEF pvars, meta, history
<1> QED
    BY <1>3, <1>4, <1>5, <1>6, <1>7, <1>8, <1>9, <1>10, <1>11 DEF PlanNext

LEMMA AlarmableHolds == PlanSpec => []Alarmable
<1>1. PlanInit => Alarmable
  <2> SUFFICES ASSUME PlanInit PROVE Alarmable
      OBVIOUS
  <2>1. \A f \in Planned, s \in Source : \A n : origin[f] # <<s, n>>
      BY PlanAssumption DEF PlanInit
  <2> QED
      BY <2>1, PlanAssumption DEF PlanInit, Init, Alarmable
<1>2. /\ TypeOK /\ QueueOrderTotal /\ PlanRecords /\ DeliveriesPlanned /\ DeliveriesPlanned' /\ Alarmable
      /\ [PlanNext]_pvars
      => Alarmable'
    BY AlarmableStep
<1> QED
    BY <1>1, <1>2, PlansAreHooks, TypeCorrect, QueueOrdered, OnlyPlannedAreDelivered, PlanRecordsHold, PTL
    DEF PlanSpec

\* A promise is never called broken while the follow-up of its latest plan is in
\* flight, whatever the model calls in whatever order.
THEOREM NoAlarmIsFalse == PlanSpec => NoFalseAlarm
<1>1. PlanRecords /\ Alarmable /\ [PlanNext]_pvars =>
        [\A s \in Source : s \in anomaly' \ anomaly =>
            \A f \in Planned : InFlight(f) /\ f \notin astray => origin[f] # <<s, number[s]>>]_pvars
  <2> SUFFICES ASSUME PlanRecords, Alarmable, PlanNext, NEW s \in Source, s \in anomaly' \ anomaly,
                      NEW f \in Planned, InFlight(f), f \notin astray, origin[f] = <<s, number[s]>>
               PROVE  FALSE
      OBVIOUS
  <2>1. link[s] = f /\ f # NoTask
      BY TaskAssumption, PlanAssumption DEF Alarmable
  <2>2. ASSUME NEW r \in Source, finalize_planned_followup(r) PROVE FALSE
      BY <2>1, <2>2 DEF finalize_planned_followup
  <2>3. ASSUME NEW t \in Task, finalize_active(t) PROVE FALSE
      BY <2>1, <2>3 DEF finalize_active, _maybe_mark_promise_without_task
  <2>4. ASSUME NEW r \in Source, attach_promise_guard(r) \/ create_followup_plan(r) PROVE FALSE
      BY <2>4 DEF attach_promise_guard, create_followup_plan
  <2>5. ASSUME NEW r \in Source, NEW g \in Planned, NEW when, schedule_followup_from_plan(r, g, when)
        PROVE  FALSE
      BY <2>5 DEF schedule_followup_from_plan
  <2>6. ASSUME NEW g \in Planned,
               SendReply(g) \/ ReportsSent(g) \/ ReportsFailure(g) \/ ReportsNothing(g) \/ SayReply(g)
        PROVE  FALSE
      BY <2>6 DEF SendReply, ReportsSent, ReportsFailure, ReportsNothing, SayReply, meta
  <2>7. CASE Others
      BY <2>7 DEF Others, meta
  <2> QED
      BY <2>2, <2>3, <2>4, <2>5, <2>6, <2>7 DEF PlanNext
<1> QED
    BY <1>1, PlanRecordsHold, AlarmableHolds, PTL DEF PlanSpec, NoFalseAlarm

-----------------------------------------------------------------------------
\* Replies.

\* Nobody hears of a follow-up that does not exist; who is not astray was heard
\* once at most, and is then being reported on or gone; the latest plan of a task
\* is linked once it has a follow-up; of two made for one plan one is astray.
Countable ==
    /\ \A f \in Planned : InStore(f) \/ (heard[f] = 0 /\ f \notin delivering)
    /\ \A f \in Planned \ astray : heard[f] = 0 \/ (heard[f] = 1 /\ (f \in sent \/ ~ InFlight(f)))
    /\ \A f \in Planned, s \in Source : InStore(f) /\ origin[f] = <<s, number[s]>> => link[s] # NoTask
    /\ \A f, g \in Planned : f # g /\ InStore(f) /\ InStore(g) /\ origin[f] = origin[g]
                             => f \in astray \/ g \in astray

\* A step that makes no plan and no follow-up.
LEMMA CountableKept ==
    ASSUME Countable, UNCHANGED <<link, number, origin>>, astray \subseteq astray',
           \A f \in Planned : InStore(f)' <=> InStore(f),
           \A f \in Planned : InStore(f) \/ (heard'[f] = 0 /\ f \notin delivering'),
           \A f \in Planned \ astray' :
              heard'[f] = 0 \/ (heard'[f] = 1 /\ (f \in sent' \/ ~ InFlight(f)'))
    PROVE  Countable'
  BY DEF Countable

\* In such a step a follow-up that was not heard again stays counted.
LEMMA QuietStep ==
    ASSUME Countable, UNCHANGED <<link, number, origin, heard>>, astray \subseteq astray',
           \A f \in Planned : InStore(f)' <=> InStore(f),
           \A f \in Planned \ delivering : f \in delivering' => InStore(f),
           \A f \in Planned \ astray' : f \in sent => f \in sent' \/ ~ InFlight(f)',
           \A f \in Planned \ astray' : ~ InFlight(f) => ~ InFlight(f)'
    PROVE  Countable'
<1>1. \A f \in Planned : InStore(f) \/ (heard'[f] = 0 /\ f \notin delivering')
    BY DEF Countable
<1>2. ASSUME NEW f \in Planned \ astray'
      PROVE  heard'[f] = 0 \/ (heard'[f] = 1 /\ (f \in sent' \/ ~ InFlight(f)'))
  <2>1. heard[f] = 0 \/ (heard[f] = 1 /\ (f \in sent \/ ~ InFlight(f)))
      BY DEF Countable
  <2> QED
      BY <2>1
<1> QED
    BY <1>1, <1>2, CountableKept

LEMMA ConservesStores ==
    ASSUME TypeOK, Conserves, archived' \ archived \subseteq {u \in Task : inflight[u] # "absent"}
    PROVE  \A f \in Planned : InStore(f)' <=> InStore(f)
  BY TaskAssumption DEF Conserves, InStore, TypeOK

LEMMA CountableStep ==
    ASSUME TypeOK, QueueOrderTotal, PlanRecords, PlanRecords', DeliveriesPlanned, DeliveriesPlanned',
           Alarmable, Countable, [PlanNext]_pvars
    PROVE  Countable'
<1>0. /\ inflight \in [Task -> Status] /\ archived \subseteq Task
      /\ Planned \subseteq Task /\ Source \subseteq Task /\ NoTask \notin Task
      /\ number \in [Source -> Nat] /\ DOMAIN origin = Planned /\ heard \in [Planned -> 0..2]
      /\ delivering \subseteq Planned /\ delivering' \subseteq Planned /\ sent \subseteq delivering
    BY TaskAssumption, PlanAssumption DEF TypeOK, PlanRecords, DeliveriesPlanned
<1>1. \A f \in Planned : f \in delivering => InFlight(f) \/ f \in astray
    BY DEF Alarmable
<1>2. ASSUME UNCHANGED <<vars, link, number, origin, heard, sent>>, astray \subseteq astray' PROVE Countable'
    BY <1>2, QuietStep DEF vars, flags, InStore, InFlight
<1>3. ASSUME NEW s \in Source, attach_promise_guard(s) \/ finalize_planned_followup(s) PROVE Countable'
    BY <1>2, <1>3 DEF attach_promise_guard, finalize_planned_followup, history
<1>4. ASSUME NEW s \in Source, create_followup_plan(s) PROVE Countable'
  <2>1. /\ UNCHANGED <<inflight, archived, delivering, origin, astray, sent, heard>>
        /\ link' = [link EXCEPT ![s] = NoTask] /\ number' = [number EXCEPT ![s] = @ + 1]
      BY <1>4 DEF create_followup_plan, vars, flags
  <2>2. /\ number'[s] = number[s] + 1 /\ number[s] \in Nat
        /\ \A r \in Source \ {s} : number'[r] = number[r] /\ link'[r] = link[r]
      BY <1>0, <2>1 DEF PlanRecords
  <2>3. \A f \in Planned : origin[f] # <<s, number'[s]>>
      BY <2>2 DEF Alarmable
  <2>4. \A f \in Planned, r \in Source : InStore(f) /\ origin[f] = <<r, number'[r]>> => link'[r] # NoTask
      BY <2>2, <2>3 DEF Countable
  <2> QED
      BY <2>1, <2>4 DEF Countable, InStore, InFlight
<1>5. ASSUME NEW s \in Source, NEW f \in Planned, NEW when, schedule_followup_from_plan(s, f, when)
      PROVE  Countable'
  <2>1. /\ f \in Task /\ inflight[f] = "absent" /\ f \notin archived /\ inflight'[f] # "absent"
        /\ archived' = archived /\ delivering' = delivering
        /\ \A u \in Task \ {f} : inflight'[u] = "absent" <=> inflight[u] = "absent"
      BY <1>5, ScheduleMoves, StoredMeans DEF schedule_followup_from_plan
  <2>2. /\ ~ InFlight(link[s]) /\ UNCHANGED <<number, sent, heard>>
        /\ astray' = IF link[s] = NoTask \/ InFlight(link[s]) THEN astray ELSE astray \cup {f}
        /\ link' = [link EXCEPT ![s] = f] /\ origin' = [origin EXCEPT ![f] = <<s, number[s]>>]
      BY <1>5 DEF schedule_followup_from_plan
  <2>3. /\ link'[s] = f /\ \A r \in Source \ {s} : link'[r] = link[r]
        /\ origin'[f] = <<s, number[s]>> /\ \A g \in Planned \ {f} : origin'[g] = origin[g]
      BY <1>0, <2>2 DEF PlanRecords
  <2>4. ~ InStore(f) /\ heard[f] = 0 /\ f # NoTask
      BY <1>0, <2>1 DEF InStore, Countable
  <2>5. /\ InStore(f)' /\ \A g \in Planned \ {f} : InStore(g)' <=> InStore(g)
        /\ \A g \in Planned \ {f} : InFlight(g)' <=> InFlight(g)
      BY <1>0, <2>1 DEF InStore, InFlight
  <2>6. \A g \in Planned : InStore(g)' \/ (heard'[g] = 0 /\ g \notin delivering')
      BY <2>1, <2>2, <2>5 DEF Countable
  <2>7. \A g \in Planned \ astray' : heard'[g] = 0 \/ (heard'[g] = 1 /\ (g \in sent' \/ ~ InFlight(g)'))
      BY <2>2, <2>4, <2>5 DEF Countable
  <2>8. ASSUME NEW g \in Planned, NEW r \in Source, InStore(g)', origin'[g] = <<r, number'[r]>>
        PROVE  link'[r] # NoTask
      BY <2>2, <2>3, <2>4, <2>5, <2>8 DEF Countable
  <2>9. ASSUME NEW g \in Planned, g # f, InStore(g)', origin'[g] = origin'[f]
        PROVE  f \in astray'
    <3>1. link[s] # NoTask
        BY <2>3, <2>5, <2>9 DEF Countable
    <3> QED
        BY <2>2, <3>1
  <2>10. ASSUME NEW g \in Planned, NEW h \in Planned, g # h, InStore(g)', InStore(h)', origin'[g] = origin'[h]
         PROVE  g \in astray' \/ h \in astray'
    <3>1. CASE g = f \/ h = f
        BY <2>9, <2>10, <3>1
    <3>2. CASE g # f /\ h # f
        BY <2>2, <2>3, <2>5, <2>10, <3>2 DEF Countable
    <3> QED
        BY <3>1, <3>2
  <2> QED
      BY <2>6, <2>7, <2>8, <2>10 DEF Countable
<1>6. ASSUME NEW t \in Task, finalize_active(t) PROVE Countable'
  <2>1. /\ \A u \in Task \ {t} : inflight'[u] = "absent" <=> inflight[u] = "absent"
        /\ inflight[t] # "absent" /\ inflight'[t] = "absent"
        /\ archived' = archived \cup {t} /\ delivering' = delivering
      BY <1>6, FinalizeMoves DEF finalize_active, FinishActive, flags
  <2>2. UNCHANGED <<link, number, origin, heard, sent>> /\ astray \subseteq astray'
      BY <1>6 DEF finalize_active
  <2>3. \A f \in Planned : (InStore(f)' <=> InStore(f)) /\ (~ InFlight(f) => ~ InFlight(f)')
      BY <1>0, <2>1 DEF InStore, InFlight
  <2> QED
      BY <2>1, <2>2, <2>3, QuietStep
<1>7. ASSUME NEW f \in Planned, SendReply(f) PROVE Countable'
  <2>1. /\ UNCHANGED <<inflight, archived, delivering, link, number, origin, astray>>
        /\ f \in delivering /\ f \notin sent /\ sent' = sent \cup {f}
        /\ heard' = [heard EXCEPT ![f] = IF @ = 2 THEN 2 ELSE @ + 1]
      BY <1>7 DEF SendReply, Hears, vars, flags, meta
  <2>2. f \in astray \/ heard[f] = 0
      BY <1>1, <2>1 DEF Countable
  <2>3. /\ \A g \in Planned \ {f} : heard'[g] = heard[g]
        /\ f \in astray \/ heard'[f] = 1
      BY <1>0, <2>1, <2>2
  <2>4. InStore(f)
      BY <2>1 DEF Countable
  <2>5. \A g \in Planned : InStore(g) \/ (heard'[g] = 0 /\ g \notin delivering')
      BY <2>1, <2>3, <2>4 DEF Countable
  <2>6. \A g \in Planned \ astray' : heard'[g] = 0 \/ (heard'[g] = 1 /\ (g \in sent' \/ ~ InFlight(g)'))
      BY <2>1, <2>3 DEF Countable, InFlight
  <2> QED
      BY <2>1, <2>5, <2>6, CountableKept DEF InStore
<1>8. ASSUME NEW f \in Planned, SayReply(f) PROVE Countable'
  <2>1. /\ f \in Task /\ _finalize_task(f) /\ delivering' = delivering /\ inflight[f] # "absent"
        /\ UNCHANGED <<link, number, origin, sent>>
        /\ astray' = IF f \in delivering THEN astray \cup {f} ELSE astray
        /\ heard' = [heard EXCEPT ![f] = IF @ = 2 THEN 2 ELSE @ + 1]
      BY <1>0, <1>8 DEF SayReply, FulfillDueContinuation, Hears, flags, meta
  <2>2. /\ \A u \in Task \ {f} : inflight'[u] = "absent" <=> inflight[u] = "absent"
        /\ inflight'[f] = "absent" /\ archived' = archived \cup {f}
      BY <2>1, FinalizeMoves
  <2>3. f \in astray' \/ heard[f] = 0
      BY <1>0, <2>1 DEF Countable, InFlight
  <2>4. /\ \A g \in Planned \ {f} : heard'[g] = heard[g]
        /\ f \in astray' \/ heard'[f] = 1
      BY <1>0, <2>1, <2>3
  <2>5. /\ \A g \in Planned : InStore(g)' <=> InStore(g)
        /\ \A g \in Planned : ~ InFlight(g) => ~ InFlight(g)'
        /\ InStore(f) /\ ~ InFlight(f)'
      BY <1>0, <2>1, <2>2 DEF InStore, InFlight
  <2>6. \A g \in Planned : InStore(g) \/ (heard'[g] = 0 /\ g \notin delivering')
      BY <2>1, <2>4, <2>5 DEF Countable
  <2>7. \A g \in Planned \ astray' : heard'[g] = 0 \/ (heard'[g] = 1 /\ (g \in sent' \/ ~ InFlight(g)'))
      BY <2>1, <2>4, <2>5 DEF Countable
  <2> QED
      BY <2>1, <2>5, <2>6, <2>7, CountableKept
<1>9. ASSUME NEW f \in Planned, ReportsSent(f) \/ ReportsFailure(f) \/ ReportsNothing(f) PROVE Countable'
  <2>1. /\ f \in Task /\ f \in delivering /\ delivering' = delivering \ {f} /\ sent' = sent \ {f}
        /\ UNCHANGED <<link, number, origin, heard>> /\ astray \subseteq astray'
      BY <1>0, <1>9 DEF ReportsSent, ReportsFailure, ReportsNothing, DeliverySucceeds, DeliveryFails,
                        DeliveryUnreported, meta, history
  <2>2. Conserves /\ archived' \subseteq archived \cup {f}
    <3>1. Conserves
        BY <1>9, <2>1, HookConserves DEF ReportsSent, ReportsFailure, ReportsNothing
    <3>2. archived' \subseteq archived \cup {f}
        BY <1>9, <2>1, FinalizeMoves DEF ReportsSent, ReportsFailure, ReportsNothing, DeliverySucceeds,
           DeliveryFails, DeliveryUnreported
    <3> QED
        BY <3>1, <3>2
  <2>3. InStore(f)
      BY <2>1 DEF Countable
  <2>4. \A g \in Planned : InStore(g)' <=> InStore(g)
      BY <1>0, <2>2, <2>3 DEF Conserves, InStore
  <2>5. /\ \A u \in Task \ {f} : inflight'[u] = "absent" <=> inflight[u] = "absent"
        /\ ReportsSent(f) => inflight'[f] = "absent"
        /\ ReportsNothing(f) => inflight' = inflight
      BY <1>9, <2>1, FinalizeMoves, BlockMoves DEF ReportsSent, ReportsFailure, ReportsNothing,
         DeliverySucceeds, DeliveryFails, DeliveryUnreported
  <2>6. f \in sent /\ f \notin astray' => inflight'[f] = "absent"
      BY <1>9, <2>5 DEF ReportsFailure, ReportsNothing
  <2>7. \A g \in Planned \ astray' : g \in sent => g \in sent' \/ ~ InFlight(g)'
      BY <2>1, <2>6 DEF InFlight
  <2>8. \A g \in Planned \ astray' : ~ InFlight(g) => ~ InFlight(g)'
      BY <1>0, <1>1, <2>1, <2>5 DEF InFlight
  <2> QED
      BY <2>1, <2>4, <2>7, <2>8, QuietStep
<1>10. CASE Others
  <2>1. Conserves
      BY <1>10, OthersConserve
  <2>2. /\ UNCHANGED <<link, number, origin, heard>> /\ sent' = sent \cap delivering'
        /\ astray' = astray \cup ((Ended \cup Revived) \cap Planned) \cup (sent \ delivering')
      BY <1>10 DEF Others, meta
  <2>3. archived' \ archived \subseteq {u \in Task : inflight[u] # "absent"}
      BY <1>10, OthersArchive
  <2>4. \A f \in Planned : InStore(f)' <=> InStore(f)
      BY <2>1, <2>3, ConservesStores
  <2>5. \A f \in Planned \ delivering : f \in delivering' => InStore(f)
      BY <1>10, OthersClaim DEF InStore
  <2>6. \A f \in Planned \ astray' : ~ InFlight(f) => ~ InFlight(f)'
      BY <1>0, <2>1, <2>2 DEF Conserves, Revived, InFlight
  <2> QED
      BY <2>2, <2>4, <2>5, <2>6, QuietStep
<1>11. CASE UNCHANGED pvars
    BY <1>2, <1>11 DEF pvars, meta, history
<1> QED
    BY <1>3, <1>4, <1>5, <1>6, <1>7, <1>8, <1>9, <1>10, <1>11 DEF PlanNext

LEMMA CountableHolds == PlanSpec => []Countable
<1>1. PlanInit => Countable
    BY TaskAssumption DEF PlanInit, Init, Countable, InStore
<1>2. /\ TypeOK /\ QueueOrderTotal /\ PlanRecords /\ PlanRecords' /\ DeliveriesPlanned /\ DeliveriesPlanned'
      /\ Alarmable /\ Countable /\ [PlanNext]_pvars
      => Countable'
    BY CountableStep
<1> QED
    BY <1>1, <1>2, PlansAreHooks, TypeCorrect, QueueOrdered, OnlyPlannedAreDelivered, PlanRecordsHold,
       AlarmableHolds, PTL DEF PlanSpec

\* The user reads the reply of a plan once, however often the tool is called and
\* whoever sends it, unless a report was wrong or lost or somebody intervened.
THEOREM RepliesAreHeardOnce == PlanSpec => []ReplyHeardOnce
<1>1. PlanRecords /\ Countable => ReplyHeardOnce
  <2> SUFFICES ASSUME PlanRecords, Countable, NEW f \in Planned, NEW g \in Planned,
                      origin[f] = origin[g], heard[f] > 0, heard[g] > 0, f \notin astray, g \notin astray
               PROVE  f = g /\ heard[f] = 1
      BY DEF ReplyHeardOnce
  <2>1. InStore(f) /\ InStore(g)
      BY DEF Countable
  <2> QED
      BY <2>1 DEF Countable
<1> QED
    BY <1>1, PlanRecordsHold, CountableHolds, PTL

=============================================================================
