--------------------------- MODULE TaskLifecycle ---------------------------
(***************************************************************************)
(* The task store of the runtime (scripts/runtime/task_state.py) and every *)
(* hook that moves a task through it: registration, activation, progress,  *)
(* blocking, completion, resumption, cancellation, follow-up scheduling,   *)
(* continuation claims and the watchdog.  One agent has one execution      *)
(* slot: a task that asks for it while another one is running waits in the *)
(* queue, and whoever gives the slot up promotes the oldest waiting task.  *)
(*                                                                         *)
(* One action is one whole hook process, promotions included; what happens *)
(* when two processes interleave inside a hook is another module's matter. *)
(***************************************************************************)
EXTENDS Naturals, FiniteSets

CONSTANTS
    Agent,          \* the agents of the installation
    Main,           \* the agent whose queue main_ops and the watchdog manage
    Session,        \* session keys
    AgentOf,        \* the agent a session belongs to
    Task,           \* task ids; an id is used for one task only (uuid4)
    SessionOf,      \* the session an id is drawn for
    Planned,        \* the ids drawn for follow-ups; messages get the others
    Quiet,          \* the tasks whose run may end with nothing visible to the user
    ResumeFrom,     \* the statuses from which an operator resumes a task by id
    Purgeable,      \* the sessions whose records an operator may delete
    MaxResumes,     \* watchdogMaxResumesPerCycle of the plugin configuration
    MaxStamp        \* bound on the creation stamps handed out

ACTIVE_STATUSES      == {"queued", "running"}
OBSERVED_STATUSES    == {"received"}
RECOVERABLE_STATUSES == {"blocked", "paused"}

\* A terminal status is told apart only by the file being in the archive.
LiveStatus == ACTIVE_STATUSES \cup OBSERVED_STATUSES \cup RECOVERABLE_STATUSES

ASSUME AgentAssumption    == Main \in Agent /\ AgentOf \in [Session -> Agent]
ASSUME TaskAssumption     == /\ SessionOf \in [Task -> Session]
                             /\ Planned \subseteq Task /\ Quiet \subseteq Task
ASSUME OperatorAssumption == /\ ResumeFrom \subseteq LiveStatus \cup {"archived"}
                             /\ Purgeable \subseteq Session
ASSUME BoundAssumption    == MaxResumes \in Nat \ {0} /\ MaxStamp \in Nat

VARIABLES
    inflight,       \* status in data/tasks/inflight/<id>.json, "absent" when no file
    archived,       \* tasks with a file data/tasks/archive/<id>.json
    created_at,     \* creation stamp of a task, 0 while the id is unused
    clock,          \* the last creation stamp handed out
    due,            \* continuation_due_at: "none", or a time in the "future" or "past"
    claimed,        \* tasks with continuation_state = "claimed"
    skipped,        \* tasks with a finalize_skipped_reason
    escalated,      \* tasks with a watchdog_escalation
    delivering      \* continuations the plugin claimed and has not yet reported on

flags == <<due, claimed, skipped, escalated, delivering>>
vars  == <<inflight, archived, created_at, clock, flags>>

-----------------------------------------------------------------------------
\* What the store answers about a table f of in-flight statuses.

AgentOfTask(t) == AgentOf[SessionOf[t]]

AgentsOf(T) == {AgentOfTask(t) : t \in T}

find_inflight_tasks(f, a, S) == {t \in Task : AgentOfTask(t) = a /\ f[t] \in S}
find_running_tasks(f, a)     == find_inflight_tasks(f, a, {"running"})
find_queued_tasks(f, a)      == find_inflight_tasks(f, a, {"queued"})

InSession(s, S) == {t \in Task : SessionOf[t] = s /\ inflight[t] \in S}

\* Mutant: the queue is taken from its youngest end.
IsQueueHeadYoungest(f, t) ==
    /\ f[t] = "queued"
    /\ \A u \in find_queued_tasks(f, AgentOfTask(t)) : created_at[u] <= created_at[t]

\* The head of the queue: find_queued_tasks sorts by created_at.
IsQueueHead(f, t) ==
    /\ f[t] = "queued"
    /\ \A u \in find_queued_tasks(f, AgentOfTask(t)) : created_at[t] <= created_at[u]

\* The table after promote_next_queued_task was called for the agents in A.
promote_next_queued_task(f, A) ==
    [t \in Task |->
        IF /\ AgentOfTask(t) \in A
           /\ find_running_tasks(f, AgentOfTask(t)) = {}
           /\ IsQueueHead(f, t)
        THEN "running" ELSE f[t]]

\* Mutant: the slot is not checked before a task is started.
SlotStatusUnchecked(f, t) == "running"

\* The status a task gets when it asks for the slot of its agent.
SlotStatus(f, t) ==
    IF find_running_tasks(f, AgentOfTask(t)) = {} THEN "running" ELSE "queued"

claim_execution_slot(f, t) ==
    [f EXCEPT ![t] = IF f[t] = "running" THEN "running" ELSE SlotStatus(f, t)]

\* The record load_task finds: the in-flight file first, then the archive.
Stored(t) == IF inflight[t] # "absent" THEN inflight[t]
             ELSE IF t \in archived THEN "archived" ELSE "absent"

Fresh(t) == created_at[t] = 0 /\ clock < MaxStamp

\* Mutant: the clock is too coarse to tell two tasks apart.
StampCoarse(t) ==
    /\ clock' = IF clock = 0 THEN 1 ELSE clock
    /\ created_at' = [created_at EXCEPT ![t] = clock']

Stamp(t) ==
    /\ clock' = clock + 1
    /\ created_at' = [created_at EXCEPT ![t] = clock + 1]

KeepStamps == UNCHANGED <<created_at, clock>>

Init ==
    /\ inflight = [t \in Task |-> "absent"]
    /\ archived = {}
    /\ created_at = [t \in Task |-> 0]
    /\ clock = 0
    /\ due = [t \in Task |-> "none"]
    /\ claimed = {}
    /\ skipped = {}
    /\ escalated = {}
    /\ delivering = {}

-----------------------------------------------------------------------------
\* Inbound messages.  `start` is auto_start /\ ~observe_only.

\* register_main_task with a task id t nobody has used.
register_main_task(t, start) ==
    /\ Fresh(t) /\ t \notin Planned
    /\ Stamp(t)
    /\ inflight' = [inflight EXCEPT ![t] = IF start THEN SlotStatus(inflight, t) ELSE "received"]
    /\ UNCHANGED <<archived, flags>>

\* A message that continues no earlier task: the session has no recoverable
\* task, or its latest one is a continuation that is not due yet.
RegisterNew(t, start) ==
    /\ LET recoverable == InSession(SessionOf[t], RECOVERABLE_STATUSES)
       IN  recoverable = {} \/ \E r \in recoverable : due[r] = "future"
    /\ register_main_task(t, start)

\* A collecting window that expires with buffered messages and no task to
\* merge them into; it does not look at recoverable tasks.
MaterializeWindow(t, start) == register_main_task(t, start)

\* A stale observed task is reused for the new message and becomes the
\* youngest of its queue.
TakeOverStaleObserved(t, start) ==
    /\ inflight[t] = "received"
    /\ clock < MaxStamp
    /\ InSession(SessionOf[t], ACTIVE_STATUSES \cup RECOVERABLE_STATUSES) = {}
    /\ Stamp(t)
    /\ inflight' = IF start THEN claim_execution_slot(inflight, t) ELSE inflight
    /\ UNCHANGED <<archived, flags>>

\* resume_task: the record is loaded from wherever it is and saved in flight.
resume_task(t) ==
    /\ inflight' = [inflight EXCEPT ![t] = SlotStatus(inflight, t)]
    /\ KeepStamps
    /\ UNCHANGED <<archived, flags>>

\* A message that resumes the latest recoverable task of its session.
ResumeRecoverable(t) ==
    /\ inflight[t] \in RECOVERABLE_STATUSES
    /\ due[t] # "future"
    /\ resume_task(t)

\* The resume-main-task hook and `main_ops resume`, on any stored record.
ResumeById(t) ==
    /\ Stored(t) \in ResumeFrom
    /\ resume_task(t)

AskForSlot(t) ==
    /\ inflight' = claim_execution_slot(inflight, t)
    /\ KeepStamps
    /\ UNCHANGED <<archived, flags>>

\* activate-latest: the agent starts to work on the message.
ActivateLatest(t) == inflight[t] = "received" /\ AskForSlot(t)

\* A collecting window that expires while the task it was opened for still waits.
MergeWindow(t) == inflight[t] \in {"received", "queued"} /\ AskForSlot(t)

-----------------------------------------------------------------------------
\* Giving the slot up.

\* Mutant: giving the slot up starts nobody.
ReleaseUnpromoted(f, T, status) == [t \in Task |-> IF t \in T THEN status ELSE f[t]]

\* The tasks of T are saved with a status that holds no slot and, after each
\* save, the queue head of the agent is promoted: the order does not matter.
Release(f, T, status) ==
    promote_next_queued_task([t \in Task |-> IF t \in T THEN status ELSE f[t]], AgentsOf(T))

\* block_task: the status is saved first, then the queue head is promoted.
block_task(t) ==
    /\ inflight' = Release(inflight, {t}, "blocked")
    /\ KeepStamps

\* Mutant: the terminal record stays in inflight/ beside its archived copy.
FinalizeAllInPlace(T) ==
    /\ inflight' = Release(inflight, T, "done")
    /\ archived' = archived \cup T
    /\ KeepStamps

\* _finalize_task of every task in T: the record moves to the archive and the
\* queue head of each agent concerned is promoted.
FinalizeAll(T) ==
    /\ inflight' = Release(inflight, T, "absent")
    /\ archived' = archived \cup T
    /\ KeepStamps

_finalize_task(t) == FinalizeAll({t})

\* Mutant: the requested task is looked up in the archive too.
BlockActiveStored(t) ==
    /\ Stored(t) # "absent"
    /\ block_task(t)
    /\ UNCHANGED <<archived, flags>>

\* blocked-active: the requested in-flight task, or the session's active one.
BlockActive(t) ==
    /\ inflight[t] # "absent"
    /\ block_task(t)
    /\ UNCHANGED <<archived, flags>>

\* finalize-active, completed-active and failed-active.
FinishActive(t) ==
    /\ inflight[t] # "absent"
    /\ _finalize_task(t)
    /\ UNCHANGED flags

\* finalize-active after a success nobody saw: the task keeps its status.
FinalizeSkipped(t) ==
    /\ inflight[t] # "absent" /\ t \in Quiet
    /\ skipped' = skipped \cup {t}
    /\ UNCHANGED <<inflight, archived, created_at, clock,
                   due, claimed, escalated, delivering>>

\* progress-active with a visible note repairs a skipped finalization.
ProgressRepairsSkip(t) ==
    /\ inflight[t] = "running"
    /\ t \in skipped
    /\ _finalize_task(t)
    /\ UNCHANGED flags

\* cancel-main-queue-task, by id or by queue position.
CancelQueued(t) ==
    /\ t \in find_queued_tasks(inflight, Main)
    /\ _finalize_task(t)
    /\ UNCHANGED flags

\* stop_main_queue: a running task whose host session was cancelled, else the
\* queue head.  When the host refuses, nothing changes.
StopMainQueue(t) ==
    /\ IF find_running_tasks(inflight, Main) # {}
       THEN t \in find_running_tasks(inflight, Main)
       ELSE t \in find_queued_tasks(inflight, Main) /\ IsQueueHead(inflight, t)
    /\ _finalize_task(t)
    /\ UNCHANGED flags

\* stop_all_main_queue: every queued task, and the running ones in `stopped`,
\* those whose host session was cancelled.
StopAllMainQueue(stopped) ==
    /\ stopped \subseteq find_running_tasks(inflight, Main)
    /\ find_inflight_tasks(inflight, Main, ACTIVE_STATUSES) # {}
    /\ FinalizeAll(stopped \cup find_queued_tasks(inflight, Main))
    /\ UNCHANGED flags

-----------------------------------------------------------------------------
\* Follow-ups: a paused task with a due time, claimed by the plugin's poll.

\* schedule-followup-from-plan: observe_task, then schedule_continuation, then
\* the copy of the source task read at the start is written back.
ScheduleFollowup(source, t, when) ==
    /\ inflight[source] # "absent"
    /\ Fresh(t) /\ t \in Planned
    /\ SessionOf[t] = SessionOf[source]
    /\ when \in {"future", "past"}
    /\ Stamp(t)
    /\ LET promoted == Release(inflight, {t}, "paused")
       IN  inflight' = [promoted EXCEPT ![source] = inflight[source]]
    /\ due' = [due EXCEPT ![t] = when]
    /\ UNCHANGED <<archived, claimed, skipped, escalated, delivering>>

FallsDue(t) ==
    /\ due[t] = "future"
    /\ due' = [due EXCEPT ![t] = "past"]
    /\ UNCHANGED <<inflight, archived, created_at, clock,
                   claimed, skipped, escalated, delivering>>

Claimable == {t \in Task : inflight[t] = "paused" /\ due[t] = "past" /\ t \notin claimed}

\* claim-due-continuations: every due task starts at once, beside whatever
\* holds the slot.
ClaimDueContinuations ==
    /\ Claimable # {}
    /\ inflight' = [t \in Task |-> IF t \in Claimable THEN "running" ELSE inflight[t]]
    /\ claimed' = claimed \cup Claimable
    /\ delivering' = delivering \cup Claimable
    /\ KeepStamps
    /\ UNCHANGED <<archived, due, skipped, escalated>>

\* fulfill-due-continuation: the agent's own output contained the reply.
FulfillDueContinuation(t) ==
    /\ inflight[t] \in {"paused", "running"}
    /\ due[t] = "past"
    /\ _finalize_task(t)
    /\ UNCHANGED flags

\* The plugin reports a claimed continuation by id, whatever became of it.
DeliverySucceeds(t) ==
    /\ t \in delivering
    /\ Stored(t) # "absent"
    /\ _finalize_task(t)
    /\ delivering' = delivering \ {t}
    /\ UNCHANGED <<due, claimed, skipped, escalated>>

DeliveryFails(t) ==
    /\ t \in delivering
    /\ Stored(t) # "absent"
    /\ block_task(t)
    /\ delivering' = delivering \ {t}
    /\ UNCHANGED <<archived, due, claimed, skipped, escalated>>

\* The report is lost: the hook process failed, or the plugin skipped a task
\* without a channel or a text.
DeliveryUnreported(t) ==
    /\ t \in delivering
    /\ delivering' = delivering \ {t}
    /\ UNCHANGED <<inflight, archived, created_at, clock,
                   due, claimed, skipped, escalated>>

-----------------------------------------------------------------------------
\* watchdog-auto-recover.

MainIn(f, S) == find_inflight_tasks(f, Main, S)

\* _summarize_agent_execution_strategy: several sessions share a busy lane.
SerialAdvised(f) ==
    /\ find_running_tasks(f, Main) # {}
    /\ Cardinality({SessionOf[t] : t \in MainIn(f, {"received", "queued", "running", "paused"})}) > 1

WatchdogBlocked(f, esc) == MainIn(f, {"blocked"}) \cap esc

\* The tasks resume_watchdog_blocked_main_tasks may pick.
ResumeCandidates(f, esc) ==
    IF SerialAdvised(f)
    THEN {t \in WatchdogBlocked(f, esc) :
             \E r \in find_running_tasks(f, Main) : SessionOf[r] = SessionOf[t]}
    ELSE WatchdogBlocked(f, esc)

\* auto_resume_safe_to_apply: something to resume, nothing that needs review.
AutoResumeSafe(f, esc, overdue) ==
    /\ WatchdogBlocked(f, esc) # {}
    /\ MainIn(f, {"blocked"}) \subseteq esc
    /\ overdue \cap MainIn(f, LiveStatus) = {}

\* The batches one cycle may resume: the candidates, up to the limit.
ResumeBatches(f, esc, overdue) ==
    IF AutoResumeSafe(f, esc, overdue)
    THEN LET C == ResumeCandidates(f, esc)
         IN  {R \in SUBSET C : \/ R = C /\ Cardinality(C) <= MaxResumes
                               \/ Cardinality(R) = MaxResumes}
    ELSE {{}}

\* resume_task on each task of R, `first` before the others.
ResumeEach(f, R, first) ==
    [t \in Task |-> IF t \notin R THEN f[t]
                    ELSE IF t = first THEN SlotStatus(f, t) ELSE "queued"]

Monitored == {t \in Task : inflight[t] \in ACTIVE_STATUSES \cup OBSERVED_STATUSES}

\* One run of the hook.  `overdue` are the monitored tasks silent for too
\* long, `notify` those among them that skipped finalization and whose reminder
\* is due, `startup` the run at plugin start, when the claims of the previous
\* plugin process are gone.
WatchdogAutoRecover(overdue, notify, startup) ==
    LET stale   == IF startup
                   THEN (overdue \ notify) \cap find_running_tasks(inflight, Main)
                   ELSE {}
        hit     == notify \cup stale
        settled == Release(inflight, hit, "blocked")
        esc     == escalated \cup hit
        silent  == {t \in overdue \ hit : settled[t] = inflight[t]}
    IN  /\ overdue \subseteq Monitored
        /\ notify \subseteq overdue \cap skipped
        /\ \E R \in ResumeBatches(settled, esc, silent) :
              \E first \in IF R = {} THEN Task ELSE R : inflight' = ResumeEach(settled, R, first)
        /\ escalated' = esc
        /\ delivering' = IF startup THEN {} ELSE delivering
        /\ KeepStamps
        /\ UNCHANGED <<archived, due, claimed, skipped>>

-----------------------------------------------------------------------------
\* purge_task_records of one session, the archive included.
PurgeSession(s) ==
    /\ s \in Purgeable
    /\ inflight' = [t \in Task |-> IF SessionOf[t] = s THEN "absent" ELSE inflight[t]]
    /\ archived' = {t \in archived : SessionOf[t] # s}
    /\ KeepStamps
    /\ UNCHANGED flags

TaskStep(t) ==
    \/ \E start \in BOOLEAN : \/ RegisterNew(t, start)
                              \/ MaterializeWindow(t, start)
                              \/ TakeOverStaleObserved(t, start)
    \/ ResumeRecoverable(t)
    \/ ResumeById(t)
    \/ ActivateLatest(t)
    \/ MergeWindow(t)
    \/ BlockActive(t)
    \/ FinishActive(t)
    \/ FinalizeSkipped(t)
    \/ ProgressRepairsSkip(t)
    \/ CancelQueued(t)
    \/ StopMainQueue(t)
    \/ \E source \in Task, when \in {"future", "past"} : ScheduleFollowup(source, t, when)
    \/ FallsDue(t)
    \/ FulfillDueContinuation(t)
    \/ DeliverySucceeds(t)
    \/ DeliveryFails(t)
    \/ DeliveryUnreported(t)

Watchdog ==
    \E overdue \in SUBSET Monitored, startup \in BOOLEAN :
        \E notify \in SUBSET (overdue \cap skipped) : WatchdogAutoRecover(overdue, notify, startup)

Next ==
    \/ \E t \in Task : TaskStep(t)
    \/ \E stopped \in SUBSET Task : StopAllMainQueue(stopped)
    \/ ClaimDueContinuations
    \/ Watchdog
    \/ \E s \in Session : PurgeSession(s)

Spec == Init /\ [][Next]_vars

\* The host ends every run it started and the plugin reports every claim it
\* still knows of; a claimed continuation is not a run, nothing else ends it.
\* SF, because a task may be blocked and resumed before its run ends.
Fairness ==
    \A t \in Task : /\ SF_vars(inflight[t] = "running" /\ t \notin claimed /\ FinishActive(t))
                    /\ SF_vars(DeliverySucceeds(t))

FairSpec == Spec /\ Fairness

-----------------------------------------------------------------------------
\* Properties.

Status == LiveStatus \cup {"absent"}

\* Every record has a shape the code writes; a file in inflight/ between two
\* hooks never holds a terminal status, an archived one always does.
TypeOK ==
    /\ inflight \in [Task -> Status]
    /\ archived \subseteq Task
    /\ created_at \in [Task -> 0..MaxStamp]
    /\ clock \in 0..MaxStamp
    /\ due \in [Task -> {"none", "future", "past"}]
    /\ claimed \subseteq Task
    /\ skipped \subseteq Task
    /\ escalated \subseteq Task
    /\ delivering \subseteq claimed

\* One slot per agent: two tasks of an agent run together only when one of
\* them was started by claim-due-continuations, which asks for no slot.
Exclusive(f, C) ==
    \A t, u \in Task :
        /\ t # u /\ AgentOfTask(t) = AgentOfTask(u)
        /\ f[t] = "running" /\ f[u] = "running"
        => t \in C \/ u \in C

SlotExclusive == Exclusive(inflight, claimed)

\* No task waits for a slot nobody holds: promotion happens only when a task
\* gives the slot up, so a queue without a running task would wait for ever.
Busy(f, t) == f[t] = "queued" => find_running_tasks(f, AgentOfTask(t)) # {}

NoIdleQueue == \A t \in Task : Busy(inflight, t)

\* created_at orders the queue: two tasks never share a stamp, and no task in
\* the store is without one, whichever of the paths that stamp created it.
QueueOrderTotal ==
    /\ \A t, u \in Task : created_at[t] = created_at[u] /\ created_at[t] # 0 => t = u
    /\ \A t \in Task : created_at[t] <= clock
    /\ \A t \in Task : Stored(t) # "absent" => created_at[t] # 0

\* A waiting task is started only when no older task of the agent waits on.
\* Tasks the watchdog ever blocked are outside the promise: one hook blocks them
\* and puts them back behind, in the order of their last update.
FirstComeFirstServed ==
    [][\A t, u \in Task \ escalated' :
          /\ inflight[t] = "queued" /\ inflight'[t] = "running"
          /\ inflight[u] = "queued" /\ inflight'[u] = "queued"
          /\ AgentOfTask(t) = AgentOfTask(u)
          => created_at[t] <= created_at[u]]_vars

\* No task waits for ever, unless its agent's slot is held by a continuation
\* whose claim the plugin lost: nobody will report that one.
Orphaned(t) == inflight[t] = "running" /\ t \in claimed \ delivering

QueueDrains ==
    \A t \in Task :
        <>[](inflight[t] = "queued")
        => <>[](\E u \in Task : AgentOfTask(u) = AgentOfTask(t) /\ Orphaned(u))

\* A record that left inflight/ for the archive comes back only by the plugin's
\* late report that a continuation it had claimed could not be delivered.
ArchivedStaysArchived ==
    [][\A t \in Task : inflight[t] = "absent" /\ t \in archived /\ t \notin delivering
                       => inflight'[t] = "absent"]_vars

\* The store implements the execution slot of ExecutionSlot: every hook is one
\* turn of it, or starts due continuations beside, or does not touch the slot.
Place(f) ==
    [t \in Task |-> CASE f[t] = "running" -> "running" [] f[t] = "queued" -> "waiting" [] OTHER -> "out"]

Slot == INSTANCE ExecutionSlot WITH
            Owner <- [t \in Task |-> AgentOfTask(t)],
            place <- Place(inflight), age <- created_at, extra <- claimed, setback <- escalated

ImplementsSlot == Slot!Spec

=============================================================================
