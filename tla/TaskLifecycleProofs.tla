------------------------ MODULE TaskLifecycleProofs ------------------------
(***************************************************************************)
(* Proofs about TaskLifecycle for any agents, sessions and tasks.  The     *)
(* slot of an agent is exclusive, its queue is totally ordered, what is    *)
(* archived stays so, and, as long as operators neither resume a running   *)
(* task nor purge records, no task waits for a slot nobody holds and the   *)
(* queue is served in order: TaskLifecycle then implements ExecutionSlot,  *)
(* every hook being one turn of the abstract slot, starts of due           *)
(* continuations beside it, or no turn at all.                             *)
(***************************************************************************)
EXTENDS TaskLifecycle, WellFoundedInduction, TLAPS

-----------------------------------------------------------------------------
\* The operations on a table of statuses.

\* A non-empty set of stamps has a smallest one, so a non-empty queue has a
\* head, find_queued_tasks(agent_id)[0].
LEMMA SmallestStamp ==
    ASSUME NEW S, S \subseteq Nat, S # {}
    PROVE  \E n \in S : \A m \in S : n <= m
<1> DEFINE Below == {ss \in Nat \X Nat : ss[1] < ss[2]}
<1>1. IsWellFoundedOn(Below, Nat)
    BY NatLessThanWellFounded DEF OpToRel
<1>2. PICK n \in S : \A m \in S : ~ (<<m, n>> \in Below)
  <2> HIDE DEF Below
  <2> QED
    BY <1>1, WFMin
<1>3. \A m \in S : ~ (m < n)
    BY <1>2
<1> QED
    BY <1>3

\* promote_next_queued_task changes a status only from queued to running.
LEMMA PromoteStatus ==
    ASSUME NEW f \in [Task -> Status], NEW A
    PROVE  LET g == promote_next_queued_task(f, A)
           IN  /\ g \in [Task -> Status]
               /\ \A t \in Task : g[t] # f[t] =>
                     /\ f[t] = "queued" /\ g[t] = "running"
                     /\ find_running_tasks(f, AgentOfTask(t)) = {}
                     /\ IsQueueHead(f, t)
BY DEF promote_next_queued_task, IsQueueHead, Status, LiveStatus, ACTIVE_STATUSES

\* Promotion keeps the slot exclusive: it happens in a free slot only, and two
\* queue heads of one agent would share a stamp.
LEMMA PromoteExclusive ==
    ASSUME NEW f \in [Task -> Status], NEW A, NEW C,
           created_at \in [Task -> Nat],
           \A t, u \in Task : created_at[t] = created_at[u] /\ created_at[t] # 0 => t = u,
           \A t \in Task : f[t] = "queued" => created_at[t] # 0,
           Exclusive(f, C)
    PROVE  Exclusive(promote_next_queued_task(f, A), C)
<1> DEFINE g == promote_next_queued_task(f, A)
<1>1. SUFFICES ASSUME NEW t \in Task, NEW u \in Task,
                      t # u, AgentOfTask(t) = AgentOfTask(u),
                      g[t] = "running", g[u] = "running"
               PROVE  t \in C \/ u \in C
    BY DEF Exclusive
<1>2. CASE f[t] = "running" /\ f[u] = "running"
    BY <1>1, <1>2 DEF Exclusive
<1>3. \A x, y \in Task : AgentOfTask(x) = AgentOfTask(y) /\ f[x] = "running" => g[y] = f[y]
  <2>1. \A x, y \in Task : AgentOfTask(x) = AgentOfTask(y) /\ f[x] = "running"
                            => x \in find_running_tasks(f, AgentOfTask(y))
      BY DEF find_running_tasks, find_inflight_tasks
  <2> QED
      BY <2>1, PromoteStatus
<1>4. CASE f[t] # "running" /\ f[u] # "running"
  <2>1. IsQueueHead(f, t) /\ IsQueueHead(f, u)
      BY <1>1, <1>4, PromoteStatus
  <2>2. created_at[t] <= created_at[u] /\ created_at[u] <= created_at[t]
      BY <1>1, <2>1 DEF IsQueueHead, find_queued_tasks, find_inflight_tasks
  <2> QED
      BY <1>1, <2>1, <2>2 DEF IsQueueHead
<1> QED
    BY <1>1, <1>2, <1>3, <1>4

\* After promotion for the agents in A no queue of theirs is idle, and the
\* queues of the other agents are as they were.
LEMMA PromoteFills ==
    ASSUME NEW f \in [Task -> Status], NEW A,
           created_at \in [Task -> Nat],
           \A t \in Task : AgentOfTask(t) \notin A => Busy(f, t)
    PROVE  \A t \in Task : Busy(promote_next_queued_task(f, A), t)
<1> DEFINE g == promote_next_queued_task(f, A)
<1>1. SUFFICES ASSUME NEW t \in Task, g[t] = "queued"
               PROVE  \E u \in Task : AgentOfTask(u) = AgentOfTask(t) /\ g[u] = "running"
    BY DEF Busy, find_running_tasks, find_inflight_tasks
<1>2. f[t] = "queued"
    BY <1>1, PromoteStatus
<1>3. CASE find_running_tasks(f, AgentOfTask(t)) # {}
  <2>1. PICK u \in Task : AgentOfTask(u) = AgentOfTask(t) /\ f[u] = "running"
      BY <1>3 DEF find_running_tasks, find_inflight_tasks
  <2>2. g[u] = "running"
      BY <2>1, PromoteStatus
  <2> QED
      BY <2>1, <2>2
<1>4. CASE find_running_tasks(f, AgentOfTask(t)) = {}
  <2>1. AgentOfTask(t) \in A
      BY <1>2, <1>4 DEF Busy
  <2> DEFINE Q == find_queued_tasks(f, AgentOfTask(t))
             S == {created_at[u] : u \in Q}
  <2>2. S \subseteq Nat /\ S # {}
      BY <1>2 DEF find_queued_tasks, find_inflight_tasks
  <2>3. PICK n \in S : \A m \in S : n <= m
      BY <2>2, SmallestStamp
  <2>4. PICK h \in Q : created_at[h] = n
      BY <2>3
  <2>5. h \in Task /\ AgentOfTask(h) = AgentOfTask(t) /\ f[h] = "queued"
      BY <2>4 DEF find_queued_tasks, find_inflight_tasks
  <2>6. IsQueueHead(f, h)
    <3>1. \A u \in Q : created_at[u] \in S
        OBVIOUS
    <3>2. \A u \in Q : created_at[h] <= created_at[u]
        BY <2>3, <2>4, <3>1
    <3> QED
        BY <2>5, <3>2 DEF IsQueueHead
  <2>7. g[h] = "running"
      BY <1>4, <2>1, <2>5, <2>6 DEF promote_next_queued_task
  <2> QED
      BY <2>5, <2>7
<1> QED
    BY <1>3, <1>4

\* block, pause and finalize keep a table a table; a task that is queued, or
\* in flight, after them was so before or is one of those released.
LEMMA ReleaseStatus ==
    ASSUME NEW f \in [Task -> Status], NEW T, NEW s \in Status
    PROVE  /\ Release(f, T, s) \in [Task -> Status]
           /\ \A t \in Task : Release(f, T, s)[t] # "absent" => f[t] # "absent" \/ t \in T
           /\ \A t \in Task : t \in T /\ s = "absent" => Release(f, T, s)[t] = "absent"
<1> DEFINE h == [t \in Task |-> IF t \in T THEN s ELSE f[t]]
<1>1. h \in [Task -> Status]
    OBVIOUS
<1>2. Release(f, T, s) = promote_next_queued_task(h, AgentsOf(T))
    BY DEF Release
<1>3. \A t \in Task : h[t] # "absent" => f[t] # "absent" \/ t \in T
    OBVIOUS
<1>4. \A t \in Task : t \in T /\ s = "absent" => h[t] = "absent"
    OBVIOUS
<1> HIDE DEF h
<1> QED
    BY <1>1, <1>2, <1>3, <1>4, PromoteStatus

\* Whoever releases tasks keeps the slot exclusive, ...
LEMMA ReleaseExclusive ==
    ASSUME NEW f \in [Task -> Status], NEW T, NEW C,
           NEW s \in Status \ ACTIVE_STATUSES,
           created_at \in [Task -> Nat],
           \A t, u \in Task : created_at[t] = created_at[u] /\ created_at[t] # 0 => t = u,
           \A t \in Task : f[t] = "queued" => created_at[t] # 0,
           Exclusive(f, C)
    PROVE  Exclusive(Release(f, T, s), C)
<1> DEFINE h == [t \in Task |-> IF t \in T THEN s ELSE f[t]]
<1>1. h \in [Task -> Status]
    OBVIOUS
<1>2. \A t \in Task : h[t] \in ACTIVE_STATUSES => h[t] = f[t]
    OBVIOUS
<1> HIDE DEF h
<1>3. Exclusive(h, C)
    BY <1>2 DEF Exclusive, ACTIVE_STATUSES
<1>4. \A t \in Task : h[t] = "queued" => created_at[t] # 0
    BY <1>2 DEF ACTIVE_STATUSES
<1>5. Exclusive(promote_next_queued_task(h, AgentsOf(T)), C)
    BY <1>1, <1>3, <1>4, PromoteExclusive
<1> QED
    BY <1>5 DEF Release, h

\* ... and leaves no queue idle that was not: only the agents of the released
\* tasks lose a running task, and the queue heads of those are promoted.
LEMMA ReleaseFills ==
    ASSUME NEW f \in [Task -> Status], NEW T \in SUBSET Task,
           NEW s \in Status \ ACTIVE_STATUSES,
           created_at \in [Task -> Nat],
           \A t \in Task : Busy(f, t)
    PROVE  \A t \in Task : Busy(Release(f, T, s), t)
<1> DEFINE h == [t \in Task |-> IF t \in T THEN s ELSE f[t]]
<1>1. h \in [Task -> Status]
    OBVIOUS
<1>2. ASSUME NEW t \in Task, AgentOfTask(t) \notin AgentsOf(T)
      PROVE  Busy(h, t)
  <2>1. \A u \in Task : AgentOfTask(u) = AgentOfTask(t) => u \notin T
      BY <1>2 DEF AgentsOf
  <2>2. h[t] = f[t] /\ find_running_tasks(h, AgentOfTask(t)) = find_running_tasks(f, AgentOfTask(t))
      BY <2>1 DEF find_running_tasks, find_inflight_tasks
  <2> QED
      BY <2>2 DEF Busy
<1> HIDE DEF h
<1>3. \A t \in Task : Busy(promote_next_queued_task(h, AgentsOf(T)), t)
    BY <1>1, <1>2, PromoteFills
<1> QED
    BY <1>3 DEF Release, h

\* A task that asks for the slot gets it only when it is free.
LEMMA ClaimExclusive ==
    ASSUME NEW f \in [Task -> Status], NEW t \in Task, NEW C, Exclusive(f, C)
    PROVE  Exclusive([f EXCEPT ![t] = SlotStatus(f, t)], C)
BY DEF Exclusive, SlotStatus, find_running_tasks, find_inflight_tasks

\* A task that did not run and asks for the slot runs, or waits for another.
LEMMA ClaimFills ==
    ASSUME NEW f \in [Task -> Status], NEW t \in Task, f[t] # "running",
           \A u \in Task : Busy(f, u)
    PROVE  \A u \in Task : Busy([f EXCEPT ![t] = SlotStatus(f, t)], u)
<1> DEFINE g == [f EXCEPT ![t] = SlotStatus(f, t)]
<1>1. \A u \in Task : u # t => g[u] = f[u]
    OBVIOUS
<1>2. g[t] = SlotStatus(f, t)
    OBVIOUS
<1>3. \A r \in Task : f[r] = "running" => g[r] = "running"
    BY <1>1
<1> HIDE DEF g
<1>4. SUFFICES ASSUME NEW u \in Task, g[u] = "queued"
               PROVE  \E r \in Task : AgentOfTask(r) = AgentOfTask(u) /\ f[r] = "running"
    BY <1>3 DEF Busy, find_running_tasks, find_inflight_tasks, g
<1>5. find_running_tasks(f, AgentOfTask(u)) # {}
    BY <1>1, <1>2, <1>4 DEF Busy, SlotStatus
<1> QED
    BY <1>5 DEF find_running_tasks, find_inflight_tasks

-----------------------------------------------------------------------------
\* Type correctness.

\* The bounds are natural numbers and a fresh id leaves room for its stamp.
LEMMA StampType ==
    ASSUME TypeOK, NEW t \in Task, clock < MaxStamp, Stamp(t)
    PROVE  /\ created_at' \in [Task -> 0..MaxStamp]
           /\ clock' \in 0..MaxStamp
BY BoundAssumption DEF TypeOK, Stamp

\* Each action on one task keeps the records well-formed.
LEMMA TaskStepType ==
    ASSUME TypeOK, NEW t \in Task, TaskStep(t)
    PROVE  TypeOK'
<1> USE DEF TypeOK, Status, LiveStatus, ACTIVE_STATUSES, OBSERVED_STATUSES, RECOVERABLE_STATUSES
<1>1. SlotStatus(inflight, t) \in Status
    BY DEF SlotStatus
<1>2. ASSUME NEW T, NEW s \in Status
      PROVE  Release(inflight, T, s) \in [Task -> Status]
    BY ReleaseStatus
<1>3. ASSUME NEW start \in BOOLEAN, register_main_task(t, start)
      PROVE  TypeOK'
    BY <1>1, <1>3, StampType DEF register_main_task, Fresh, flags
<1>4. ASSUME NEW start \in BOOLEAN, RegisterNew(t, start) \/ MaterializeWindow(t, start)
      PROVE  TypeOK'
    BY <1>3, <1>4 DEF RegisterNew, MaterializeWindow
<1>5. ASSUME NEW start \in BOOLEAN, TakeOverStaleObserved(t, start)
      PROVE  TypeOK'
    BY <1>1, <1>5, StampType DEF TakeOverStaleObserved, claim_execution_slot, flags
<1>6. CASE resume_task(t)
    BY <1>1, <1>6 DEF resume_task, KeepStamps, flags
<1>7. CASE ResumeRecoverable(t) \/ ResumeById(t)
    BY <1>6, <1>7 DEF ResumeRecoverable, ResumeById
<1>8. CASE ActivateLatest(t) \/ MergeWindow(t)
    BY <1>1, <1>8 DEF ActivateLatest, MergeWindow, AskForSlot, claim_execution_slot, KeepStamps, flags
<1>9. CASE BlockActive(t)
    BY <1>2, <1>9 DEF BlockActive, block_task, KeepStamps, flags
<1>10. CASE _finalize_task(t) /\ UNCHANGED flags
    BY <1>2, <1>10 DEF _finalize_task, FinalizeAll, KeepStamps, flags
<1>11. CASE \/ FinishActive(t) \/ ProgressRepairsSkip(t) \/ CancelQueued(t)
            \/ StopMainQueue(t) \/ FulfillDueContinuation(t)
    BY <1>10, <1>11 DEF FinishActive, ProgressRepairsSkip, CancelQueued, StopMainQueue,
                        FulfillDueContinuation
<1>12. CASE FinalizeSkipped(t) \/ FallsDue(t) \/ DeliveryUnreported(t)
    BY <1>12 DEF FinalizeSkipped, FallsDue, DeliveryUnreported
<1>13. ASSUME NEW source \in Task, NEW when \in {"future", "past"},
              ScheduleFollowup(source, t, when)
       PROVE  TypeOK'
    BY <1>2, <1>13, StampType DEF ScheduleFollowup, Fresh
<1>14. CASE DeliverySucceeds(t)
    BY <1>2, <1>14 DEF DeliverySucceeds, _finalize_task, FinalizeAll, KeepStamps
<1>15. CASE DeliveryFails(t)
    BY <1>2, <1>15 DEF DeliveryFails, block_task, KeepStamps
<1> QED
    BY <1>4, <1>5, <1>7, <1>8, <1>9, <1>11, <1>12, <1>13, <1>14, <1>15 DEF TaskStep

\* The batches the watchdog resumes are made of tasks.
LEMMA ResumeEachType ==
    ASSUME NEW f \in [Task -> Status], NEW R, NEW first
    PROVE  ResumeEach(f, R, first) \in [Task -> Status]
BY DEF ResumeEach, SlotStatus, Status, LiveStatus, ACTIVE_STATUSES

\* A run of the watchdog keeps the records well-formed.
LEMMA WatchdogType ==
    ASSUME TypeOK, Watchdog
    PROVE  TypeOK'
<1>1. PICK overdue \in SUBSET Monitored, startup \in BOOLEAN :
               \E notify \in SUBSET (overdue \cap skipped) :
                   WatchdogAutoRecover(overdue, notify, startup)
    BY DEF Watchdog
<1>2. PICK notify \in SUBSET (overdue \cap skipped) :
               WatchdogAutoRecover(overdue, notify, startup)
    BY <1>1
<1> DEFINE stale   == IF startup THEN (overdue \ notify) \cap find_running_tasks(inflight, Main)
                                 ELSE {}
           hit     == notify \cup stale
           settled == Release(inflight, hit, "blocked")
<1>3. hit \subseteq Task
    BY DEF Monitored
<1>4. settled \in [Task -> Status]
    BY ReleaseStatus DEF TypeOK, Status, LiveStatus, RECOVERABLE_STATUSES
<1>5. \E R, first : inflight' = ResumeEach(settled, R, first)
    BY <1>2 DEF WatchdogAutoRecover
<1>6. /\ escalated' = escalated \cup hit
      /\ delivering' \subseteq delivering
      /\ UNCHANGED <<created_at, clock, archived, due, claimed, skipped>>
    BY <1>2 DEF WatchdogAutoRecover, KeepStamps
<1> HIDE DEF hit, settled
<1>7. inflight' \in [Task -> Status]
    BY <1>4, <1>5, ResumeEachType
<1> QED
    BY <1>3, <1>5, <1>6, <1>7 DEF TypeOK

\* TypeOK holds in every reachable state: the hooks never leave a record half
\* written, a terminal status in inflight/, or a report owed for an unclaimed
\* continuation.
THEOREM TypeCorrect == Spec => []TypeOK
<1>1. Init => TypeOK
    BY BoundAssumption DEF Init, TypeOK, Status
<1>2. TypeOK /\ [Next]_vars => TypeOK'
  <2> SUFFICES ASSUME TypeOK, [Next]_vars PROVE TypeOK'
      OBVIOUS
  <2>1. ASSUME NEW t \in Task, TaskStep(t) PROVE TypeOK'
      BY <2>1, TaskStepType
  <2>2. ASSUME NEW stopped \in SUBSET Task, StopAllMainQueue(stopped) PROVE TypeOK'
      BY <2>2, ReleaseStatus
      DEF StopAllMainQueue, FinalizeAll, KeepStamps, flags, TypeOK, Status,
          find_queued_tasks, find_inflight_tasks
  <2>3. CASE ClaimDueContinuations
      BY <2>3 DEF ClaimDueContinuations, Claimable, KeepStamps, TypeOK, Status, LiveStatus,
                  ACTIVE_STATUSES
  <2>4. CASE Watchdog
      BY <2>4, WatchdogType
  <2>5. ASSUME NEW s \in Session, PurgeSession(s) PROVE TypeOK'
      BY <2>5 DEF PurgeSession, KeepStamps, flags, TypeOK, Status
  <2>6. CASE UNCHANGED vars
      BY <2>6 DEF vars, flags, TypeOK
  <2> QED
      BY <2>1, <2>2, <2>3, <2>4, <2>5, <2>6 DEF Next
<1> QED
    BY <1>1, <1>2, PTL DEF Spec

-----------------------------------------------------------------------------
\* The queue order.

\* A record is stored when one of its two files exists.
LEMMA StoredMeans ==
    ASSUME TypeOK
    PROVE  /\ \A t \in Task : Stored(t) # "absent" <=> inflight[t] # "absent" \/ t \in archived
           /\ (\A t \in Task : Stored(t) # "absent" <=> inflight[t] # "absent" \/ t \in archived)'
BY DEF Stored

\* The three facts of QueueOrderTotal survive a new stamp, ...
LEMMA StampKeepsOrder ==
    ASSUME TypeOK, QueueOrderTotal, NEW t \in Task, clock < MaxStamp, Stamp(t),
           \A u \in Task \ {t} : Stored(u)' # "absent" => Stored(u) # "absent"
    PROVE  QueueOrderTotal'
<1>1. clock \in Nat /\ created_at \in [Task -> Nat]
    BY BoundAssumption DEF TypeOK
<1>2. /\ created_at'[t] = clock + 1 /\ clock' = clock + 1
      /\ \A u \in Task \ {t} : created_at'[u] = created_at[u]
    BY <1>1 DEF Stamp
<1>3. \A u \in Task : created_at[u] <= clock
    BY DEF QueueOrderTotal
<1>4. \A u \in Task \ {t} : created_at'[u] # created_at'[t]
    BY <1>1, <1>2, <1>3
<1>5. \A x, y \in Task : created_at'[x] = created_at'[y] /\ created_at'[x] # 0 => x = y
    BY <1>1, <1>2, <1>4 DEF QueueOrderTotal
<1>6. \A x \in Task : created_at'[x] <= clock'
    BY <1>1, <1>2, <1>3
<1>7. \A x \in Task : Stored(x)' # "absent" => created_at'[x] # 0
    BY <1>1, <1>2 DEF QueueOrderTotal
<1> QED
    BY <1>5, <1>6, <1>7 DEF QueueOrderTotal

\* ... and every step without one that stores no record from nothing.
LEMMA KeepStampsKeepsOrder ==
    ASSUME QueueOrderTotal, KeepStamps,
           \A u \in Task : Stored(u)' # "absent" => Stored(u) # "absent"
    PROVE  QueueOrderTotal'
BY DEF QueueOrderTotal, KeepStamps

\* Each action on one task keeps the queue ordered.
LEMMA TaskStepOrder ==
    ASSUME TypeOK, TypeOK', QueueOrderTotal, NEW t \in Task, TaskStep(t)
    PROVE  QueueOrderTotal'
<1> DEFINE Known(u)  == inflight[u] # "absent" \/ u \in archived
           Known1(u) == inflight'[u] # "absent" \/ u \in archived'
<1>0. /\ inflight \in [Task -> Status]
      /\ "blocked" \in Status /\ "absent" \in Status /\ "paused" \in Status
    BY DEF TypeOK, Status, LiveStatus, RECOVERABLE_STATUSES
<1>1. ASSUME KeepStamps, \A u \in Task : Known1(u) => Known(u)
      PROVE  QueueOrderTotal'
    BY <1>1, StoredMeans, KeepStampsKeepsOrder
<1>2. ASSUME clock < MaxStamp, Stamp(t), \A u \in Task \ {t} : Known1(u) => Known(u)
      PROVE  QueueOrderTotal'
    BY <1>2, StoredMeans, StampKeepsOrder
<1>3. ASSUME NEW T, NEW s \in Status
      PROVE  \A u \in Task : Release(inflight, T, s)[u] # "absent"
                               => inflight[u] # "absent" \/ u \in T
    BY <1>0, ReleaseStatus
<1>4. ASSUME NEW start \in BOOLEAN,
             \/ RegisterNew(t, start) \/ MaterializeWindow(t, start)
             \/ TakeOverStaleObserved(t, start)
      PROVE  QueueOrderTotal'
  <2>1. clock < MaxStamp /\ Stamp(t)
      BY <1>4 DEF RegisterNew, MaterializeWindow, TakeOverStaleObserved, register_main_task, Fresh
  <2>2. archived' = archived /\ \A u \in Task \ {t} : inflight'[u] = inflight[u]
      BY <1>0, <1>4 DEF RegisterNew, MaterializeWindow, TakeOverStaleObserved,
                        register_main_task, claim_execution_slot
  <2> QED
      BY <1>2, <2>1, <2>2
<1>5. CASE ResumeRecoverable(t) \/ ResumeById(t)
  <2>1. Known(t)
      BY <1>5, OperatorAssumption, StoredMeans
      DEF ResumeRecoverable, ResumeById, RECOVERABLE_STATUSES, LiveStatus, ACTIVE_STATUSES,
          OBSERVED_STATUSES
  <2>2. KeepStamps /\ archived' = archived /\ \A u \in Task \ {t} : inflight'[u] = inflight[u]
      BY <1>0, <1>5 DEF ResumeRecoverable, ResumeById, resume_task
  <2> QED
      BY <1>1, <2>1, <2>2
<1>6. CASE ActivateLatest(t) \/ MergeWindow(t)
  <2>1. /\ Known(t) /\ KeepStamps /\ archived' = archived
        /\ \A u \in Task \ {t} : inflight'[u] = inflight[u]
      BY <1>0, <1>6 DEF ActivateLatest, MergeWindow, AskForSlot, claim_execution_slot
  <2> QED
      BY <1>1, <2>1
<1>7. CASE BlockActive(t) \/ DeliveryFails(t)
  <2>1. Known(t)
      BY <1>7, StoredMeans DEF BlockActive, DeliveryFails
  <2>2. /\ inflight' = Release(inflight, {t}, "blocked")
        /\ KeepStamps /\ archived' = archived
      BY <1>7 DEF BlockActive, DeliveryFails, block_task
  <2> QED
      BY <1>0, <1>1, <1>3, <2>1, <2>2
<1>8. CASE \/ FinishActive(t) \/ ProgressRepairsSkip(t) \/ CancelQueued(t)
           \/ StopMainQueue(t) \/ FulfillDueContinuation(t) \/ DeliverySucceeds(t)
  <2>1. Known(t)
      BY <1>8, StoredMeans
      DEF FinishActive, ProgressRepairsSkip, CancelQueued, StopMainQueue,
          FulfillDueContinuation, DeliverySucceeds, find_running_tasks, find_queued_tasks,
          find_inflight_tasks
  <2>2. /\ inflight' = Release(inflight, {t}, "absent")
        /\ KeepStamps /\ archived' = archived \cup {t}
      BY <1>8
      DEF FinishActive, ProgressRepairsSkip, CancelQueued, StopMainQueue,
          FulfillDueContinuation, DeliverySucceeds, _finalize_task, FinalizeAll
  <2> QED
      BY <1>0, <1>1, <1>3, <2>1, <2>2
<1>9. CASE FinalizeSkipped(t) \/ FallsDue(t) \/ DeliveryUnreported(t)
    BY <1>1, <1>9 DEF FinalizeSkipped, FallsDue, DeliveryUnreported, KeepStamps
<1>10. ASSUME NEW source \in Task, NEW when \in {"future", "past"},
              ScheduleFollowup(source, t, when)
       PROVE  QueueOrderTotal'
  <2>1. clock < MaxStamp /\ Stamp(t) /\ archived' = archived
      BY <1>10 DEF ScheduleFollowup, Fresh
  <2>2. \A u \in Task : inflight'[u] # "absent" => inflight[u] # "absent" \/ u = t
      BY <1>0, <1>3, <1>10, ReleaseStatus DEF ScheduleFollowup
  <2> QED
      BY <1>2, <2>1, <2>2
<1> QED
    BY <1>4, <1>5, <1>6, <1>7, <1>8, <1>9, <1>10 DEF TaskStep

\* What a run of the watchdog does to the table: it releases some tasks as
\* blocked, then resumes a batch of blocked tasks of the main agent.
LEMMA WatchdogStep ==
    ASSUME TypeOK, Watchdog
    PROVE  \E hit \in SUBSET Task, R \in SUBSET Task, first \in Task :
              /\ inflight' = ResumeEach(Release(inflight, hit, "blocked"), R, first)
              /\ \A t \in hit : inflight[t] # "absent"
              /\ \A t \in R : /\ AgentOfTask(t) = Main
                             /\ Release(inflight, hit, "blocked")[t] = "blocked"
              /\ R # {} => first \in R
              /\ hit \subseteq escalated'
              /\ KeepStamps /\ archived' = archived /\ claimed' = claimed
<1>1. PICK overdue \in SUBSET Monitored, startup \in BOOLEAN :
               \E notify \in SUBSET (overdue \cap skipped) :
                   WatchdogAutoRecover(overdue, notify, startup)
    BY DEF Watchdog
<1>2. PICK notify \in SUBSET (overdue \cap skipped) :
               WatchdogAutoRecover(overdue, notify, startup)
    BY <1>1
<1> DEFINE stale   == IF startup THEN (overdue \ notify) \cap find_running_tasks(inflight, Main)
                                 ELSE {}
           hit     == notify \cup stale
           settled == Release(inflight, hit, "blocked")
           esc     == escalated \cup hit
           silent  == {t \in overdue \ hit : settled[t] = inflight[t]}
<1>3. hit \in SUBSET Task /\ \A t \in hit : inflight[t] # "absent"
    BY DEF Monitored, ACTIVE_STATUSES, OBSERVED_STATUSES
<1>4. PICK R \in ResumeBatches(settled, esc, silent) :
               \E first \in IF R = {} THEN Task ELSE R : inflight' = ResumeEach(settled, R, first)
    BY <1>2 DEF WatchdogAutoRecover
<1>5. PICK first \in IF R = {} THEN Task ELSE R : inflight' = ResumeEach(settled, R, first)
    BY <1>4
<1>6. KeepStamps /\ archived' = archived /\ claimed' = claimed /\ hit \subseteq escalated'
    BY <1>2 DEF WatchdogAutoRecover
<1> HIDE DEF hit, settled, esc, silent
<1>7. R \subseteq WatchdogBlocked(settled, esc)
    BY <1>4 DEF ResumeBatches, ResumeCandidates
<1>8. \A t \in R : t \in Task /\ AgentOfTask(t) = Main /\ settled[t] = "blocked"
    BY <1>7 DEF WatchdogBlocked, MainIn, find_inflight_tasks
<1>9. first \in Task /\ (R # {} => first \in R) /\ R \in SUBSET Task
    BY <1>5, <1>8
<1> QED
    BY <1>3, <1>5, <1>6, <1>8, <1>9 DEF settled

\* Resuming a batch starts its first task at most, and only in a free slot.
LEMMA ResumeEachExclusive ==
    ASSUME NEW f \in [Task -> Status], NEW R, NEW first, NEW C, Exclusive(f, C)
    PROVE  Exclusive(ResumeEach(f, R, first), C)
BY DEF Exclusive, ResumeEach, SlotStatus, find_running_tasks, find_inflight_tasks

\* The tasks of a batch behind its first one wait for the first one, or for
\* what held the slot before.
LEMMA ResumeEachFills ==
    ASSUME NEW f \in [Task -> Status], NEW R \in SUBSET Task, NEW first \in Task,
           R # {} => first \in R,
           \A t \in R : AgentOfTask(t) = Main /\ f[t] = "blocked",
           \A t \in Task : Busy(f, t)
    PROVE  \A t \in Task : Busy(ResumeEach(f, R, first), t)
<1> DEFINE g == ResumeEach(f, R, first)
<1>1. \A r \in Task : f[r] = "running" => g[r] = "running"
    BY DEF ResumeEach
<1>2. \A u \in Task \ R : g[u] = f[u]
    BY DEF ResumeEach
<1>3. first \in R => g[first] = SlotStatus(f, first)
    BY DEF ResumeEach
<1> HIDE DEF g
<1>4. SUFFICES ASSUME NEW t \in Task, g[t] = "queued"
               PROVE  \E r \in Task : AgentOfTask(r) = AgentOfTask(t) /\ g[r] = "running"
    BY DEF Busy, find_running_tasks, find_inflight_tasks, g
<1>5. CASE t \notin R
  <2>1. PICK r \in Task : AgentOfTask(r) = AgentOfTask(t) /\ f[r] = "running"
      BY <1>2, <1>4, <1>5 DEF Busy, find_running_tasks, find_inflight_tasks
  <2> QED
      BY <1>1, <2>1
<1>6. CASE t \in R
  <2>1. first \in R /\ AgentOfTask(first) = Main /\ AgentOfTask(t) = Main
      BY <1>6
  <2>2. CASE g[first] = "running"
      BY <2>1, <2>2
  <2>3. CASE g[first] # "running"
    <3>1. PICK r \in Task : AgentOfTask(r) = Main /\ f[r] = "running"
        BY <1>3, <2>1, <2>3 DEF SlotStatus, find_running_tasks, find_inflight_tasks
    <3> QED
        BY <1>1, <2>1, <3>1
  <2> QED
      BY <2>2, <2>3
<1> QED
    BY <1>5, <1>6

\* A run of the watchdog keeps the queue ordered.
LEMMA WatchdogOrder ==
    ASSUME TypeOK, TypeOK', QueueOrderTotal, Watchdog
    PROVE  QueueOrderTotal'
<1>1. PICK hit \in SUBSET Task, R \in SUBSET Task, first \in Task :
              /\ inflight' = ResumeEach(Release(inflight, hit, "blocked"), R, first)
              /\ \A t \in hit : inflight[t] # "absent"
              /\ \A t \in R : Release(inflight, hit, "blocked")[t] = "blocked"
              /\ KeepStamps /\ archived' = archived
    BY WatchdogStep
<1> DEFINE settled == Release(inflight, hit, "blocked")
<1>2. \A t \in Task : settled[t] # "absent" => inflight[t] # "absent"
    BY <1>1, ReleaseStatus DEF TypeOK, Status, LiveStatus, RECOVERABLE_STATUSES
<1>3. \A t \in Task : t \notin R => inflight'[t] = settled[t]
    BY <1>1 DEF ResumeEach
<1>4. \A t \in R : settled[t] # "absent"
    BY <1>1
<1> HIDE DEF settled
<1>5. \A t \in Task : Stored(t)' # "absent" => Stored(t) # "absent"
    BY <1>1, <1>2, <1>3, <1>4, StoredMeans
<1> QED
    BY <1>1, <1>5, KeepStampsKeepsOrder

\* The queue of an agent is totally ordered by created_at, whichever path a
\* task took into the store and however often it came back.
THEOREM QueueOrdered == Spec => []QueueOrderTotal
<1>1. Init => QueueOrderTotal
    BY BoundAssumption DEF Init, QueueOrderTotal, Stored
<1>2. TypeOK /\ TypeOK' /\ QueueOrderTotal /\ [Next]_vars => QueueOrderTotal'
  <2> SUFFICES ASSUME TypeOK, TypeOK', QueueOrderTotal, [Next]_vars PROVE QueueOrderTotal'
      OBVIOUS
  <2>1. ASSUME NEW t \in Task, TaskStep(t) PROVE QueueOrderTotal'
      BY <2>1, TaskStepOrder
  <2>2. ASSUME NEW stopped \in SUBSET Task, StopAllMainQueue(stopped) PROVE QueueOrderTotal'
    <3> DEFINE T == stopped \cup find_queued_tasks(inflight, Main)
    <3>1. \A t \in T : inflight[t] # "absent"
        BY <2>2 DEF StopAllMainQueue, find_running_tasks, find_queued_tasks, find_inflight_tasks
    <3>2. /\ inflight' = Release(inflight, T, "absent")
          /\ KeepStamps /\ archived' = archived \cup T
        BY <2>2 DEF StopAllMainQueue, FinalizeAll
    <3> HIDE DEF T
    <3>3. \A t \in Task : inflight'[t] # "absent" => inflight[t] # "absent"
        BY <3>1, <3>2, ReleaseStatus DEF TypeOK, Status
    <3>4. \A t \in Task : Stored(t)' # "absent" => Stored(t) # "absent"
        BY <3>1, <3>2, <3>3, StoredMeans
    <3> QED
        BY <3>2, <3>4, KeepStampsKeepsOrder
  <2>3. CASE ClaimDueContinuations
    <3>1. \A t \in Task : inflight'[t] # "absent" => inflight[t] # "absent"
        BY <2>3 DEF ClaimDueContinuations, Claimable
    <3>2. KeepStamps /\ archived' = archived
        BY <2>3 DEF ClaimDueContinuations
    <3> QED
        BY <3>1, <3>2, StoredMeans, KeepStampsKeepsOrder
  <2>4. CASE Watchdog
      BY <2>4, WatchdogOrder
  <2>5. ASSUME NEW s \in Session, PurgeSession(s) PROVE QueueOrderTotal'
    <3>1. \A t \in Task : inflight'[t] # "absent" \/ t \in archived'
                          => inflight[t] # "absent" \/ t \in archived
        BY <2>5 DEF PurgeSession
    <3>2. KeepStamps
        BY <2>5 DEF PurgeSession
    <3> QED
        BY <3>1, <3>2, StoredMeans, KeepStampsKeepsOrder
  <2>6. CASE UNCHANGED vars
      BY <2>6 DEF vars, flags, QueueOrderTotal, Stored
  <2> QED
      BY <2>1, <2>2, <2>3, <2>4, <2>5, <2>6 DEF Next
<1> QED
    BY <1>1, <1>2, TypeCorrect, PTL DEF Spec

-----------------------------------------------------------------------------
\* The slot.

\* What the lemmas on tables need to know of the stamps.
LEMMA StampFacts ==
    ASSUME TypeOK, QueueOrderTotal
    PROVE  /\ inflight \in [Task -> Status]
           /\ created_at \in [Task -> Nat]
           /\ \A t, u \in Task : created_at[t] = created_at[u] /\ created_at[t] # 0 => t = u
           /\ \A t \in Task : inflight[t] = "queued" => created_at[t] # 0
<1>1. created_at \in [Task -> Nat]
    BY BoundAssumption DEF TypeOK
<1> QED
    BY <1>1, StoredMeans DEF TypeOK, QueueOrderTotal

\* The statuses of tasks that hold no slot.
LEMMA RestingStatus ==
    /\ "blocked" \in Status \ ACTIVE_STATUSES
    /\ "paused" \in Status \ ACTIVE_STATUSES
    /\ "absent" \in Status \ ACTIVE_STATUSES
BY DEF Status, LiveStatus, ACTIVE_STATUSES, RECOVERABLE_STATUSES

\* More claimed continuations never make a slot less exclusive.
LEMMA ExclusiveMonotone ==
    ASSUME NEW f, NEW C, NEW D, C \subseteq D, Exclusive(f, C)
    PROVE  Exclusive(f, D)
BY DEF Exclusive

\* The in-flight table after an action on one task, as one table operation.
LEMMA TaskStepTable ==
    ASSUME TypeOK, QueueOrderTotal, NEW t \in Task, TaskStep(t)
    PROVE  /\ claimed' = claimed
           /\ \/ inflight' = inflight
              \/ inflight[t] = "absent" /\ inflight' = [inflight EXCEPT ![t] = "received"]
              \/ /\ inflight' = [inflight EXCEPT ![t] = SlotStatus(inflight, t)]
                 /\ inflight[t] = "running" => "running" \in ResumeFrom
              \/ \E s \in {"blocked", "absent"} : inflight' = Release(inflight, {t}, s)
              \/ \E source \in Task :
                    /\ inflight[t] = "absent" /\ inflight[source] # "absent"
                    /\ inflight' = [Release(inflight, {t}, "paused") EXCEPT ![source] = inflight[source]]
<1>1. Fresh(t) => inflight[t] = "absent"
    BY StoredMeans DEF Fresh, QueueOrderTotal
<1>2. ASSUME NEW start \in BOOLEAN, RegisterNew(t, start) \/ MaterializeWindow(t, start)
      PROVE  /\ claimed' = claimed /\ inflight[t] = "absent"
             /\ \/ inflight' = [inflight EXCEPT ![t] = "received"]
                \/ inflight' = [inflight EXCEPT ![t] = SlotStatus(inflight, t)]
    BY <1>1, <1>2 DEF RegisterNew, MaterializeWindow, register_main_task, flags
<1>3. inflight[t] # "running"
      => claim_execution_slot(inflight, t) = [inflight EXCEPT ![t] = SlotStatus(inflight, t)]
    BY DEF claim_execution_slot
<1>4. ASSUME NEW start \in BOOLEAN, TakeOverStaleObserved(t, start)
      PROVE  /\ claimed' = claimed /\ inflight[t] = "received"
             /\ \/ inflight' = inflight
                \/ inflight' = [inflight EXCEPT ![t] = SlotStatus(inflight, t)]
    BY <1>3, <1>4 DEF TakeOverStaleObserved, flags
<1>5. ASSUME ActivateLatest(t) \/ MergeWindow(t)
      PROVE  /\ claimed' = claimed /\ inflight[t] # "running"
             /\ inflight' = [inflight EXCEPT ![t] = SlotStatus(inflight, t)]
    BY <1>3, <1>5 DEF ActivateLatest, MergeWindow, AskForSlot, flags
<1>6. ASSUME ResumeRecoverable(t) \/ ResumeById(t)
      PROVE  /\ claimed' = claimed
             /\ inflight' = [inflight EXCEPT ![t] = SlotStatus(inflight, t)]
             /\ inflight[t] = "running" => "running" \in ResumeFrom
    BY <1>6 DEF ResumeRecoverable, ResumeById, resume_task, flags, RECOVERABLE_STATUSES, Stored
<1>7. ASSUME BlockActive(t) \/ DeliveryFails(t)
      PROVE  claimed' = claimed /\ inflight' = Release(inflight, {t}, "blocked")
    BY <1>7 DEF BlockActive, DeliveryFails, block_task, flags
<1>8. ASSUME \/ FinishActive(t) \/ ProgressRepairsSkip(t) \/ CancelQueued(t)
             \/ StopMainQueue(t) \/ FulfillDueContinuation(t) \/ DeliverySucceeds(t)
      PROVE  claimed' = claimed /\ inflight' = Release(inflight, {t}, "absent")
    BY <1>8 DEF FinishActive, ProgressRepairsSkip, CancelQueued, StopMainQueue,
                FulfillDueContinuation, DeliverySucceeds, _finalize_task, FinalizeAll, flags
<1>9. ASSUME FinalizeSkipped(t) \/ FallsDue(t) \/ DeliveryUnreported(t)
      PROVE  claimed' = claimed /\ inflight' = inflight
    BY <1>9 DEF FinalizeSkipped, FallsDue, DeliveryUnreported
<1>10. ASSUME NEW source \in Task, NEW when \in {"future", "past"},
              ScheduleFollowup(source, t, when)
       PROVE  /\ claimed' = claimed
              /\ inflight[t] = "absent" /\ inflight[source] # "absent"
              /\ inflight' = [Release(inflight, {t}, "paused") EXCEPT ![source] = inflight[source]]
    BY <1>1, <1>10 DEF ScheduleFollowup
<1> QED
    BY <1>2, <1>4, <1>5, <1>6, <1>7, <1>8, <1>9, <1>10 DEF TaskStep

\* A follow-up t that is observed and then paused: writing the source task
\* back undoes at most its promotion.
LEMMA FollowupTable ==
    ASSUME NEW f \in [Task -> Status], NEW t \in Task, NEW source \in Task,
           f[t] = "absent", f[source] # "absent"
    PROVE  LET h == [f EXCEPT ![t] = "paused"]
               g == Release(f, {t}, "paused")
           IN  /\ h \in [Task -> Status] /\ h[source] = f[source]
               /\ g = promote_next_queued_task(h, AgentsOf({t}))
               /\ f[source] # g[source] => f[source] = "queued"
<1> DEFINE h == [f EXCEPT ![t] = "paused"]
<1>1. h \in [Task -> Status] /\ h[source] = f[source]
    BY DEF Status, LiveStatus, RECOVERABLE_STATUSES
<1>2. h = [u \in Task |-> IF u \in {t} THEN "paused" ELSE f[u]]
    OBVIOUS
<1> HIDE DEF h
<1>3. Release(f, {t}, "paused") = promote_next_queued_task(h, AgentsOf({t}))
    BY <1>2 DEF Release
<1>4. promote_next_queued_task(h, AgentsOf({t}))[source] # h[source] => h[source] = "queued"
    BY <1>1, PromoteStatus
<1> QED
    BY <1>1, <1>3, <1>4 DEF h

LEMMA FollowupExclusive ==
    ASSUME NEW f \in [Task -> Status], NEW t \in Task, NEW source \in Task, NEW C,
           f[t] = "absent", f[source] # "absent", Exclusive(Release(f, {t}, "paused"), C)
    PROVE  Exclusive([Release(f, {t}, "paused") EXCEPT ![source] = f[source]], C)
<1> DEFINE g == Release(f, {t}, "paused")
<1>1. g \in [Task -> Status]
    BY RestingStatus, ReleaseStatus
<1>2. f[source] # g[source] => f[source] = "queued"
    BY FollowupTable
<1> HIDE DEF g
<1>3. \A u \in Task : [g EXCEPT ![source] = f[source]][u] = "running" => g[u] = "running"
    BY <1>1, <1>2
<1>4. Exclusive(g, C)
    BY DEF g
<1> HIDE DEF Exclusive
<1>5. Exclusive([g EXCEPT ![source] = f[source]], C)
    BY <1>3, <1>4 DEF Exclusive
<1> QED
    BY <1>5 DEF g

\* When no queue is idle, a follow-up that is observed and then paused promotes
\* nobody, and the copy of the source task written back is up to date.
LEMMA FollowupFills ==
    ASSUME NEW f \in [Task -> Status], NEW t \in Task, NEW source \in Task,
           f[t] = "absent", f[source] # "absent", \A u \in Task : Busy(f, u)
    PROVE  \A u \in Task : Busy([Release(f, {t}, "paused") EXCEPT ![source] = f[source]], u)
<1> DEFINE h == [f EXCEPT ![t] = "paused"]
<1>1. \A u \in Task : Busy(h, u)
    BY DEF Busy, find_running_tasks, find_inflight_tasks
<1>2. /\ h \in [Task -> Status] /\ h[source] = f[source]
      /\ Release(f, {t}, "paused") = promote_next_queued_task(h, AgentsOf({t}))
    BY FollowupTable
<1> HIDE DEF h
<1>3. \A u \in Task : promote_next_queued_task(h, AgentsOf({t}))[u] = h[u]
    BY <1>1, <1>2, PromoteStatus DEF Busy
<1>4. promote_next_queued_task(h, AgentsOf({t})) = h
    BY <1>2, <1>3 DEF promote_next_queued_task
<1>5. [Release(f, {t}, "paused") EXCEPT ![source] = f[source]] = h
    BY <1>2, <1>4
<1> QED
    BY <1>1, <1>5

\* Each action on one task keeps the slot exclusive.
LEMMA TaskStepExclusive ==
    ASSUME TypeOK, QueueOrderTotal, SlotExclusive, NEW t \in Task, TaskStep(t)
    PROVE  SlotExclusive'
<1> USE DEF SlotExclusive
<1>1. claimed' = claimed
    BY TaskStepTable
<1>2. SUFFICES Exclusive(inflight', claimed)
    BY <1>1 DEF Exclusive
<1>3. CASE inflight' = inflight
    BY <1>3
<1>4. CASE inflight' = [inflight EXCEPT ![t] = "received"]
    BY <1>4, StampFacts DEF Exclusive
<1>5. CASE inflight' = [inflight EXCEPT ![t] = SlotStatus(inflight, t)]
    BY <1>5, StampFacts, ClaimExclusive
<1>6. ASSUME NEW s \in {"blocked", "absent"}, inflight' = Release(inflight, {t}, s)
      PROVE  Exclusive(inflight', claimed)
    BY <1>6, StampFacts, RestingStatus, ReleaseExclusive
<1>7. ASSUME NEW source \in Task, inflight[t] = "absent", inflight[source] # "absent",
             inflight' = [Release(inflight, {t}, "paused") EXCEPT ![source] = inflight[source]]
      PROVE  Exclusive(inflight', claimed)
    BY <1>7, StampFacts, RestingStatus, ReleaseExclusive, FollowupExclusive
<1> QED
    BY <1>3, <1>4, <1>5, <1>6, <1>7, TaskStepTable

\* The other ways the table changes, as operations on it.
LEMMA OtherTables ==
    ASSUME TypeOK
    PROVE  /\ \A stopped \in SUBSET Task : StopAllMainQueue(stopped) =>
                 \E T \in SUBSET Task : inflight' = Release(inflight, T, "absent") /\ claimed' = claimed
           /\ ClaimDueContinuations =>
                 \E T \in SUBSET Task :
                    /\ \A t \in T : inflight[t] = "paused"
                    /\ inflight' = [t \in Task |-> IF t \in T THEN "running" ELSE inflight[t]]
                    /\ claimed' = claimed \cup T
           /\ \A s \in Session : PurgeSession(s) =>
                 /\ s \in Purgeable /\ claimed' = claimed
                 /\ \A t \in Task : inflight'[t] = "running" => inflight[t] = "running"
<1>1. ASSUME NEW stopped \in SUBSET Task, StopAllMainQueue(stopped)
      PROVE  \E T \in SUBSET Task : inflight' = Release(inflight, T, "absent") /\ claimed' = claimed
  <2>1. stopped \cup find_queued_tasks(inflight, Main) \in SUBSET Task
      BY DEF find_queued_tasks, find_inflight_tasks
  <2> QED
      BY <1>1, <2>1 DEF StopAllMainQueue, FinalizeAll, flags
<1>2. ASSUME ClaimDueContinuations
      PROVE  \E T \in SUBSET Task :
                /\ \A t \in T : inflight[t] = "paused"
                /\ inflight' = [t \in Task |-> IF t \in T THEN "running" ELSE inflight[t]]
                /\ claimed' = claimed \cup T
  <2>1. Claimable \in SUBSET Task /\ \A t \in Claimable : inflight[t] = "paused"
      BY DEF Claimable
  <2> QED
      BY <1>2, <2>1 DEF ClaimDueContinuations
<1>3. ASSUME NEW s \in Session, PurgeSession(s)
      PROVE  /\ s \in Purgeable /\ claimed' = claimed
             /\ \A t \in Task : inflight'[t] = "running" => inflight[t] = "running"
    BY <1>3 DEF PurgeSession, flags
<1> QED
    BY <1>1, <1>2, <1>3

\* The slot of an agent is exclusive in every reachable state: whatever the
\* hooks, the operator and the watchdog do, two tasks of an agent run together
\* only when one of them is a claimed continuation.
THEOREM SlotIsExclusive == Spec => []SlotExclusive
<1>1. Init => SlotExclusive
    BY DEF Init, SlotExclusive, Exclusive
<1>2. TypeOK /\ QueueOrderTotal /\ SlotExclusive /\ [Next]_vars => SlotExclusive'
  <2> SUFFICES ASSUME TypeOK, QueueOrderTotal, SlotExclusive, [Next]_vars PROVE SlotExclusive'
      OBVIOUS
  <2>0. Exclusive(inflight, claimed)
      BY DEF SlotExclusive
  <2>1. ASSUME NEW t \in Task, TaskStep(t) PROVE SlotExclusive'
      BY <2>1, TaskStepExclusive
  <2>2. ASSUME NEW stopped \in SUBSET Task, StopAllMainQueue(stopped) PROVE SlotExclusive'
    <3>1. PICK T \in SUBSET Task :
                   inflight' = Release(inflight, T, "absent") /\ claimed' = claimed
        BY <2>2, OtherTables
    <3>2. Exclusive(inflight', claimed)
        BY <2>0, <3>1, StampFacts, RestingStatus, ReleaseExclusive
    <3> QED
        BY <3>1, <3>2 DEF SlotExclusive, Exclusive
  <2>3. CASE ClaimDueContinuations
    <3>1. PICK T \in SUBSET Task :
                   /\ inflight' = [t \in Task |-> IF t \in T THEN "running" ELSE inflight[t]]
                   /\ claimed' = claimed \cup T
        BY <2>3, OtherTables
    <3> QED
        BY <2>0, <3>1 DEF SlotExclusive, Exclusive
  <2>4. CASE Watchdog
    <3>1. PICK hit \in SUBSET Task, R \in SUBSET Task, first \in Task :
                   /\ inflight' = ResumeEach(Release(inflight, hit, "blocked"), R, first)
                   /\ claimed' = claimed
        BY <2>4, WatchdogStep
    <3>2. /\ Exclusive(Release(inflight, hit, "blocked"), claimed)
          /\ Release(inflight, hit, "blocked") \in [Task -> Status]
        BY <2>0, StampFacts, RestingStatus, ReleaseExclusive, ReleaseStatus
    <3>3. Exclusive(inflight', claimed)
        BY <3>1, <3>2, ResumeEachExclusive
    <3> QED
        BY <3>1, <3>3 DEF SlotExclusive, Exclusive
  <2>5. ASSUME NEW s \in Session, PurgeSession(s) PROVE SlotExclusive'
      BY <2>0, <2>5, OtherTables DEF SlotExclusive, Exclusive
  <2>6. CASE UNCHANGED vars
      BY <2>6 DEF vars, flags, SlotExclusive, Exclusive
  <2> QED
      BY <2>1, <2>2, <2>3, <2>4, <2>5, <2>6 DEF Next
<1> QED
    BY <1>1, <1>2, TypeCorrect, QueueOrdered, PTL DEF Spec

\* No task waits for a slot nobody holds, as long as no operator resumes a task
\* that runs or deletes the records of a session.
THEOREM NoQueueIdles ==
    ASSUME "running" \notin ResumeFrom, Purgeable = {}
    PROVE  Spec => []NoIdleQueue
<1>1. Init => NoIdleQueue
    BY DEF Init, NoIdleQueue, Busy
<1>2. TypeOK /\ QueueOrderTotal /\ NoIdleQueue /\ [Next]_vars => NoIdleQueue'
  <2> SUFFICES ASSUME TypeOK, QueueOrderTotal, NoIdleQueue, [Next]_vars PROVE NoIdleQueue'
      OBVIOUS
  <2>0. /\ \A t \in Task : Busy(inflight, t)
        /\ inflight \in [Task -> Status] /\ created_at \in [Task -> Nat]
      BY StampFacts DEF NoIdleQueue
  <2> SUFFICES \A t \in Task : Busy(inflight', t)
      BY DEF NoIdleQueue, Busy, find_running_tasks, find_inflight_tasks, AgentOfTask
  <2>1. ASSUME NEW t \in Task, TaskStep(t) PROVE \A u \in Task : Busy(inflight', u)
    <3>1. CASE inflight' = inflight
        BY <2>0, <3>1
    <3>2. CASE inflight[t] = "absent" /\ inflight' = [inflight EXCEPT ![t] = "received"]
        BY <2>0, <3>2 DEF Busy, find_running_tasks, find_inflight_tasks
    <3>3. CASE /\ inflight' = [inflight EXCEPT ![t] = SlotStatus(inflight, t)]
               /\ inflight[t] = "running" => "running" \in ResumeFrom
        BY <2>0, <3>3, ClaimFills
    <3>4. ASSUME NEW s \in {"blocked", "absent"}, inflight' = Release(inflight, {t}, s)
          PROVE  \A u \in Task : Busy(inflight', u)
        BY <2>0, <3>4, RestingStatus, ReleaseFills
    <3>5. ASSUME NEW source \in Task, inflight[t] = "absent", inflight[source] # "absent",
                 inflight' = [Release(inflight, {t}, "paused") EXCEPT ![source] = inflight[source]]
          PROVE  \A u \in Task : Busy(inflight', u)
        BY <2>0, <3>5, FollowupFills
    <3> QED
        BY <2>1, <3>1, <3>2, <3>3, <3>4, <3>5, TaskStepTable
  <2>2. ASSUME NEW stopped \in SUBSET Task, StopAllMainQueue(stopped)
        PROVE  \A t \in Task : Busy(inflight', t)
    <3>1. PICK T \in SUBSET Task : inflight' = Release(inflight, T, "absent")
        BY <2>2, OtherTables
    <3> QED
        BY <2>0, <3>1, RestingStatus, ReleaseFills
  <2>3. ASSUME ClaimDueContinuations PROVE \A t \in Task : Busy(inflight', t)
    <3>1. PICK T \in SUBSET Task :
                   inflight' = [t \in Task |-> IF t \in T THEN "running" ELSE inflight[t]]
        BY <2>3, OtherTables
    <3> QED
        BY <2>0, <3>1 DEF Busy, find_running_tasks, find_inflight_tasks
  <2>4. ASSUME Watchdog PROVE \A t \in Task : Busy(inflight', t)
    <3>1. PICK hit \in SUBSET Task, R \in SUBSET Task, first \in Task :
                   /\ inflight' = ResumeEach(Release(inflight, hit, "blocked"), R, first)
                   /\ \A t \in R : /\ AgentOfTask(t) = Main
                                  /\ Release(inflight, hit, "blocked")[t] = "blocked"
                   /\ R # {} => first \in R
        BY <2>4, WatchdogStep
    <3>2. /\ Release(inflight, hit, "blocked") \in [Task -> Status]
          /\ \A t \in Task : Busy(Release(inflight, hit, "blocked"), t)
        BY <2>0, RestingStatus, ReleaseFills, ReleaseStatus
    <3> QED
        BY <3>1, <3>2, ResumeEachFills
  <2>5. ASSUME NEW s \in Session, PurgeSession(s) PROVE FALSE
      BY <2>5, OtherTables
  <2>6. CASE UNCHANGED vars
      BY <2>0, <2>6 DEF vars
  <2> QED
      BY <2>1, <2>2, <2>3, <2>4, <2>5, <2>6 DEF Next
<1> QED
    BY <1>1, <1>2, TypeCorrect, QueueOrdered, PTL DEF Spec

-----------------------------------------------------------------------------
\* The order of service.

\* From table f to table g no task outside E is started past an older one.
Serves(f, g, E) ==
    \A t, u \in Task \ E :
        /\ f[t] = "queued" /\ g[t] = "running"
        /\ f[u] = "queued" /\ g[u] = "queued"
        /\ AgentOfTask(t) = AgentOfTask(u)
        => created_at[t] <= created_at[u]

\* Whoever releases tasks promotes the oldest of those that wait on.
LEMMA ReleaseServes ==
    ASSUME NEW f \in [Task -> Status], NEW T, NEW s \in Status \ ACTIVE_STATUSES, NEW E
    PROVE  Serves(f, Release(f, T, s), E)
<1> DEFINE h == [t \in Task |-> IF t \in T THEN s ELSE f[t]]
           g == promote_next_queued_task(h, AgentsOf(T))
<1>1. h \in [Task -> Status] /\ \A t \in Task : h[t] = "running" => f[t] = "running"
    BY DEF ACTIVE_STATUSES
<1>2. Release(f, T, s) = g
    BY DEF Release
<1> HIDE DEF h
<1>3. SUFFICES ASSUME NEW t \in Task, NEW u \in Task, AgentOfTask(t) = AgentOfTask(u),
                      f[t] = "queued", g[t] = "running", g[u] = "queued"
               PROVE  created_at[t] <= created_at[u]
    BY <1>2 DEF Serves
<1>4. h[u] = "queued"
    BY <1>1, <1>3, PromoteStatus
<1>5. g[t] # h[t]
    BY <1>1, <1>3
<1>6. IsQueueHead(h, t)
    BY <1>1, <1>5, PromoteStatus
<1> QED
    BY <1>3, <1>4, <1>6 DEF IsQueueHead, find_queued_tasks, find_inflight_tasks

\* A task that asks for the slot overtakes nobody when no queue is idle.
LEMMA ClaimServes ==
    ASSUME NEW f \in [Task -> Status], NEW t \in Task, NEW E, \A u \in Task : Busy(f, u)
    PROVE  Serves(f, [f EXCEPT ![t] = SlotStatus(f, t)], E)
<1>1. f[t] = "queued" => SlotStatus(f, t) = "queued"
    BY DEF Busy, SlotStatus
<1> QED
    BY <1>1 DEF Serves

\* Scheduling a follow-up starts nobody when no queue is idle.
LEMMA FollowupServes ==
    ASSUME NEW f \in [Task -> Status], NEW t \in Task, NEW source \in Task, NEW E,
           f[t] = "absent", f[source] # "absent", \A u \in Task : Busy(f, u)
    PROVE  Serves(f, [Release(f, {t}, "paused") EXCEPT ![source] = f[source]], E)
<1> DEFINE h == [f EXCEPT ![t] = "paused"]
           g == Release(f, {t}, "paused")
<1>1. \A u \in Task : Busy(h, u)
    BY DEF Busy, find_running_tasks, find_inflight_tasks
<1>2. h \in [Task -> Status] /\ g = promote_next_queued_task(h, AgentsOf({t}))
    BY FollowupTable
<1>3. \A u \in Task : h[u] = "running" => f[u] = "running"
    OBVIOUS
<1> HIDE DEF h, g
<1>4. \A u \in Task : g[u] = "running" => f[u] = "running"
    BY <1>1, <1>2, <1>3, PromoteStatus DEF Busy
<1>5. \A u \in Task : [g EXCEPT ![source] = f[source]][u] = "running" => f[u] = "running"
  <2>1. g \in [Task -> Status]
      BY <1>2, PromoteStatus
  <2> QED
      BY <1>4, <2>1
<1> QED
    BY <1>5 DEF Serves, g

\* The watchdog moves a task of the queue only by blocking it first, and then
\* it has escalated it.
LEMMA WatchdogServes ==
    ASSUME TypeOK, QueueOrderTotal, Watchdog
    PROVE  Serves(inflight, inflight', escalated')
<1>1. PICK hit \in SUBSET Task, R \in SUBSET Task, first \in Task :
               /\ inflight' = ResumeEach(Release(inflight, hit, "blocked"), R, first)
               /\ \A t \in R : Release(inflight, hit, "blocked")[t] = "blocked"
               /\ hit \subseteq escalated'
    BY WatchdogStep
<1> DEFINE settled == Release(inflight, hit, "blocked")
<1>2. Serves(inflight, settled, escalated')
    BY StampFacts, RestingStatus, ReleaseServes
<1>3. \A t \in Task \ R : inflight'[t] = settled[t]
    BY <1>1 DEF ResumeEach
<1>4. \A t \in R : inflight[t] = "queued" => t \in hit
  <2> DEFINE h == [t \in Task |-> IF t \in hit THEN "blocked" ELSE inflight[t]]
  <2>1. h \in [Task -> Status] /\ settled = promote_next_queued_task(h, AgentsOf(hit))
      BY StampFacts, RestingStatus DEF Release
  <2>2. \A t \in Task : t \notin hit => h[t] = inflight[t]
      OBVIOUS
  <2> HIDE DEF h, settled
  <2>3. \A t \in Task : settled[t] = "blocked" => h[t] = "blocked"
      BY <2>1, PromoteStatus
  <2> QED
      BY <1>1, <2>2, <2>3 DEF settled
<1> HIDE DEF settled
<1> QED
    BY <1>1, <1>2, <1>3, <1>4 DEF Serves

\* The queue is served in order: no step starts a waiting task while an older
\* one of its agent, never blocked by the watchdog, waits on.  This needs the
\* queues not to idle: a task that asks again for an idle slot would overtake.
THEOREM QueueIsServedInOrder ==
    ASSUME "running" \notin ResumeFrom, Purgeable = {}
    PROVE  Spec => FirstComeFirstServed
<1>1. TypeOK /\ QueueOrderTotal /\ NoIdleQueue /\ Next => Serves(inflight, inflight', escalated')
  <2> SUFFICES ASSUME TypeOK, QueueOrderTotal, NoIdleQueue, Next
               PROVE  Serves(inflight, inflight', escalated')
      OBVIOUS
  <2>0. /\ \A t \in Task : Busy(inflight, t)
        /\ inflight \in [Task -> Status]
      BY StampFacts DEF NoIdleQueue
  <2>1. ASSUME NEW t \in Task, TaskStep(t) PROVE Serves(inflight, inflight', escalated')
    <3>1. CASE \/ inflight' = inflight
               \/ inflight[t] = "absent" /\ inflight' = [inflight EXCEPT ![t] = "received"]
        BY <2>0, <3>1 DEF Serves
    <3>2. CASE inflight' = [inflight EXCEPT ![t] = SlotStatus(inflight, t)]
        BY <2>0, <3>2, ClaimServes
    <3>3. ASSUME NEW s \in {"blocked", "absent"}, inflight' = Release(inflight, {t}, s)
          PROVE  Serves(inflight, inflight', escalated')
        BY <2>0, <3>3, RestingStatus, ReleaseServes
    <3>4. ASSUME NEW source \in Task, inflight[t] = "absent", inflight[source] # "absent",
                 inflight' = [Release(inflight, {t}, "paused") EXCEPT ![source] = inflight[source]]
          PROVE  Serves(inflight, inflight', escalated')
        BY <2>0, <3>4, FollowupServes
    <3> QED
        BY <2>1, <3>1, <3>2, <3>3, <3>4, TaskStepTable
  <2>2. ASSUME NEW stopped \in SUBSET Task, StopAllMainQueue(stopped)
        PROVE  Serves(inflight, inflight', escalated')
    <3>1. PICK T \in SUBSET Task : inflight' = Release(inflight, T, "absent")
        BY <2>2, OtherTables
    <3> QED
        BY <2>0, <3>1, RestingStatus, ReleaseServes
  <2>3. CASE ClaimDueContinuations
    <3>1. PICK T \in SUBSET Task :
                   /\ \A t \in T : inflight[t] = "paused"
                   /\ inflight' = [t \in Task |-> IF t \in T THEN "running" ELSE inflight[t]]
        BY <2>3, OtherTables
    <3> QED
        BY <3>1 DEF Serves
  <2>4. CASE Watchdog
      BY <2>4, WatchdogServes
  <2>5. ASSUME NEW s \in Session, PurgeSession(s) PROVE FALSE
      BY <2>5, OtherTables
  <2> QED
      BY <2>1, <2>2, <2>3, <2>4, <2>5 DEF Next
<1>2. TypeOK /\ QueueOrderTotal /\ NoIdleQueue /\ [Next]_vars
      => [\A t, u \in Task \ escalated' :
            /\ inflight[t] = "queued" /\ inflight'[t] = "running"
            /\ inflight[u] = "queued" /\ inflight'[u] = "queued"
            /\ AgentOfTask(t) = AgentOfTask(u)
            => created_at[t] <= created_at[u]]_vars
    BY <1>1 DEF Serves
<1> QED
    BY <1>2, TypeCorrect, QueueOrdered, NoQueueIdles, PTL DEF Spec, FirstComeFirstServed

-----------------------------------------------------------------------------
\* The archive.

\* Releasing other tasks, or this one for good, brings no absent task back.
LEMMA ReleaseKeepsAbsent ==
    ASSUME NEW f \in [Task -> Status], NEW T, NEW s \in Status,
           NEW t \in Task, f[t] = "absent", t \in T => s = "absent"
    PROVE  Release(f, T, s)[t] = "absent"
BY ReleaseStatus

\* An action on one task revives no archived task, except the plugin's late
\* report on a continuation it had claimed.
LEMMA TaskStepKeepsArchived ==
    ASSUME TypeOK, QueueOrderTotal, "archived" \notin ResumeFrom,
           NEW t \in Task, TaskStep(t),
           NEW a \in Task, inflight[a] = "absent", a \in archived, a \notin delivering
    PROVE  inflight'[a] = "absent"
<1>0. inflight \in [Task -> Status]
    BY DEF TypeOK
<1>1. created_at[a] # 0 /\ Stored(a) = "archived"
    BY DEF QueueOrderTotal, Stored
<1>2. ASSUME NEW start \in BOOLEAN,
             RegisterNew(t, start) \/ MaterializeWindow(t, start) \/ TakeOverStaleObserved(t, start)
      PROVE  inflight'[a] = "absent"
    BY <1>0, <1>1, <1>2 DEF RegisterNew, MaterializeWindow, register_main_task, Fresh,
                            TakeOverStaleObserved, claim_execution_slot
<1>3. CASE ResumeRecoverable(t) \/ ResumeById(t)
    BY <1>0, <1>1, <1>3 DEF ResumeRecoverable, ResumeById, resume_task, RECOVERABLE_STATUSES
<1>4. CASE ActivateLatest(t) \/ MergeWindow(t)
    BY <1>0, <1>4 DEF ActivateLatest, MergeWindow, AskForSlot, claim_execution_slot
<1>5. CASE BlockActive(t) \/ DeliveryFails(t)
  <2>1. t # a
      BY <1>5 DEF BlockActive, DeliveryFails
  <2>2. inflight' = Release(inflight, {t}, "blocked")
      BY <1>5 DEF BlockActive, DeliveryFails, block_task
  <2> QED
      BY <1>0, <2>1, <2>2, RestingStatus, ReleaseKeepsAbsent
<1>6. CASE \/ FinishActive(t) \/ ProgressRepairsSkip(t) \/ CancelQueued(t)
           \/ StopMainQueue(t) \/ FulfillDueContinuation(t) \/ DeliverySucceeds(t)
  <2>1. inflight' = Release(inflight, {t}, "absent")
      BY <1>6 DEF FinishActive, ProgressRepairsSkip, CancelQueued, StopMainQueue,
                  FulfillDueContinuation, DeliverySucceeds, _finalize_task, FinalizeAll
  <2> QED
      BY <1>0, <2>1, RestingStatus, ReleaseKeepsAbsent
<1>7. CASE FinalizeSkipped(t) \/ FallsDue(t) \/ DeliveryUnreported(t)
    BY <1>7 DEF FinalizeSkipped, FallsDue, DeliveryUnreported
<1>8. ASSUME NEW source \in Task, NEW when \in {"future", "past"},
             ScheduleFollowup(source, t, when)
      PROVE  inflight'[a] = "absent"
  <2>1. t # a /\ source # a
      BY <1>1, <1>8 DEF ScheduleFollowup, Fresh
  <2>2. Release(inflight, {t}, "paused")[a] = "absent"
      BY <1>0, <2>1, RestingStatus, ReleaseKeepsAbsent
  <2> QED
      BY <1>8, <2>1, <2>2 DEF ScheduleFollowup
<1> QED
    BY <1>2, <1>3, <1>4, <1>5, <1>6, <1>7, <1>8 DEF TaskStep

\* A finished task stays finished: as long as no operator resumes an archived
\* record by id, only the late failure report of a claimed continuation brings
\* one back.
THEOREM FinishedStaysFinished ==
    ASSUME "archived" \notin ResumeFrom
    PROVE  Spec => ArchivedStaysArchived
<1>1. TypeOK /\ QueueOrderTotal /\ [Next]_vars
      => [\A t \in Task : inflight[t] = "absent" /\ t \in archived /\ t \notin delivering
                          => inflight'[t] = "absent"]_vars
  <2> SUFFICES ASSUME TypeOK, QueueOrderTotal, Next,
                      NEW a \in Task, inflight[a] = "absent", a \in archived, a \notin delivering
               PROVE  inflight'[a] = "absent"
      OBVIOUS
  <2>0. inflight \in [Task -> Status]
      BY DEF TypeOK
  <2>1. ASSUME NEW t \in Task, TaskStep(t) PROVE inflight'[a] = "absent"
      BY <2>1, TaskStepKeepsArchived
  <2>2. ASSUME NEW stopped \in SUBSET Task, StopAllMainQueue(stopped)
        PROVE  inflight'[a] = "absent"
    <3>1. PICK T \in SUBSET Task : inflight' = Release(inflight, T, "absent")
        BY <2>2, OtherTables
    <3> QED
        BY <2>0, <3>1, RestingStatus, ReleaseKeepsAbsent
  <2>3. CASE ClaimDueContinuations
    <3>1. PICK T \in SUBSET Task :
                   /\ \A t \in T : inflight[t] = "paused"
                   /\ inflight' = [t \in Task |-> IF t \in T THEN "running" ELSE inflight[t]]
        BY <2>3, OtherTables
    <3> QED
        BY <3>1
  <2>4. CASE Watchdog
    <3>1. PICK hit \in SUBSET Task, R \in SUBSET Task, first \in Task :
                   /\ inflight' = ResumeEach(Release(inflight, hit, "blocked"), R, first)
                   /\ \A t \in hit : inflight[t] # "absent"
                   /\ \A t \in R : Release(inflight, hit, "blocked")[t] = "blocked"
        BY <2>4, WatchdogStep
    <3>2. Release(inflight, hit, "blocked")[a] = "absent"
        BY <2>0, <3>1, RestingStatus, ReleaseKeepsAbsent
    <3> QED
        BY <3>1, <3>2 DEF ResumeEach
  <2>5. ASSUME NEW s \in Session, PurgeSession(s) PROVE inflight'[a] = "absent"
      BY <2>5 DEF PurgeSession
  <2> QED
      BY <2>1, <2>2, <2>3, <2>4, <2>5 DEF Next
<1> QED
    BY <1>1, TypeCorrect, QueueOrdered, PTL DEF Spec, ArchivedStaysArchived

-----------------------------------------------------------------------------
\* What the abstract slot sees of a table.

\* The three places tell the running and the queued tasks from the others.
LEMMA PlaceValue ==
    ASSUME NEW f, NEW t \in Task
    PROVE  /\ Place(f)[t] \in {"out", "waiting", "running"}
           /\ Place(f)[t] = "running" <=> f[t] = "running"
           /\ Place(f)[t] = "waiting" <=> f[t] = "queued"
BY DEF Place

\* The abstract slot is free when the agent runs no task, and its oldest
\* waiting task is the head of the queue.
LEMMA PlaceOfQueue ==
    ASSUME NEW f, NEW t \in Task
    PROVE  /\ Slot!Free(Place(f), t) <=> find_running_tasks(f, AgentOfTask(t)) = {}
           /\ Slot!Oldest(Place(f), t) <=> IsQueueHead(f, t)
<1>1. Slot!Mates(t) = {u \in Task : AgentOfTask(u) = AgentOfTask(t)}
    BY DEF Slot!Mates
<1>2. Slot!Free(Place(f), t) <=> find_running_tasks(f, AgentOfTask(t)) = {}
    BY <1>1, PlaceValue DEF Slot!Free, find_running_tasks, find_inflight_tasks
<1>3. Slot!Oldest(Place(f), t) <=> IsQueueHead(f, t)
    BY <1>1, PlaceValue DEF Slot!Oldest, IsQueueHead, find_queued_tasks, find_inflight_tasks
<1> QED
    BY <1>2, <1>3

\* The tasks of T that hold the slot or wait for it.
InSlot(f, T) == {t \in T : Place(f)[t] # "out"}

\* When no queue is idle, releasing tasks is what the abstract slot does when
\* those among them that are in the slot leave it: it fills the free slots of
\* all agents, but only those of the released tasks have anybody waiting.
LEMMA ReleaseIsLeft ==
    ASSUME NEW f \in [Task -> Status], NEW T \in SUBSET Task,
           NEW s \in Status \ ACTIVE_STATUSES,
           \A t \in Task : Busy(f, t)
    PROVE  Place(Release(f, T, s)) = Slot!Left(Place(f), InSlot(f, T))
<1> DEFINE h    == [t \in Task |-> IF t \in T THEN s ELSE f[t]]
           gone == [t \in Task |-> IF t \in InSlot(f, T) THEN "out" ELSE Place(f)[t]]
<1>1. gone = Place(h)
  <2>1. \A t \in Task : gone[t] = Place(h)[t]
      BY DEF InSlot, Place, ACTIVE_STATUSES
  <2> QED
      BY <2>1 DEF Place
<1>2. \A t \in Task : h[t] = "queued" => f[t] = "queued"
    BY DEF ACTIVE_STATUSES
<1>3. \A t \in Task : t \notin T => h[t] = f[t]
    OBVIOUS
<1>4. Slot!Left(Place(f), InSlot(f, T))
      = [t \in Task |-> IF Slot!Free(gone, t) /\ Slot!Oldest(gone, t) THEN "running" ELSE gone[t]]
    BY DEF Slot!Left
<1> HIDE DEF h, gone
<1>5. ASSUME NEW t \in Task, find_running_tasks(h, AgentOfTask(t)) = {}, IsQueueHead(h, t)
      PROVE  AgentOfTask(t) \in AgentsOf(T)
  <2>1. f[t] = "queued"
      BY <1>2, <1>5 DEF IsQueueHead
  <2>2. PICK u \in Task : AgentOfTask(u) = AgentOfTask(t) /\ f[u] = "running"
      BY <2>1 DEF Busy, find_running_tasks, find_inflight_tasks
  <2>3. h[u] # "running"
      BY <1>5, <2>2 DEF find_running_tasks, find_inflight_tasks
  <2>4. u \in T
      BY <1>3, <2>2, <2>3
  <2> QED
      BY <2>2, <2>4 DEF AgentsOf
<1>6. \A t \in Task : Place(Release(f, T, s))[t]
                      = IF find_running_tasks(h, AgentOfTask(t)) = {} /\ IsQueueHead(h, t)
                        THEN "running" ELSE Place(h)[t]
  <2>1. Release(f, T, s) = promote_next_queued_task(h, AgentsOf(T))
      BY DEF Release, h
  <2> QED
      BY <1>5, <2>1 DEF promote_next_queued_task, Place
<1>7. \A t \in Task : Place(Release(f, T, s))[t] = Slot!Left(Place(f), InSlot(f, T))[t]
    BY <1>1, <1>4, <1>6, PlaceOfQueue
<1> QED
    BY <1>4, <1>7 DEF Place

\* When no queue is idle and nobody leaves, nobody is started.
LEMMA NobodyLeft ==
    ASSUME NEW f \in [Task -> Status], \A t \in Task : Busy(f, t)
    PROVE  Slot!Left(Place(f), {}) = Place(f)
<1> DEFINE gone == [t \in Task |-> IF t \in {} THEN "out" ELSE Place(f)[t]]
<1>1. gone = Place(f)
    BY DEF Place
<1>2. Slot!Left(Place(f), {})
      = [t \in Task |-> IF Slot!Free(gone, t) /\ Slot!Oldest(gone, t) THEN "running" ELSE gone[t]]
    BY DEF Slot!Left
<1> HIDE DEF gone
<1>3. \A t \in Task : ~ (Slot!Free(Place(f), t) /\ Slot!Oldest(Place(f), t))
    BY PlaceOfQueue DEF Busy, IsQueueHead
<1>4. \A t \in Task : Slot!Left(Place(f), {})[t] = Place(f)[t]
    BY <1>1, <1>2, <1>3
<1> QED
    BY <1>2, <1>4 DEF Place

\* A task that was out of the slot and asks for it gets it as in ExecutionSlot.
LEMMA ClaimIsAsked ==
    ASSUME NEW f \in [Task -> Status], NEW t \in Task, f[t] \notin ACTIVE_STATUSES
    PROVE  Slot!Asked(Place(f), {t}, Place([f EXCEPT ![t] = SlotStatus(f, t)]))
<1> DEFINE g == [f EXCEPT ![t] = SlotStatus(f, t)]
<1>1. Place(f)[t] = "out"
    BY PlaceValue DEF ACTIVE_STATUSES
<1>2. g[t] = SlotStatus(f, t) /\ \A u \in Task \ {t} : g[u] = f[u]
    OBVIOUS
<1> HIDE DEF g
<1>3. g[t] \in {"running", "queued"}
      /\ (g[t] = "running" <=> find_running_tasks(f, AgentOfTask(t)) = {})
    BY <1>2 DEF SlotStatus
<1>4. Place(g)[t] \in {"waiting", "running"}
      /\ (Slot!Free(Place(f), t) <=> Place(g)[t] = "running")
    BY <1>3, PlaceValue, PlaceOfQueue
<1>5. \A u \in Task \ {t} : Place(g)[u] = Place(f)[u]
    BY <1>2 DEF Place
<1>6. {t} \cap Slot!Mates(t) = {t}
    BY DEF Slot!Mates
<1> QED
    BY <1>1, <1>4, <1>5, <1>6 DEF Slot!Asked, g

\* A batch of blocked tasks of one agent is resumed: the first is started when
\* the slot is free, the others wait.
LEMMA ResumeEachIsAsked ==
    ASSUME NEW f \in [Task -> Status], NEW R \in SUBSET Task, NEW first \in Task,
           R # {} => first \in R,
           \A t \in R : AgentOfTask(t) = Main /\ f[t] = "blocked"
    PROVE  Slot!Asked(Place(f), R, Place(ResumeEach(f, R, first)))
<1> DEFINE g == ResumeEach(f, R, first)
<1>1. \A t \in Task \ R : g[t] = f[t]
    BY DEF ResumeEach
<1>2. \A t \in R : g[t] = IF t = first THEN SlotStatus(f, t) ELSE "queued"
    BY DEF ResumeEach
<1> HIDE DEF g
<1>3. \A t \in R : /\ g[t] \in {"running", "queued"}
                   /\ g[t] = "running" <=> t = first /\ find_running_tasks(f, Main) = {}
    BY <1>2 DEF SlotStatus
<1>4. \A t \in R : /\ Place(f)[t] = "out" /\ Place(g)[t] \in {"waiting", "running"}
                   /\ Place(g)[t] = "running" <=> t = first /\ find_running_tasks(f, Main) = {}
                   /\ Slot!Free(Place(f), t) <=> find_running_tasks(f, Main) = {}
    BY <1>3, PlaceValue, PlaceOfQueue
<1>5. \A t \in Task \ R : Place(g)[t] = Place(f)[t]
    BY <1>1 DEF Place
<1>6. \A t \in R : R \cap Slot!Mates(t) = R
    BY DEF Slot!Mates
<1>7. \A t \in R : Slot!Free(Place(f), t) <=> \E u \in R \cap Slot!Mates(t) : Place(g)[u] = "running"
    BY <1>4, <1>6
<1> QED
    BY <1>4, <1>5, <1>7 DEF Slot!Asked, g

\* Nobody asks.
LEMMA NobodyAsked == \A p : Slot!Asked(p, {}, p)
BY DEF Slot!Asked

\* When no queue is idle, a follow-up that is observed and then paused changes
\* nothing of the slot.
LEMMA FollowupPlaces ==
    ASSUME NEW f \in [Task -> Status], NEW t \in Task, NEW source \in Task,
           f[t] = "absent", f[source] # "absent", \A u \in Task : Busy(f, u)
    PROVE  Place([Release(f, {t}, "paused") EXCEPT ![source] = f[source]]) = Place(f)
<1> DEFINE h == [f EXCEPT ![t] = "paused"]
           g == Release(f, {t}, "paused")
<1>1. \A u \in Task : Busy(h, u)
    BY DEF Busy, find_running_tasks, find_inflight_tasks
<1>2. h \in [Task -> Status] /\ h[source] = f[source] /\ g = promote_next_queued_task(h, AgentsOf({t}))
    BY FollowupTable
<1>3. Place(h) = Place(f)
  <2>1. \A u \in Task : Place(h)[u] = Place(f)[u]
      BY DEF Place
  <2> QED
      BY <2>1 DEF Place
<1> HIDE DEF h, g
<1>4. \A u \in Task : g[u] = h[u]
    BY <1>1, <1>2, PromoteStatus DEF Busy
<1>5. \A u \in Task : [g EXCEPT ![source] = f[source]][u] = h[u]
  <2>1. g \in [Task -> Status]
      BY <1>2, PromoteStatus
  <2> QED
      BY <1>2, <1>4, <2>1
<1>6. Place([g EXCEPT ![source] = f[source]]) = Place(h)
    BY <1>5 DEF Place
<1> QED
    BY <1>3, <1>6 DEF g

-----------------------------------------------------------------------------
\* The steps.

\* What an action on one task does to the watchdog's marks and to the stamps:
\* only a task that holds no slot and waits for none is stamped.
LEMMA TaskStepStamps ==
    ASSUME TypeOK, QueueOrderTotal, NEW t \in Task, TaskStep(t)
    PROVE  /\ escalated' = escalated
           /\ \A u \in Task : inflight[u] \in ACTIVE_STATUSES => created_at'[u] = created_at[u]
<1>0. created_at \in [Task -> 0..MaxStamp]
    BY DEF TypeOK
<1>1. Fresh(t) => inflight[t] = "absent"
    BY StoredMeans DEF Fresh, QueueOrderTotal
<1>2. ASSUME Stamp(t), inflight[t] \notin ACTIVE_STATUSES
      PROVE  \A u \in Task : inflight[u] \in ACTIVE_STATUSES => created_at'[u] = created_at[u]
    BY <1>0, <1>2 DEF Stamp
<1>3. ASSUME NEW start \in BOOLEAN,
             \/ RegisterNew(t, start) \/ MaterializeWindow(t, start)
             \/ TakeOverStaleObserved(t, start)
      PROVE  escalated' = escalated /\ Stamp(t) /\ inflight[t] \notin ACTIVE_STATUSES
    BY <1>1, <1>3 DEF RegisterNew, MaterializeWindow, register_main_task, TakeOverStaleObserved,
                      flags, ACTIVE_STATUSES
<1>4. ASSUME NEW source \in Task, NEW when \in {"future", "past"},
             ScheduleFollowup(source, t, when)
      PROVE  escalated' = escalated /\ Stamp(t) /\ inflight[t] \notin ACTIVE_STATUSES
    BY <1>1, <1>4 DEF ScheduleFollowup, ACTIVE_STATUSES
<1>5. ASSUME \/ ResumeRecoverable(t) \/ ResumeById(t) \/ ActivateLatest(t) \/ MergeWindow(t)
             \/ BlockActive(t) \/ DeliveryFails(t)
      PROVE  escalated' = escalated /\ created_at' = created_at
    BY <1>5 DEF ResumeRecoverable, ResumeById, resume_task, ActivateLatest, MergeWindow, AskForSlot,
                BlockActive, DeliveryFails, block_task, KeepStamps, flags
<1>6. ASSUME \/ FinishActive(t) \/ ProgressRepairsSkip(t) \/ CancelQueued(t)
             \/ StopMainQueue(t) \/ FulfillDueContinuation(t) \/ DeliverySucceeds(t)
             \/ FinalizeSkipped(t) \/ FallsDue(t) \/ DeliveryUnreported(t)
      PROVE  escalated' = escalated /\ created_at' = created_at
    BY <1>6 DEF FinishActive, ProgressRepairsSkip, CancelQueued, StopMainQueue,
                FulfillDueContinuation, DeliverySucceeds, _finalize_task, FinalizeAll,
                FinalizeSkipped, FallsDue, DeliveryUnreported, KeepStamps, flags
<1> QED
    BY <1>2, <1>3, <1>4, <1>5, <1>6 DEF TaskStep

\* A turn of the abstract slot, told of the tables before and after.
LEMMA TurnOf ==
    ASSUME TypeOK, TypeOK', claimed' = claimed, escalated \subseteq escalated',
           \A t \in Task : inflight[t] \in ACTIVE_STATUSES => created_at'[t] = created_at[t],
           NEW L \in SUBSET {t \in Task : Place(inflight)[t] # "out"}, NEW R \in SUBSET Task,
           L \cap R \subseteq escalated',
           Slot!Asked(Slot!Left(Place(inflight), L), R, Place(inflight'))
    PROVE  Slot!Turn
<1>1. Place(inflight') = Place(inflight)'
    BY DEF Place
<1>2. R \in SUBSET {t \in Task : Place(inflight)'[t] # "out"}
    BY <1>1 DEF Slot!Asked
<1>3. created_at' \in [Task -> Nat]
    BY BoundAssumption DEF TypeOK
<1>4. \A t \in Task : Place(inflight)[t] # "out" => created_at'[t] = created_at[t]
    BY PlaceValue DEF ACTIVE_STATUSES
<1>5. escalated' \subseteq Task
    BY DEF TypeOK
<1> QED
    BY <1>1, <1>2, <1>3, <1>4, <1>5 DEF Slot!Turn, Slot!Stamped

\* A step that leaves every task in its place.
LEMMA IdleTurn ==
    ASSUME TypeOK, TypeOK', NoIdleQueue, claimed' = claimed, escalated' = escalated,
           \A t \in Task : inflight[t] \in ACTIVE_STATUSES => created_at'[t] = created_at[t],
           Place(inflight') = Place(inflight)
    PROVE  Slot!Turn
<1>1. inflight \in [Task -> Status]
    BY DEF TypeOK
<1>2. Slot!Asked(Slot!Left(Place(inflight), {}), {}, Place(inflight'))
    BY <1>1, NobodyLeft, NobodyAsked DEF NoIdleQueue
<1> QED
    BY <1>2, TurnOf

\* A step that releases tasks.
LEMMA LeavingTurn ==
    ASSUME TypeOK, TypeOK', NoIdleQueue, claimed' = claimed, escalated' = escalated,
           \A t \in Task : inflight[t] \in ACTIVE_STATUSES => created_at'[t] = created_at[t],
           NEW T \in SUBSET Task, NEW s \in Status \ ACTIVE_STATUSES,
           inflight' = Release(inflight, T, s)
    PROVE  Slot!Turn
<1>1. inflight \in [Task -> Status] /\ \A t \in Task : Busy(inflight, t)
    BY DEF TypeOK, NoIdleQueue
<1>2. Place(inflight') = Slot!Left(Place(inflight), InSlot(inflight, T))
    BY <1>1, ReleaseIsLeft
<1>3. Slot!Asked(Slot!Left(Place(inflight), InSlot(inflight, T)), {}, Place(inflight'))
    BY <1>2, NobodyAsked
<1>4. InSlot(inflight, T) \in SUBSET {t \in Task : Place(inflight)[t] # "out"}
    BY DEF InSlot
<1> QED
    BY <1>3, <1>4, TurnOf

\* Each action on one task is a turn of the abstract slot.
LEMMA TaskStepIsTurn ==
    ASSUME "running" \notin ResumeFrom, TypeOK, TypeOK', QueueOrderTotal, NoIdleQueue,
           NEW t \in Task, TaskStep(t)
    PROVE  Slot!Turn
<1>0. inflight \in [Task -> Status] /\ \A u \in Task : Busy(inflight, u)
    BY DEF TypeOK, NoIdleQueue
<1>1. /\ claimed' = claimed /\ escalated' = escalated
      /\ \A u \in Task : inflight[u] \in ACTIVE_STATUSES => created_at'[u] = created_at[u]
    BY TaskStepTable, TaskStepStamps
<1>2. CASE inflight' = inflight
    BY <1>1, <1>2, IdleTurn
<1>3. CASE inflight[t] = "absent" /\ inflight' = [inflight EXCEPT ![t] = "received"]
  <2>1. \A u \in Task : Place(inflight')[u] = Place(inflight)[u]
      BY <1>0, <1>3 DEF Place
  <2>2. Place(inflight') = Place(inflight)
      BY <2>1 DEF Place
  <2> QED
      BY <1>1, <2>2, IdleTurn
<1>4. CASE /\ inflight' = [inflight EXCEPT ![t] = SlotStatus(inflight, t)]
           /\ inflight[t] = "running" => "running" \in ResumeFrom
  <2>1. CASE inflight[t] = "queued"
    <3>1. SlotStatus(inflight, t) = "queued"
        BY <1>0, <2>1 DEF Busy, SlotStatus
    <3>2. inflight' = inflight
        BY <1>0, <1>4, <2>1, <3>1
    <3> QED
        BY <1>1, <3>2, IdleTurn
  <2>2. CASE inflight[t] \notin ACTIVE_STATUSES
    <3>1. Slot!Asked(Place(inflight), {t}, Place(inflight'))
        BY <1>0, <1>4, <2>2, ClaimIsAsked
    <3>2. Slot!Left(Place(inflight), {}) = Place(inflight)
        BY <1>0, NobodyLeft
    <3>3. Slot!Asked(Slot!Left(Place(inflight), {}), {t}, Place(inflight'))
        BY <3>1, <3>2
    <3> QED
        BY <1>1, <3>3, TurnOf
  <2> QED
      BY <1>4, <2>1, <2>2 DEF ACTIVE_STATUSES
<1>5. ASSUME NEW s \in {"blocked", "absent"}, inflight' = Release(inflight, {t}, s)
      PROVE  Slot!Turn
    BY <1>1, <1>5, RestingStatus, LeavingTurn
<1>6. ASSUME NEW source \in Task, inflight[t] = "absent", inflight[source] # "absent",
             inflight' = [Release(inflight, {t}, "paused") EXCEPT ![source] = inflight[source]]
      PROVE  Slot!Turn
    BY <1>0, <1>1, <1>6, FollowupPlaces, IdleTurn
<1> QED
    BY <1>2, <1>3, <1>4, <1>5, <1>6, TaskStepTable

\* A run of the watchdog is a turn too: what it blocks leaves, and what it
\* resumes after that it has set back.
LEMMA WatchdogIsTurn ==
    ASSUME TypeOK, TypeOK', NoIdleQueue, Watchdog
    PROVE  Slot!Turn
<1>0. inflight \in [Task -> Status] /\ \A t \in Task : Busy(inflight, t)
    BY DEF TypeOK, NoIdleQueue
<1>1. PICK hit \in SUBSET Task, R \in SUBSET Task, first \in Task :
               /\ inflight' = ResumeEach(Release(inflight, hit, "blocked"), R, first)
               /\ \A t \in R : /\ AgentOfTask(t) = Main
                              /\ Release(inflight, hit, "blocked")[t] = "blocked"
               /\ R # {} => first \in R
               /\ hit \subseteq escalated'
               /\ KeepStamps /\ archived' = archived /\ claimed' = claimed
    BY WatchdogStep
<1> DEFINE settled == Release(inflight, hit, "blocked")
<1>2. settled \in [Task -> Status]
    BY <1>0, RestingStatus, ReleaseStatus
<1>3. Place(settled) = Slot!Left(Place(inflight), InSlot(inflight, hit))
    BY <1>0, RestingStatus, ReleaseIsLeft
<1>4. escalated \subseteq escalated'
    BY DEF Watchdog, WatchdogAutoRecover
<1> HIDE DEF settled
<1>5. Slot!Asked(Place(settled), R, Place(inflight'))
    BY <1>1, <1>2, ResumeEachIsAsked DEF settled
<1>6. Slot!Asked(Slot!Left(Place(inflight), InSlot(inflight, hit)), R, Place(inflight'))
    BY <1>3, <1>5
<1>7. /\ InSlot(inflight, hit) \in SUBSET {t \in Task : Place(inflight)[t] # "out"}
      /\ InSlot(inflight, hit) \cap R \subseteq escalated'
    BY <1>1 DEF InSlot
<1>8. created_at' = created_at
    BY <1>1 DEF KeepStamps
<1> QED
    BY <1>1, <1>4, <1>6, <1>7, <1>8, TurnOf

\* Continuations that fell due start beside.
LEMMA ClaimIsStartBeside ==
    ASSUME TypeOK, ClaimDueContinuations
    PROVE  Slot!StartBeside
<1> DEFINE B == Claimable
<1>1. /\ inflight' = [t \in Task |-> IF t \in B THEN "running" ELSE inflight[t]]
      /\ claimed' = claimed \cup B
      /\ created_at' = created_at /\ escalated' = escalated
    BY DEF ClaimDueContinuations, KeepStamps
<1>2. B \in SUBSET {t \in Task : Place(inflight)[t] = "out"}
    BY PlaceValue DEF Claimable
<1> HIDE DEF B
<1>3. \A t \in Task : Place(inflight')[t] = IF t \in B THEN "running" ELSE Place(inflight)[t]
    BY <1>1 DEF Place
<1>4. Place(inflight)' = [t \in Task |-> IF t \in B THEN "running" ELSE Place(inflight)[t]]
    BY <1>3 DEF Place
<1> QED
    BY <1>1, <1>2, <1>4 DEF Slot!StartBeside

\* The store implements the execution slot: whatever the hooks and the
\* watchdog do, a task that asks runs at once or waits, whoever leaves starts
\* the oldest that waits in the same step, and nothing else starts one.
THEOREM SlotIsImplemented ==
    ASSUME "running" \notin ResumeFrom, Purgeable = {}
    PROVE  Spec => ImplementsSlot
<1>1. Init => Slot!Init
    BY DEF Init, Slot!Init, Place
<1>2. TypeOK /\ TypeOK' /\ QueueOrderTotal /\ NoIdleQueue /\ [Next]_vars => [Slot!Next]_(Slot!vars)
  <2> SUFFICES ASSUME TypeOK, TypeOK', QueueOrderTotal, NoIdleQueue, [Next]_vars
               PROVE  [Slot!Next]_(Slot!vars)
      OBVIOUS
  <2>1. ASSUME NEW t \in Task, TaskStep(t) PROVE Slot!Turn
      BY <2>1, TaskStepIsTurn
  <2>2. ASSUME NEW stopped \in SUBSET Task, StopAllMainQueue(stopped) PROVE Slot!Turn
    <3>1. PICK T \in SUBSET Task : inflight' = Release(inflight, T, "absent") /\ claimed' = claimed
        BY <2>2, OtherTables
    <3>2. escalated' = escalated /\ created_at' = created_at
        BY <2>2 DEF StopAllMainQueue, FinalizeAll, KeepStamps, flags
    <3> QED
        BY <3>1, <3>2, RestingStatus, LeavingTurn
  <2>3. CASE ClaimDueContinuations
      BY <2>3, ClaimIsStartBeside DEF Slot!Next
  <2>4. CASE Watchdog
      BY <2>4, WatchdogIsTurn DEF Slot!Next
  <2>5. ASSUME NEW s \in Session, PurgeSession(s) PROVE FALSE
      BY <2>5 DEF PurgeSession
  <2>6. CASE UNCHANGED vars
      BY <2>6 DEF vars, flags, Slot!vars, Place
  <2> QED
      BY <2>1, <2>2, <2>3, <2>4, <2>5, <2>6 DEF Next, Slot!Next
<1> QED
    BY <1>1, <1>2, TypeCorrect, QueueOrdered, NoQueueIdles, PTL DEF Spec, ImplementsSlot, Slot!Spec

=============================================================================
