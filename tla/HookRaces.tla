------------------------------ MODULE HookRaces ------------------------------
(***************************************************************************)
(* The hooks of the runtime as processes that overlap.  Every hook is a    *)
(* process of its own and the task store (task_state.py) has no lock: a    *)
(* hook scans data/tasks/inflight/, loads a record, decides, saves, and    *)
(* whatever another hook saved in between it has not seen.  A step of this *)
(* module is one access to the store by one process; TaskLifecycle has the *)
(* same hooks as single actions.                                           *)
(*                                                                         *)
(* One agent, and of a record only its status; files are written by rename *)
(* and so are never seen half-written.                                     *)
(***************************************************************************)
EXTENDS Integers, FiniteSets

CONSTANTS
    Task,           \* tasks; the number of a task is its creation stamp
    Proc,           \* the processes that may overlap
    MaxHooks,       \* bound on the hooks started
    MaxCrashes      \* bound on the processes killed

ASSUME TaskAssumption  == IsFiniteSet(Task) /\ Task \subseteq Nat \ {0}
ASSUME BoundAssumption == MaxHooks \in Nat /\ MaxCrashes \in Nat

NoTask == 0
Status == {"received", "queued", "running", "blocked", "paused", "done"}
ACTIVE_STATUSES == {"queued", "running"}

VARIABLES
    inflight,       \* status in inflight/<id>.json, "absent" when no file
    archived,       \* status in archive/<id>.json, "absent" when no file
    hook, on, made, \* of a process: its hook, its task, the follow-up it makes
    pc,             \* its next access
    mine,           \* the status of its task in its memory
    names,          \* the files its scan has listed
    busy, head,     \* what its scan found: a running task, the oldest queued one
    hooks, crashes, \* hooks started, processes killed
    raced           \* some process has acted on a reading that no longer held

memory == <<hook, on, made, mine>>
found  == <<names, busy, head>>
counts == <<hooks, crashes>>
vars   == <<inflight, archived, memory, pc, found, counts, raced>>

Init ==
    /\ inflight = [t \in Task |-> "absent"]
    /\ archived = [t \in Task |-> "absent"]
    /\ hook = [p \in Proc |-> "none"]
    /\ on = [p \in Proc |-> NoTask]
    /\ made = [p \in Proc |-> NoTask]
    /\ pc = [p \in Proc |-> "idle"]
    /\ mine = [p \in Proc |-> "absent"]
    /\ names = [p \in Proc |-> {}]
    /\ busy = [p \in Proc |-> FALSE]
    /\ head = [p \in Proc |-> NoTask]
    /\ hooks = 0 /\ crashes = 0
    /\ raced = FALSE

-----------------------------------------------------------------------------
\* The store.

With(S)      == {t \in Task : inflight[t] \in S}
Running      == With({"running"})
Queued       == With({"queued"})
OldestQueued == IF Queued = {} THEN NoTask ELSE CHOOSE t \in Queued : \A u \in Queued : t <= u

\* load_task, without and with the archive.
Stored(t) == IF inflight[t] # "absent" THEN inflight[t] ELSE archived[t]

Used == {t \in Task : Stored(t) # "absent"}

\* The task created next: tasks are numbered as observe_task stamps them.
IsNext(t) == t \notin Used /\ \A u \in Task : u < t => u \in Used

\* There is a number for one more process that will create a task.
MayCreate ==
    LET pending == {p \in Proc : \/ hook[p] = "register" /\ on[p] = NoTask
                                 \/ hook[p] = "followup" /\ made[p] = NoTask}
    IN  Cardinality(Used) + Cardinality(pending) < Cardinality(Task)

Saves(t, status) == inflight' = [inflight EXCEPT ![t] = status]

\* A process acts on what it read: is it still so?
ActsOn(still) == raced' = (raced \/ ~ still)

Goes(p, next) == pc' = [pc EXCEPT ![p] = next]

\* The process is gone, and with it all it knew.
Ends(p) ==
    /\ Goes(p, "idle")
    /\ hook' = [hook EXCEPT ![p] = "none"]
    /\ on' = [on EXCEPT ![p] = NoTask]
    /\ made' = [made EXCEPT ![p] = NoTask]
    /\ mine' = [mine EXCEPT ![p] = "absent"]
    /\ names' = [names EXCEPT ![p] = {}]
    /\ busy' = [busy EXCEPT ![p] = FALSE]
    /\ head' = [head EXCEPT ![p] = NoTask]

\* FileNotFoundError.
Aborts(p) ==
    /\ Ends(p)
    /\ UNCHANGED <<inflight, archived, counts, raced>>

Continues(p, next) == Goes(p, next) /\ UNCHANGED <<memory, found>>

-----------------------------------------------------------------------------
\* The hooks, and the task each is called for.

Begins(p, h, t, next) ==
    /\ pc[p] = "idle"
    /\ hooks < MaxHooks
    /\ hooks' = hooks + 1
    /\ hook' = [hook EXCEPT ![p] = h]
    /\ on' = [on EXCEPT ![p] = t]
    /\ Goes(p, next)
    /\ UNCHANGED <<inflight, archived, made, mine, found, crashes, raced>>

\* register_inbound_task with a new task: the scan decides its status.
BeginRegister(p) == MayCreate /\ Begins(p, "register", NoTask, "glob")

\* activate-latest, and a message that resumes a parked task.
BeginClaim(p, t)  == inflight[t] = "received" /\ Begins(p, "claim", t, "glob")
BeginResume(p, t) == inflight[t] \in {"blocked", "paused"} /\ Begins(p, "resume", t, "glob")

\* finalize-active, completed-active, failed-active and blocked-active.
BeginFinish(p, t) == inflight[t] # "absent" /\ Begins(p, "finish", t, "load")
BeginBlock(p, t)  == inflight[t] # "absent" /\ Begins(p, "block", t, "load")

\* The watchdog, on a finding: it marks the task, and may escalate it.
BeginMark(p, t)     == inflight[t] \in ACTIVE_STATUSES \cup {"received"} /\ Begins(p, "mark", t, "glob")
BeginEscalate(p, t) == inflight[t] = "running" /\ Begins(p, "escalate", t, "glob")

\* schedule-followup-from-plan of a running task.
BeginFollowup(p, t) ==
    inflight[t] = "running" /\ MayCreate /\ Begins(p, "followup", t, "load")

-----------------------------------------------------------------------------
\* The scan: the names first, then the files.

Glob(p) ==
    /\ pc[p] \in {"glob", "promote-glob"}
    /\ names' = [names EXCEPT ![p] = With(Status)]
    /\ Goes(p, IF pc[p] = "glob" THEN "scan" ELSE "promote-scan")
    /\ UNCHANGED <<inflight, archived, memory, busy, head, counts, raced>>

Scan(p) ==
    /\ pc[p] \in {"scan", "promote-scan"}
    /\ IF names[p] \subseteq With(Status)
       THEN /\ busy' = [busy EXCEPT ![p] = Running # {}]
            /\ head' = [head EXCEPT ![p] = OldestQueued]
            /\ names' = [names EXCEPT ![p] = {}]
            /\ Goes(p, IF pc[p] = "promote-scan" THEN "start"
                       ELSE IF hook[p] = "register" THEN "observe" ELSE "load")
            /\ UNCHANGED <<inflight, archived, memory, counts, raced>>
       ELSE Aborts(p)

-----------------------------------------------------------------------------
\* Loading and saving the task of the hook.

\* The watchdog marks only what is in flight; the others take any record.
Load(p) ==
    /\ pc[p] = "load"
    /\ LET t     == on[p]
           there == IF hook[p] \in {"mark", "escalate"} THEN inflight[t] ELSE Stored(t)
       IN  IF there = "absent" THEN Aborts(p)
           ELSE /\ mine' = [mine EXCEPT ![p] = there]
                /\ Goes(p, IF hook[p] = "followup" THEN "observe" ELSE "save")
                /\ UNCHANGED <<inflight, archived, hook, on, made, found, counts, raced>>

\* observe_task: the record of the new task is saved as received.
Observe(p) ==
    /\ pc[p] = "observe"
    /\ \E t \in Task :
          /\ IsNext(t)
          /\ Saves(t, "received")
          /\ IF hook[p] = "register"
             THEN /\ on' = [on EXCEPT ![p] = t] /\ mine' = [mine EXCEPT ![p] = "received"]
                  /\ UNCHANGED made
             ELSE made' = [made EXCEPT ![p] = t] /\ UNCHANGED <<on, mine>>
    /\ Goes(p, "save")
    /\ UNCHANGED <<archived, hook, found, counts, raced>>

\* claim_execution_slot and resume_task: start, or queue behind what the scan found.
SaveClaim(p) ==
    /\ pc[p] = "save" /\ hook[p] = "claim"
    /\ IF mine[p] = "running" \/ (mine[p] = "queued" /\ busy[p])
       THEN UNCHANGED <<inflight, raced>>
       ELSE /\ Saves(on[p], IF busy[p] THEN "queued" ELSE "running")
            /\ ActsOn(busy[p] = (Running # {}) /\ mine[p] = inflight[on[p]])
    /\ Ends(p)
    /\ UNCHANGED <<archived, counts>>

\* register_inbound_task: the same, on the snapshot it took first; the routing
\* decision is added to the record in a second save.
SaveInbound(p) ==
    /\ pc[p] = "save" /\ hook[p] \in {"register", "resume"}
    /\ LET status == IF busy[p] THEN "queued" ELSE "running"
       IN  Saves(on[p], status) /\ mine' = [mine EXCEPT ![p] = status]
    /\ ActsOn(/\ busy[p] = (Running # {}) /\ mine[p] = inflight[on[p]]
              /\ hook[p] = "resume" => mine[p] \in {"blocked", "paused"})
    /\ Goes(p, "write-back")
    /\ UNCHANGED <<archived, hook, on, made, found, counts>>

SaveMark(p) ==
    /\ pc[p] = "save" /\ hook[p] \in {"mark", "escalate"}
    /\ Saves(on[p], mine[p])
    /\ ActsOn(mine[p] = inflight[on[p]])
    /\ IF hook[p] = "mark" THEN Ends(p) ELSE Continues(p, "save-blocked")
    /\ UNCHANGED <<archived, counts>>

\* Mutant: blocking gives the slot to nobody.
SaveBlockedOnly(p) ==
    /\ pc[p] = "save-blocked" \/ (pc[p] = "save" /\ hook[p] = "block")
    /\ Saves(on[p], "blocked")
    /\ ActsOn(inflight[on[p]] # "absent")
    /\ Ends(p)
    /\ UNCHANGED <<archived, counts>>

\* block_task.
SaveBlocked(p) ==
    /\ pc[p] = "save-blocked" \/ (pc[p] = "save" /\ hook[p] = "block")
    /\ Saves(on[p], "blocked")
    /\ ActsOn(inflight[on[p]] # "absent")
    /\ Continues(p, "promote-glob")
    /\ UNCHANGED <<archived, counts>>

\* schedule_continuation of the follow-up.
SavePaused(p) ==
    /\ pc[p] = "save" /\ hook[p] = "followup"
    /\ Saves(made[p], "paused")
    /\ ActsOn(inflight[made[p]] = "received")
    /\ Continues(p, "promote-glob")
    /\ UNCHANGED <<archived, counts>>

-----------------------------------------------------------------------------
\* _finalize_task: save, archive what is in flight by then, unlink.

SaveDone(p) ==
    /\ pc[p] = "save" /\ hook[p] = "finish"
    /\ Saves(on[p], "done")
    /\ ActsOn(inflight[on[p]] # "absent")
    /\ Continues(p, "reload")
    /\ UNCHANGED <<archived, counts>>

\* Mutant: only a terminal record is written to the archive.
ReloadTerminal(p) ==
    /\ pc[p] = "reload"
    /\ IF inflight[on[p]] = "absent" THEN Aborts(p)
       ELSE /\ mine' = [mine EXCEPT ![p] = inflight[on[p]]]
            /\ Goes(p, IF inflight[on[p]] = "done" THEN "archive" ELSE "unlink")
            /\ UNCHANGED <<inflight, archived, hook, on, made, found, counts, raced>>

Reload(p) ==
    /\ pc[p] = "reload"
    /\ IF inflight[on[p]] = "absent" THEN Aborts(p)
       ELSE /\ mine' = [mine EXCEPT ![p] = inflight[on[p]]]
            /\ Goes(p, "archive")
            /\ UNCHANGED <<inflight, archived, hook, on, made, found, counts, raced>>

Archive(p) ==
    /\ pc[p] = "archive"
    /\ archived' = [archived EXCEPT ![on[p]] = mine[p]]
    /\ ActsOn(mine[p] = inflight[on[p]] /\ mine[p] = "done")
    /\ Continues(p, "unlink")
    /\ UNCHANGED <<inflight, counts>>

\* Mutant: the archived record stays in flight.
UnlinkNothing(p) ==
    /\ pc[p] = "unlink"
    /\ Continues(p, "promote-glob")
    /\ UNCHANGED <<inflight, archived, counts, raced>>

Unlink(p) ==
    /\ pc[p] = "unlink"
    /\ Saves(on[p], "absent")
    /\ ActsOn(inflight[on[p]] = mine[p])
    /\ Continues(p, "promote-glob")
    /\ UNCHANGED <<archived, counts>>

-----------------------------------------------------------------------------
\* promote_next_queued_task: start_task on the head, then its promotion mark.

\* Mutant: every hook writes its record back.
AfterPromotionAlways(p) == Continues(p, "write-back")

\* After the promotion a follow-up writes its source back, an escalation its task.
AfterPromotion(p) ==
    IF hook[p] \in {"followup", "escalate"} THEN Continues(p, "write-back") ELSE Ends(p)

\* Mutant: the head is started beside whoever runs.
StartHeadBeside(p) ==
    /\ pc[p] = "start"
    /\ IF head[p] = NoTask
       THEN AfterPromotion(p) /\ UNCHANGED <<inflight, raced>>
       ELSE /\ Saves(head[p], "running")
            /\ ActsOn(head[p] = OldestQueued)
            /\ Continues(p, "mark-promoted")
    /\ UNCHANGED <<archived, counts>>

StartHead(p) ==
    /\ pc[p] = "start"
    /\ IF busy[p] \/ head[p] = NoTask
       THEN AfterPromotion(p) /\ UNCHANGED <<inflight, raced>>
       ELSE /\ Saves(head[p], "running")
            /\ ActsOn(Running = {} /\ head[p] = OldestQueued)
            /\ Continues(p, "mark-promoted")
    /\ UNCHANGED <<archived, counts>>

MarkPromoted(p) ==
    /\ pc[p] = "mark-promoted"
    /\ Saves(head[p], "running")
    /\ ActsOn(inflight[head[p]] = "running")
    /\ AfterPromotion(p)
    /\ UNCHANGED <<archived, counts>>

WriteBack(p) ==
    /\ pc[p] = "write-back"
    /\ LET kept == IF hook[p] = "escalate" THEN "blocked" ELSE mine[p]
       IN  Saves(on[p], kept) /\ ActsOn(inflight[on[p]] = kept)
    /\ Ends(p)
    /\ UNCHANGED <<archived, counts>>

-----------------------------------------------------------------------------
\* The process is killed.
Crash(p) ==
    /\ pc[p] # "idle"
    /\ crashes < MaxCrashes
    /\ crashes' = crashes + 1
    /\ Ends(p)
    /\ UNCHANGED <<inflight, archived, hooks, raced>>

Access(p) ==
    \/ Glob(p) \/ Scan(p) \/ Load(p) \/ Observe(p)
    \/ SaveClaim(p) \/ SaveInbound(p) \/ SaveMark(p) \/ SaveBlocked(p) \/ SavePaused(p)
    \/ SaveDone(p) \/ Reload(p) \/ Archive(p) \/ Unlink(p)
    \/ StartHead(p) \/ MarkPromoted(p) \/ WriteBack(p)

Begin(p) ==
    \/ BeginRegister(p)
    \/ \E t \in Task : \/ BeginClaim(p, t) \/ BeginResume(p, t) \/ BeginFollowup(p, t)
                       \/ BeginFinish(p, t) \/ BeginBlock(p, t)
                       \/ BeginMark(p, t) \/ BeginEscalate(p, t)

Next == \E p \in Proc : Begin(p) \/ Access(p) \/ Crash(p)

Spec == Init /\ [][Next]_vars

-----------------------------------------------------------------------------
\* Properties.

AtRest == \A p \in Proc : pc[p] = "idle"

Hook == {"register", "claim", "resume", "finish", "block", "mark", "escalate", "followup"}

\* What a process may do next, besides nothing.
Step == {"glob", "scan", "load", "observe", "save", "save-blocked", "reload", "archive", "unlink",
         "promote-glob", "promote-scan", "start", "mark-promoted", "write-back"}

\* Every variable has its shape; a process past its scan has nothing listed,
\* one that loads or saves knows its task, and only hooks that keep a record in
\* memory write one back.
TypeOK ==
    /\ inflight \in [Task -> Status \cup {"absent"}]
    /\ archived \in [Task -> Status \cup {"absent"}]
    /\ hook \in [Proc -> Hook \cup {"none"}] /\ pc \in [Proc -> Step \cup {"idle"}]
    /\ on \in [Proc -> Task \cup {NoTask}] /\ made \in [Proc -> Task \cup {NoTask}]
    /\ head \in [Proc -> Task \cup {NoTask}]
    /\ mine \in [Proc -> Status \cup {"absent"}]
    /\ names \in [Proc -> SUBSET Task]
    /\ busy \in [Proc -> BOOLEAN]
    /\ \A p \in Proc : names[p] # {} => pc[p] \in {"scan", "promote-scan"}
    /\ \A p \in Proc : pc[p] = "idle" <=> hook[p] = "none"
    /\ \A p \in Proc : on[p] = NoTask => \/ pc[p] = "idle"
                                         \/ hook[p] = "register" /\ pc[p] \in {"glob", "scan", "observe"}
    /\ \A p \in Proc : pc[p] = "write-back" => hook[p] \notin {"claim", "finish", "block", "mark"}
    /\ hooks \in 0..MaxHooks /\ crashes \in 0..MaxCrashes /\ raced \in BOOLEAN

\* No task is lost, whatever overlaps and wherever a process is killed: once
\* it has a file it has one, in flight or in the archive.
NoTaskLost == [][\A t \in Used : t \in Used']_vars

\* Two tasks run at once only after some hook acted on a reading another hook
\* had overtaken: killed processes and failed scans alone do no harm.
OneRunning == raced \/ Cardinality(Running) <= 1

\* Whoever waits is served: when no hook is at work, nobody waits for a slot
\* that is free.  A hook whose scan fails promotes nobody, but the one that
\* made it fail will.
QueueServed ==
    AtRest /\ ~ raced /\ crashes = 0 => Queued = {} \/ Running # {}

\* When no hook is at work, a task is either in flight or done and archived.
RecordsAgree ==
    AtRest /\ ~ raced /\ crashes = 0 =>
        \A t \in Task : \/ archived[t] = "absent" /\ inflight[t] # "done"
                        \/ archived[t] = "done" /\ inflight[t] = "absent"

=============================================================================
