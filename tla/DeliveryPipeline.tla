--------------------------- MODULE DeliveryPipeline ---------------------------
(***************************************************************************)
(* The delivery directories of the runtime (data/outbox ... data/failed-   *)
(* instructions) and the processes that move messages through them.        *)
(*                                                                         *)
(* A directory is a function from file names to the message the file       *)
(* holds.  A notification of a task is always written to <task_id>.json,   *)
(* so a later one replaces an earlier one in the same directory; a retry   *)
(* of the plugin has a name of its own.  Runners are the processes that    *)
(* execute instructions (watchdog_cycle.py, main_ops.py repair); the host  *)
(* is the plugin's poll for feishu instructions.  Nothing locks the        *)
(* directories: every step of one process may come between two of another. *)
(***************************************************************************)
EXTENDS Integers, FiniteSets

CONSTANTS
    Name,           \* file names
    TaskName,       \* the names <task_id>.json
    TaskOf,         \* the name of the task a file belongs to
    ChannelOf,      \* the channel of a task: "direct", "feishu" or "agent"
    Message,        \* notifications
    NameOf,         \* the name a notification is written under
    Nothing,        \* the file does not exist
    Runner,         \* processes that execute instructions
    MayDryRun,      \* whether a cycle may be started with --no-execute
    RetryFailed,    \* retryFailedInstructions
    MaxCrashes,     \* bound on the deaths of runners
    MaxFailures     \* bound on the retryable failures of one message

ASSUME NothingAssumption == Nothing \notin Message \cup Name
ASSUME NamesAssumption ==
    /\ TaskName \subseteq Name
    /\ TaskOf \in [Name -> TaskName]
    /\ \A n \in TaskName : TaskOf[n] = n
    /\ ChannelOf \in [Name -> {"direct", "feishu", "agent"}]
    /\ NameOf \in [Message -> Name]
ASSUME BoundAssumption ==
    /\ MayDryRun \in BOOLEAN /\ RetryFailed \in BOOLEAN
    /\ MaxCrashes \in Nat /\ MaxFailures \in Nat

VARIABLES
    written,        \* notifications written so far
    outbox, sent, ready, instr,         \* the four intermediate directories
    processed, failed, resolved,        \* where instructions are archived
    mark,           \* _last_failure_retryable of a file in failed
    runner,         \* what a runner is doing
    host,           \* what the plugin's poll is doing
    attempts,       \* executions of a message by runners that called the channel
    excused,        \* those that ended in a retryable failure
    delivered,      \* messages a channel has accepted
    crashes

directories == <<outbox, sent, ready, instr, processed, failed, resolved, mark>>
history     == <<attempts, excused, delivered, crashes>>
vars == <<written, directories, runner, host, history>>

Files(dir)        == {n \in Name : dir[n] # Nothing}
Without(dir, S)   == [n \in Name |-> IF n \in S THEN Nothing ELSE dir[n]]
CopyOver(from, to) == [n \in Name |-> IF from[n] # Nothing THEN from[n] ELSE to[n]]

Empty == [n \in Name |-> Nothing]
Idle  == [stage |-> "idle", todo |-> {}, name |-> Nothing, message |-> Nothing, answer |-> "none"]

Init ==
    /\ written = {}
    /\ outbox = Empty /\ sent = Empty /\ ready = Empty /\ instr = Empty
    /\ processed = Empty /\ failed = Empty /\ resolved = Empty
    /\ mark = [n \in Name |-> "unsent"]
    /\ runner = [r \in Runner |-> Idle]
    /\ host = Idle
    /\ attempts = [m \in Message |-> 0]
    /\ excused = [m \in Message |-> 0]
    /\ delivered = {}
    /\ crashes = 0

RemoveFailed(n) == failed' = Without(failed, {n}) /\ mark' = [mark EXCEPT ![n] = "unsent"]

-----------------------------------------------------------------------------
\* Writers.

\* write_outbox, from the silence monitor or the command line.
WriteOutbox(m) ==
    /\ m \notin written /\ NameOf[m] \in TaskName
    /\ written' = written \cup {m}
    /\ outbox' = [outbox EXCEPT ![NameOf[m]] = m]
    /\ UNCHANGED <<sent, ready, instr, processed, failed, resolved, mark, runner, host, history>>

\* The plugin leaves a failed control-plane message to the host's poll.
EnqueueSendInstruction(m) ==
    /\ m \notin written /\ NameOf[m] \notin TaskName
    /\ written' = written \cup {m}
    /\ instr' = [instr EXCEPT ![NameOf[m]] = m]
    /\ UNCHANGED <<outbox, sent, ready, processed, failed, resolved, mark, runner, host, history>>

-----------------------------------------------------------------------------
\* A runner's cycle: consume, prepare, dispatch, execute, retry.

Starts(r, stage, todo) == runner' = [runner EXCEPT ![r] = [Idle EXCEPT !.stage = stage, !.todo = todo]]

Takes(r, n, m, answer) ==
    runner' = [runner EXCEPT ![r] = [@ EXCEPT !.todo = runner[r].todo \ {n}, !.name = n,
                                              !.message = m, !.answer = answer]]

\* The loop goes on with the next name of its listing.
GoesOn(r, n) == Takes(r, n, Nothing, "none")

Answers(r, answer) == runner' = [runner EXCEPT ![r].answer = answer]

\* The runner is in the loop of this stage and between two files of it.
Looks(r, stage) == runner[r].stage = stage /\ runner[r].answer = "none"
LoopEnds(r, stage) == Looks(r, stage) /\ runner[r].todo = {}

\* A file of the listing that is gone by now raises; the process ends.
Raises(r) == Starts(r, "idle", {})

BeginCycle(r) ==
    /\ runner[r].stage = "idle"
    /\ Starts(r, "consume", Files(outbox))
    /\ UNCHANGED <<written, directories, host, history>>

\* mark_sent, first half: the copy in sent/.
ConsumeCopy(r, n) ==
    /\ Looks(r, "consume") /\ n \in runner[r].todo
    /\ outbox[n] # Nothing
    /\ sent' = [sent EXCEPT ![n] = outbox[n]]
    /\ Takes(r, n, outbox[n], "copied")
    /\ UNCHANGED <<written, outbox, ready, instr, processed, failed, resolved, mark, host, history>>

\* mark_sent, second half: whatever outbox/ holds by then is unlinked.
ConsumeUnlink(r) ==
    /\ runner[r].answer = "copied"
    /\ outbox' = Without(outbox, {runner[r].name})
    /\ GoesOn(r, runner[r].name)
    /\ UNCHANGED <<written, sent, ready, instr, processed, failed, resolved, mark, host, history>>

\* prepare_all and dispatch_all copy every file they see and remove none.
PrepareAll(r) ==
    /\ LoopEnds(r, "consume")
    /\ ready' = CopyOver(sent, ready)
    /\ Starts(r, "dispatch", {})
    /\ UNCHANGED <<written, outbox, sent, instr, processed, failed, resolved, mark, host, history>>

DispatchAll(r) ==
    /\ LoopEnds(r, "dispatch")
    /\ instr' = CopyOver(ready, instr)
    /\ Starts(r, "execute", Files(CopyOver(ready, instr)))
    /\ UNCHANGED <<written, outbox, sent, ready, processed, failed, resolved, mark, host, history>>

\* build_dispatch_decision: the channels the command line can send to.
Sends(n) == ChannelOf[n] = "direct"

\* Mutant: an instruction that was archived before is passed over.
ExecuteTakeFresh(r, n) ==
    /\ Looks(r, "execute") /\ n \in runner[r].todo
    /\ instr[n] # Nothing
    /\ IF processed[n] = Nothing
       THEN Takes(r, n, instr[n], IF Sends(n) THEN "pending" ELSE "skipped")
       ELSE GoesOn(r, n)
    /\ UNCHANGED <<written, directories, host, history>>

\* Mutant: a file that is gone is read as an empty instruction.
ExecuteTakeGone(r, n) ==
    /\ Looks(r, "execute") /\ n \in runner[r].todo
    /\ Takes(r, n, instr[n], IF Sends(n) THEN "pending" ELSE "skipped")
    /\ UNCHANGED <<written, directories, host, history>>

\* execute_instruction loads the file; what no channel sends counts as done.
ExecuteTake(r, n) ==
    /\ Looks(r, "execute") /\ n \in runner[r].todo
    /\ instr[n] # Nothing
    /\ Takes(r, n, instr[n], IF Sends(n) THEN "pending" ELSE "skipped")
    /\ UNCHANGED <<written, directories, host, history>>

\* With --no-execute the instructions are only reported on.
DryRun(r) ==
    /\ MayDryRun
    /\ Looks(r, "execute")
    /\ Starts(r, "idle", {})
    /\ UNCHANGED <<written, directories, host, history>>

\* The command runs, up to three times while the network fails.
Send(r, answer) ==
    /\ runner[r].answer = "pending"
    /\ answer = "retryable" => excused[runner[r].message] < MaxFailures
    /\ Answers(r, answer)
    /\ attempts' = [attempts EXCEPT ![runner[r].message] = @ + 1]
    /\ excused' = IF answer # "retryable" THEN excused
                  ELSE [excused EXCEPT ![runner[r].message] = @ + 1]
    /\ delivered' = IF answer = "ok" THEN delivered \cup {runner[r].message} ELSE delivered
    /\ UNCHANGED <<written, directories, host, crashes>>

\* Mutant: what will be retried does not count as failed.
SucceededSoFar(answer) == answer # "final"

Succeeded(answer) == answer \in {"ok", "skipped"}

\* archive_instruction writes the archive first ...
ArchiveWrite(r) ==
    /\ runner[r].answer \in {"ok", "skipped", "retryable", "final"}
    /\ LET n == runner[r].name
           a == runner[r].answer
       IN  IF Succeeded(a)
           THEN /\ processed' = [processed EXCEPT ![n] = runner[r].message]
                /\ UNCHANGED <<failed, mark>>
           ELSE /\ failed' = [failed EXCEPT ![n] = runner[r].message]
                /\ mark' = [mark EXCEPT ![n] = a]
                /\ UNCHANGED processed
    /\ Answers(r, "archived")
    /\ UNCHANGED <<written, outbox, sent, ready, instr, resolved, host, history>>

\* Mutant: only the instruction is unlinked, nothing is reconciled.
ArchiveUnlink(r) ==
    /\ runner[r].answer = "archived"
    /\ instr' = Without(instr, {runner[r].name})
    /\ GoesOn(r, runner[r].name)
    /\ UNCHANGED <<written, outbox, sent, ready, processed, failed, resolved, mark, host, history>>

\* ... then it unlinks the instruction and reconciles the task: what is under
\* its name in the intermediate directories goes, newer or not.
ArchiveSweep(r) ==
    /\ runner[r].answer = "archived"
    /\ LET task == TaskOf[runner[r].name]
       IN  /\ outbox' = Without(outbox, {task})
           /\ sent' = Without(sent, {task})
           /\ ready' = Without(ready, {task})
           /\ instr' = Without(instr, {task, runner[r].name})
    /\ GoesOn(r, runner[r].name)
    /\ UNCHANGED <<written, processed, failed, resolved, mark, host, history>>

EndExecute(r) ==
    /\ LoopEnds(r, "execute")
    /\ IF RetryFailed THEN Starts(r, "retry", Files(failed)) ELSE Starts(r, "idle", {})
    /\ UNCHANGED <<written, directories, host, history>>

\* retry_failed_instructions: the file goes back under its name, over whatever
\* waits there; what the host failed to send carries no mark and is retried.
RetryTake(r, n) ==
    /\ Looks(r, "retry") /\ n \in runner[r].todo
    /\ failed[n] # Nothing /\ mark[n] # "final"
    /\ instr' = [instr EXCEPT ![n] = failed[n]]
    /\ RemoveFailed(n)
    /\ Takes(r, n, failed[n], IF Sends(n) THEN "pending" ELSE "skipped")
    /\ UNCHANGED <<written, outbox, sent, ready, processed, resolved, host, history>>

\* Older than a day, or marked as not retryable.
RetrySkip(r, n) ==
    /\ Looks(r, "retry") /\ n \in runner[r].todo
    /\ failed[n] # Nothing
    /\ GoesOn(r, n)
    /\ UNCHANGED <<written, directories, host, history>>

EndRetry(r) ==
    /\ LoopEnds(r, "retry")
    /\ Starts(r, "idle", {})
    /\ UNCHANGED <<written, directories, host, history>>

FileIsGone(r, n) ==
    /\ n \in runner[r].todo
    /\ \/ Looks(r, "consume") /\ outbox[n] = Nothing
       \/ Looks(r, "execute") /\ instr[n] = Nothing
       \/ Looks(r, "retry") /\ failed[n] = Nothing
    /\ Raises(r)
    /\ UNCHANGED <<written, directories, host, history>>

Crash(r) ==
    /\ crashes < MaxCrashes
    /\ runner[r].stage # "idle"
    /\ Raises(r)
    /\ crashes' = crashes + 1
    /\ UNCHANGED <<written, directories, host, attempts, excused, delivered>>

-----------------------------------------------------------------------------
\* The operator.

\* Mutant: whatever is waiting to be sent counts as finalized.
FinalizedOrWaiting == Files(processed) \cup Files(failed) \cup Files(instr)

Finalized == Files(processed) \cup Files(failed)

ReconcileAll ==
    /\ outbox' = Without(outbox, Finalized)
    /\ sent' = Without(sent, Finalized)
    /\ ready' = Without(ready, Finalized)
    /\ instr' = Without(instr, Finalized)
    /\ UNCHANGED <<processed, failed, resolved, mark>>

\* delivery_reconcile.py --apply, or a repair without retries.
Reconcile ==
    /\ ReconcileAll
    /\ UNCHANGED <<written, runner, host, history>>

\* main_ops.py repair --execute-retries: reconcile, then retry what failed.
Repair(r) ==
    /\ runner[r].stage = "idle"
    /\ ReconcileAll
    /\ Starts(r, "retry", Files(failed))
    /\ UNCHANGED <<written, host, history>>

\* resolve_failed_instructions, for a task the operator names.
ResolveFailed(n) ==
    /\ failed[n] # Nothing
    /\ resolved' = [resolved EXCEPT ![n] = failed[n]]
    /\ RemoveFailed(n)
    /\ UNCHANGED <<written, outbox, sent, ready, instr, processed, runner, host, history>>

-----------------------------------------------------------------------------
\* The plugin's poll: processHostDeliveryQueue.

HostBegin ==
    /\ host = Idle
    /\ {n \in Files(instr) : ChannelOf[n] = "feishu"} # {}
    /\ host' = [Idle EXCEPT !.stage = "host", !.todo = {n \in Files(instr) : ChannelOf[n] = "feishu"}]
    /\ UNCHANGED <<written, directories, runner, history>>

HostIdles(todo) == host' = IF todo = {} THEN Idle ELSE [Idle EXCEPT !.stage = "host", !.todo = todo]

HostTake(n) ==
    /\ n \in host.todo /\ host.answer = "none"
    /\ IF instr[n] = Nothing
       THEN HostIdles(host.todo \ {n})
       ELSE host' = [host EXCEPT !.todo = @ \ {n}, !.name = n, !.message = instr[n], !.answer = "pending"]
    /\ UNCHANGED <<written, directories, runner, history>>

\* No account or chat, no adapter ("unsent"), or the adapter's answer.
HostSend(answer) ==
    /\ host.answer = "pending"
    /\ host' = [host EXCEPT !.answer = answer]
    /\ delivered' = IF answer = "ok" THEN delivered \cup {host.message} ELSE delivered
    /\ UNCHANGED <<written, directories, runner, attempts, excused, crashes>>

\* archiveHostInstruction renames the file as it is by now; when it is gone the
\* rename raises and the poll ends.
HostArchive ==
    /\ host.answer \in {"ok", "final", "unsent"}
    /\ LET n == host.name
       IN  IF instr[n] = Nothing
           THEN /\ HostIdles({})
                /\ UNCHANGED <<instr, processed, failed, mark>>
           ELSE /\ instr' = Without(instr, {n})
                /\ HostIdles(host.todo)
                /\ IF host.answer = "ok"
                   THEN processed' = [processed EXCEPT ![n] = instr[n]] /\ UNCHANGED <<failed, mark>>
                   ELSE /\ failed' = [failed EXCEPT ![n] = instr[n]]
                        /\ mark' = [mark EXCEPT ![n] = host.answer]
                        /\ UNCHANGED processed
    /\ UNCHANGED <<written, outbox, sent, ready, resolved, runner, history>>

-----------------------------------------------------------------------------
RunnerStep(r) ==
    \/ BeginCycle(r)
    \/ \E n \in Name : \/ ConsumeCopy(r, n) \/ ExecuteTake(r, n)
                       \/ RetryTake(r, n) \/ RetrySkip(r, n) \/ FileIsGone(r, n)
    \/ ConsumeUnlink(r) \/ PrepareAll(r) \/ DispatchAll(r)
    \/ \E answer \in {"ok", "retryable", "final"} : Send(r, answer)
    \/ ArchiveWrite(r) \/ ArchiveSweep(r) \/ EndExecute(r) \/ EndRetry(r)

HostStep ==
    \/ HostBegin
    \/ \E n \in Name : HostTake(n)
    \/ \E answer \in {"ok", "final", "unsent"} : HostSend(answer)
    \/ HostArchive

Next ==
    \/ \E m \in Message : WriteOutbox(m) \/ EnqueueSendInstruction(m)
    \/ \E r \in Runner : RunnerStep(r) \/ DryRun(r) \/ Crash(r) \/ Repair(r)
    \/ Reconcile
    \/ \E n \in Name : ResolveFailed(n)
    \/ HostStep

Spec == Init /\ [][Next]_vars

\* A runner that works goes on, and the watchdog's scheduler starts cycle after
\* cycle, however often an operator runs a repair in between.
FairSpec == Spec /\ \A r \in Runner : WF_vars(RunnerStep(r)) /\ SF_vars(BeginCycle(r))

-----------------------------------------------------------------------------
\* Properties.

Directory == [Name -> Message \cup {Nothing}]
Answer    == {"none", "copied", "pending", "ok", "skipped", "retryable", "final", "unsent", "archived"}
Doing     == [stage : {"idle", "consume", "dispatch", "execute", "retry", "host"},
              todo : SUBSET Name, name : Name \cup {Nothing},
              message : Message \cup {Nothing}, answer : Answer]

\* The directories hold messages, and a process that has an answer to act on
\* has the file and the message it is about.
TypeOK ==
    /\ written \subseteq Message
    /\ {outbox, sent, ready, instr, processed, failed, resolved} \subseteq Directory
    /\ mark \in [Name -> {"retryable", "final", "unsent"}]
    /\ runner \in [Runner -> Doing] /\ host \in Doing
    /\ attempts \in [Message -> Nat] /\ excused \in [Message -> Nat]
    /\ delivered \subseteq written
    /\ crashes \in 0..MaxCrashes
    /\ \A p \in {runner[r] : r \in Runner} \cup {host} :
          p.answer # "none" => p.name # Nothing /\ p.message # Nothing

Holds(m) == {d \in {outbox, sent, ready, instr, processed, failed, resolved} : d[NameOf[m]] = m}

Siblings(m) == {o \in written : TaskOf[NameOf[o]] = TaskOf[NameOf[m]]}

\* A notification that is the only one of its task is never lost: whichever
\* process dies or overtakes whichever, a file still holds it.
LoneMessageKept == \A m \in written : Siblings(m) = {m} => Holds(m) # {}

\* Nothing is sent to a channel of the command line twice without an excuse: a
\* failure that may be retried, or a runner that died before it cleaned up.
SentOncePerExcuse ==
    \A m \in Message : ChannelOf[NameOf[m]] = "direct"
        => attempts[m] <= 1 + excused[m] + crashes

\* "processed" means processed: the channel accepted the message.
ProcessedWasDelivered ==
    \A n \in Files(processed) : ChannelOf[n] = "direct" => processed[n] \in delivered

\* Two runners at once may leave a message to the memory of one of them; as long
\* as none dies, it is not lost.
LoneMessageAlive ==
    \A m \in written : Siblings(m) = {m} => Holds(m) # {} \/ \E r \in Runner : runner[r].message = m

Waiting == Files(outbox) \cup Files(sent) \cup Files(ready) \cup Files(instr)

\* No file stays in the intermediate directories for ever, nor is it copied back
\* into them for ever.
Drains == \A n \in Name : (n \in Waiting) ~> (n \notin Waiting)

\* A feishu instruction that counts as processed was delivered by the host.
HostDeliversFeishu ==
    \A n \in Files(processed) : ChannelOf[n] = "feishu" => processed[n] \in delivered

=============================================================================
