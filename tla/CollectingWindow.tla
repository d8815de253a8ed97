-------------------------- MODULE CollectingWindow --------------------------
(***************************************************************************)
(* The collecting window of a session (scripts/runtime/session_state.py)   *)
(* and the two hooks that work on it: registration opens a window, buffers *)
(* messages in it and drops it when it is past due; the plugin's poll      *)
(* claims the due windows and turns what they hold into tasks.             *)
(*                                                                         *)
(* Registration is one step; which of its outcomes a message has is told   *)
(* in SameSessionRouting.  The poll is one process that claims, then       *)
(* materialises and completes one window after the other: a registration   *)
(* may come between any two of its steps, and it may die between them.     *)
(* All sessions belong to one agent; tasks are only as detailed as the     *)
(* windows need them, TaskLifecycle has the rest.                          *)
(***************************************************************************)
EXTENDS Integers, Sequences

CONSTANTS
    Session,        \* session keys
    Task,           \* task ids
    SessionOf,      \* the session an id is drawn for
    NoTask,         \* "no task id"
    MaxMessages,    \* bound on the messages of all users; message n is the n-th
    MayCrash        \* whether the poll's process may die between two steps

ASSUME NoTaskAssumption  == NoTask \notin Task
ASSUME SessionAssumption == SessionOf \in [Task -> Session]
ASSUME BoundAssumption   == MaxMessages \in Nat /\ MayCrash \in BOOLEAN

VARIABLES
    sent,           \* messages received so far
    status,         \* status of a task, "unused" while its id is
    request,        \* meta.original_user_request, as the messages it was made of
    window,         \* same_session_collecting of a session
    poll,           \* windows the running poll has claimed and not yet materialised
    made,           \* the window it has materialised and not yet completed, if any
    owed            \* openings of a session's window minus its materialisations

vars == <<sent, status, request, window, poll, made, owed>>

Message == 1..MaxMessages

NoWindow == [state |-> "none", due |-> FALSE, buffered |-> <<>>,
             existing |-> NoTask, task |-> NoTask, reason |-> "none"]

Holds(messages, n) == \E i \in DOMAIN messages : messages[i] = n

Init ==
    /\ sent = 0
    /\ status = [t \in Task |-> "unused"]
    /\ request = [t \in Task |-> <<>>]
    /\ window = [s \in Session |-> NoWindow]
    /\ poll = {}
    /\ made = {}
    /\ owed = [s \in Session |-> 0]

-----------------------------------------------------------------------------
\* Tasks.

InStatus(S)      == {t \in Task : status[t] \in S}
Here(s, S)       == {t \in InStatus(S) : SessionOf[t] = s}
SlotStatus       == IF InStatus({"running"}) = {} THEN "running" ELSE "queued"
AsksForSlot(t)   == status' = [status EXCEPT ![t] = SlotStatus]

\* The id drawn next for a session; which one it is makes no difference.
Fresh(s) == CHOOSE t \in Task : SessionOf[t] = s /\ status[t] = "unused"

\* register_main_task with the given request.
NewTask(s, t, messages, start) ==
    /\ status[t] = "unused" /\ SessionOf[t] = s /\ t = Fresh(s)
    /\ status' = [status EXCEPT ![t] = IF start THEN SlotStatus ELSE "received"]
    /\ request' = [request EXCEPT ![t] = messages]

\* The agent starts on an observed task.
ActivateLatest(t) ==
    /\ status[t] = "received"
    /\ AsksForSlot(t)
    /\ UNCHANGED <<sent, request, window, poll, made, owed>>

\* A task leaves the slot or the queue; a waiting one takes a free slot.
Leaves(t, outcome) ==
    LET left  == [status EXCEPT ![t] = outcome]
        heirs == IF \E u \in Task : left[u] = "running" THEN {} ELSE {u \in Task : left[u] = "queued"}
    IN  /\ IF heirs = {} THEN status' = left ELSE \E h \in heirs : status' = [left EXCEPT ![h] = "running"]
        /\ UNCHANGED <<sent, request, window, poll, made, owed>>

FinishTask(t) == status[t] = "running" /\ Leaves(t, "ended")

\* It is blocked, or paused until a time that has not come yet.
SetTaskBack(t) == status[t] \in {"received", "queued", "running"} /\ \E o \in {"blocked", "paused"} : Leaves(t, o)

\* Its time comes: from now on a paused task is as recoverable as a blocked one.
ComesDue(t) ==
    /\ status[t] = "paused"
    /\ status' = [status EXCEPT ![t] = "blocked"]
    /\ UNCHANGED <<sent, request, window, poll, made, owed>>

-----------------------------------------------------------------------------
\* Registration: register_inbound_task.

NextMessage == sent < MaxMessages /\ sent' = sent + 1

PastDue(w) == w.state = "collecting" /\ w.due

\* Mutant: a status no reader of the window knows.
LoadedMisspelt(w) == IF PastDue(w) THEN [w EXCEPT !.state = "expired"] ELSE w

\* load_collecting_state: a window past due is closed on sight.
Loaded(w) == IF PastDue(w) THEN [w EXCEPT !.state = "expired-empty"] ELSE w

\* The task that has not started yet, as far as the latest tasks tell: a queued
\* one, or an observed one when the session's latest active task is not queued.
Prestart(s) ==
    LET queued == Here(s, {"queued"})
        others == IF Here(s, {"received"}) = {} THEN {NoTask} ELSE Here(s, {"received"})
    IN  queued \cup (IF queued = {} \/ Here(s, {"running"}) # {} THEN others ELSE {})

\* "Don't start yet": the window is opened, or opened again, and the task that
\* has not started is to wait for it.  What was buffered before is kept.
CollectMore(s) ==
    /\ NextMessage
    /\ \E t \in Prestart(s) :
          window' = [window EXCEPT ![s] = [NoWindow EXCEPT !.state = "collecting",
                                                           !.buffered = window[s].buffered,
                                                           !.existing = t]]
    /\ owed' = [owed EXCEPT ![s] = @ + 1]
    /\ UNCHANGED <<status, request, poll, made>>

\* Mutant: the newest message is put first.
BufferMessageInFront(s) ==
    /\ NextMessage
    /\ window[s].state = "collecting" /\ ~ window[s].due
    /\ window' = [window EXCEPT ![s].buffered = <<sent'>> \o @]
    /\ UNCHANGED <<status, request, poll, made, owed>>

\* A message while the window is open; it also extends the window.
BufferMessage(s) ==
    /\ NextMessage
    /\ window[s].state = "collecting" /\ ~ window[s].due
    /\ window' = [window EXCEPT ![s].buffered = Append(@, sent')]
    /\ UNCHANGED <<status, request, poll, made, owed>>

\* A message while no window is open becomes a task of its own.
RegisterMessage(s, t, start) ==
    /\ NextMessage
    /\ window[s].state = "collecting" => window[s].due
    /\ NewTask(s, t, <<sent'>>, start)
    /\ window' = [window EXCEPT ![s] = Loaded(@)]
    /\ UNCHANGED <<poll, made, owed>>

\* A message that resumes a task of its session; its text is a progress note.
ResumeRecoverable(s, t) ==
    /\ NextMessage
    /\ window[s].state = "collecting" => window[s].due
    /\ status[t] = "blocked" /\ SessionOf[t] = s
    /\ AsksForSlot(t)
    /\ window' = [window EXCEPT ![s] = Loaded(@)]
    /\ UNCHANGED <<request, poll, made, owed>>

\* A message that takes a stale observed task over; the old request is dropped.
TakeOverObserved(s, t, start) ==
    /\ NextMessage
    /\ window[s].state = "collecting" => window[s].due
    /\ status[t] = "received" /\ SessionOf[t] = s
    /\ IF start THEN AsksForSlot(t) ELSE UNCHANGED status
    /\ request' = [request EXCEPT ![t] = <<sent'>>]
    /\ window' = [window EXCEPT ![s] = Loaded(@)]
    /\ UNCHANGED <<poll, made, owed>>

\* A bare slash command: no task, but the window is loaded.
ControlCommand(s) ==
    /\ PastDue(window[s])
    /\ window' = [window EXCEPT ![s] = Loaded(@)]
    /\ UNCHANGED <<sent, status, request, poll, made, owed>>

FallsDue(s) ==
    /\ window[s].state = "collecting"
    /\ ~ window[s].due
    /\ window' = [window EXCEPT ![s].due = TRUE]
    /\ UNCHANGED <<sent, status, request, poll, made, owed>>

-----------------------------------------------------------------------------
\* The poll: claim-due-collecting-windows.

Idle == poll = {} /\ made = {}

HoldsNothing(w) == w.buffered = <<>> /\ w.existing = NoTask

\* What the claim of session s carries from the window as it was read.
ClaimOf(s) == [session |-> s, buffered |-> window[s].buffered, existing |-> window[s].existing]

\* Mutant: the claim is not saved, completion alone closes the window.
ClaimDueUnsaved ==
    /\ Idle
    /\ \E s \in Session : PastDue(window[s])
    /\ poll' = {ClaimOf(s) : s \in {x \in Session : PastDue(window[x]) /\ ~ HoldsNothing(window[x])}}
    /\ UNCHANGED <<sent, status, request, window, made, owed>>

\* Mutant: a window that holds nothing is passed over and left open.
ClaimDueSkipsEmpty ==
    /\ Idle
    /\ poll' = {ClaimOf(s) : s \in {x \in Session : PastDue(window[x]) /\ ~ HoldsNothing(window[x])}}
    /\ poll' # {}
    /\ window' = [s \in Session |-> IF PastDue(window[s]) /\ ~ HoldsNothing(window[s])
                                    THEN [window[s] EXCEPT !.state = "claimed"] ELSE window[s]]
    /\ UNCHANGED <<sent, status, request, made, owed>>

\* claim_due_collecting_windows.
ClaimDue ==
    /\ Idle
    /\ \E s \in Session : PastDue(window[s])
    /\ poll' = {ClaimOf(s) : s \in {x \in Session : PastDue(window[x]) /\ ~ HoldsNothing(window[x])}}
    /\ window' = [s \in Session |->
                     IF ~ PastDue(window[s]) THEN window[s]
                     ELSE [window[s] EXCEPT
                             !.state = IF HoldsNothing(window[s]) THEN "expired-empty" ELSE "claimed"]]
    /\ UNCHANGED <<sent, status, request, made, owed>>

StillWaits(c) == c.existing # NoTask /\ status[c.existing] \in {"received", "queued"}

Takes(c, t, reason) ==
    /\ made = {}
    /\ poll' = poll \ {c}
    /\ made' = {[session |-> c.session, task |-> t, reason |-> reason]}
    /\ owed' = [owed EXCEPT ![c.session] = IF t = NoTask THEN @ ELSE @ - 1]
    /\ UNCHANGED <<sent, window>>

\* The request is combined in memory; claim_execution_slot loads the record
\* again and saves it with the request it had.
MergeIntoExisting(c) ==
    /\ StillWaits(c)
    /\ AsksForSlot(c.existing)
    /\ Takes(c, c.existing, "collecting-window-merged-into-existing-task")
    /\ UNCHANGED request

MaterializeNewTask(c, t, start) ==
    /\ ~ StillWaits(c)
    /\ c.buffered # <<>>
    /\ NewTask(c.session, t, c.buffered, start)
    /\ Takes(c, t, "collecting-window-materialized-new-task")

\* Mutant: a claim with nothing to materialise is left as it is.
MaterializeNothingSkips(c) ==
    /\ ~ StillWaits(c)
    /\ c.buffered = <<>>
    /\ poll' = poll \ {c}
    /\ UNCHANGED <<sent, status, request, window, made, owed>>

MaterializeNothing(c) ==
    /\ ~ StillWaits(c)
    /\ c.buffered = <<>>
    /\ Takes(c, NoTask, "collecting-window-expired-empty")
    /\ UNCHANGED <<status, request>>

\* complete_collecting_window, on the window as it is by then.
CompleteWindow(m) ==
    /\ window' = [window EXCEPT ![m.session] = [@ EXCEPT !.state = "materialized",
                                                         !.task = m.task,
                                                         !.reason = m.reason]]
    /\ made' = {}
    /\ UNCHANGED <<sent, status, request, poll, owed>>

\* The hook process dies; the plugin only sees that it exited.
Crash ==
    /\ MayCrash
    /\ ~ Idle
    /\ poll' = {}
    /\ made' = {}
    /\ UNCHANGED <<sent, status, request, window, owed>>

PollStep ==
    \/ ClaimDue
    \/ \E c \in poll : \/ MergeIntoExisting(c)
                       \/ \E t \in Task, start \in BOOLEAN : MaterializeNewTask(c, t, start)
                       \/ MaterializeNothing(c)
    \/ \E m \in made : CompleteWindow(m)

Next ==
    \/ \E s \in Session : \/ CollectMore(s)
                          \/ BufferMessage(s)
                          \/ \E t \in Task, start \in BOOLEAN : RegisterMessage(s, t, start)
                          \/ \E t \in Task : ResumeRecoverable(s, t)
                          \/ \E t \in Task, start \in BOOLEAN : TakeOverObserved(s, t, start)
                          \/ ControlCommand(s)
                          \/ FallsDue(s)
    \/ \E t \in Task : ActivateLatest(t) \/ FinishTask(t) \/ SetTaskBack(t) \/ ComesDue(t)
    \/ PollStep
    \/ Crash

Spec == Init /\ [][Next]_vars

\* Time passes, and the plugin polls every continuationPollMs.
FairSpec == Spec /\ (\A s \in Session : WF_vars(FallsDue(s))) /\ WF_vars(PollStep)

-----------------------------------------------------------------------------
\* Properties.

TaskOrNone == Task \cup {NoTask}
Status     == {"unused", "received", "queued", "running", "blocked", "paused", "ended"}
Reason     == {"none", "collecting-window-merged-into-existing-task",
               "collecting-window-materialized-new-task", "collecting-window-expired-empty"}
Window     == [state : {"none", "collecting", "claimed", "materialized", "expired-empty"},
               due : BOOLEAN, buffered : Seq(Message),
               existing : TaskOrNone, task : TaskOrNone, reason : Reason]
Claim      == [session : Session, buffered : Seq(Message), existing : TaskOrNone]
Outcome    == [session : Session, task : TaskOrNone, reason : Reason]

\* Windows and tasks have the shape the code writes; a poll carries the windows
\* of different sessions and completes one at a time.
TypeOK ==
    /\ sent \in 0..MaxMessages
    /\ status \in [Task -> Status]
    /\ request \in [Task -> Seq(Message)]
    /\ window \in [Session -> Window]
    /\ poll \subseteq Claim
    /\ made \subseteq Outcome
    /\ owed \in [Session -> Int]
    /\ \A c, d \in poll : c.session = d.session => c = d
    /\ \A m, n \in made : m = n

Increasing(messages) ==
    \A i, j \in DOMAIN messages : i < j => messages[i] < messages[j]

\* The user's messages stay in the order they were sent, in the buffer and in
\* the request of every task, however many windows they went through.
MessagesStayInOrder ==
    /\ \A s \in Session : Increasing(window[s].buffered)
    /\ \A t \in Task : Increasing(request[t])

\* One opening of a window becomes one task at most, even when the poll dies
\* after it made the task and before it completed the window.
MaterializedOnce == \A s \in Session : owed[s] >= 0

\* No window stays open for ever once its user falls silent.
WindowCloses == \A s \in Session : (window[s].state = "collecting") ~> (window[s].state # "collecting")

\* What a poll has claimed it completes, unless it dies: neither a step of the
\* poll nor a registration that opens the window again takes a claim away.
Carried(s) == (\E c \in poll : c.session = s) \/ (\E m \in made : m.session = s)

ClaimIsHonoured ==
    [][\A s \in Session : Carried(s) => \/ Carried(s)'
                                         \/ window'[s].state = "materialized"
                                         \/ Crash]_vars

\* A window is materialised with all it buffered: when one is closed, no
\* message in it is missing from the tasks.
ClosedWindowLosesNothing ==
    \A s \in Session :
        window[s].state \in {"materialized", "expired-empty"} =>
            \A i \in DOMAIN window[s].buffered :
                \E t \in Task : Holds(request[t], window[s].buffered[i])

=============================================================================
