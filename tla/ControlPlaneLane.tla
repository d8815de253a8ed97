--------------------------- MODULE ControlPlaneLane ---------------------------
(***************************************************************************)
(* The control-plane messages of the plugin (index.ts): sendControlPlane-  *)
(* Message gives a message a token, waits for its log lines, appends it to *)
(* the lane of its chat (a chain of promises) and decides when its turn    *)
(* comes whether newer messages have made it worthless.  Around it, the    *)
(* senders: the acknowledgement of a message, the follow-up a timer sends  *)
(* for a short task, the commands of the user, the confirmation of a       *)
(* planned follow-up and the result agent_end reports.                     *)
(*                                                                         *)
(* JavaScript runs one step between two awaits; a step of this module is   *)
(* such a run, and a message's stage says which await it is in.            *)
(***************************************************************************)
EXTENDS Integers, Sequences

CONSTANTS
    Chat,           \* audiences; a session is one chat
    Task,           \* tasks, each of one message of the user
    Command,        \* "status", "tasks" and the like: messages about no task
    Planner,        \* the tasks whose agent plans a follow-up
    ChatOf,         \* the chat of a task or a command
    MaxMessages     \* bound on the messages sent

ASSUME ChatAssumption ==
    /\ Task \cap Command = {}
    /\ Planner \subseteq Task
    /\ ChatOf \in [Task \cup Command -> Chat]
    /\ MaxMessages \in Nat

Message ==
    [kind : {"ack", "followup", "finished"}, about : Task]
        \cup [kind : {"scheduled"}, about : Planner]
        \cup [kind : {"command"}, about : Command]

Msg(k, x)   == [kind |-> k, about |-> x]
Audience(m) == ChatOf[m.about]

VARIABLES
    task,           \* how far the run of a task is
    receipt,        \* tasks whose follow-up timer is armed (pendingReceipts)
    check,          \* the follow-up of a task whose timer fired
    stage,          \* where a message is
    token, nextToken,                       \* enqueue tokens, 0 for no call
    lane,           \* messages of a chat that wait for their turn, or have it
    latestPreempting, latestSupersedable,   \* tokens, by chat
    latestOfTask,                           \* tokens, by task
    terminal, pendingTerminal,              \* tasks with a terminal state
    seen            \* the newest token the users of a chat have received

runs   == <<task, receipt, check>>
marks  == <<latestPreempting, latestSupersedable, latestOfTask, terminal, pendingTerminal>>
vars   == <<runs, stage, token, nextToken, lane, marks, seen>>

Init ==
    /\ task = [t \in Task |-> "new"]
    /\ receipt = {}
    /\ check = [t \in Task |-> "none"]
    /\ stage = [m \in Message |-> "unsent"]
    /\ token = [m \in Message |-> 0]
    /\ nextToken = 1
    /\ lane = [c \in Chat |-> <<>>]
    /\ latestPreempting = [c \in Chat |-> 0]
    /\ latestSupersedable = [c \in Chat |-> 0]
    /\ latestOfTask = [t \in Task |-> 0]
    /\ terminal = {}
    /\ pendingTerminal = {}
    /\ seen = [c \in Chat |-> 0]

-----------------------------------------------------------------------------
\* Priorities.

\* p1-task-management, of a task: nothing else is to be said of it afterwards.
IsTerminal(m)     == m.kind \in {"scheduled", "finished"}
IsPreempting(m)   == m.kind \in {"ack", "command", "scheduled", "finished"}
IsSupersedable(m) == m.kind = "followup"

\* No await of the call is pending any more.
Over(m) == stage[m] \in {"unsent", "done", "dropped"}

-----------------------------------------------------------------------------
\* sendControlPlaneMessage, up to the lane.

\* Marks the newer messages that older ones are measured by.
Arm(m) ==
    /\ IF IsSupersedable(m)
       THEN /\ latestOfTask' = [latestOfTask EXCEPT ![m.about] = token'[m]]
            /\ latestSupersedable' = [latestSupersedable EXCEPT ![Audience(m)] = token'[m]]
       ELSE UNCHANGED <<latestOfTask, latestSupersedable>>
    /\ pendingTerminal' = IF IsTerminal(m) THEN pendingTerminal \cup {m.about} ELSE pendingTerminal
    /\ stage' = [stage EXCEPT ![m] = "logging"]

PendingIn(c) == {t \in receipt : ChatOf[t] = c}

\* A preempting message cancels the timers of its chat, one per log line.
Preempts(m, cancelled) ==
    IF IsPreempting(m) /\ PendingIn(Audience(m)) # {}
    THEN \E t \in PendingIn(Audience(m)) :
            /\ cancelled = {t}
            /\ stage' = [stage EXCEPT ![m] = "preempting"]
            /\ UNCHANGED <<latestOfTask, latestSupersedable, pendingTerminal>>
    ELSE cancelled = {} /\ Arm(m)

\* The call up to its first await, which cancels the receipts in "cancelled".
Enqueue(m, cancelled) ==
    /\ stage[m] = "unsent" /\ nextToken <= MaxMessages
    /\ IF ~ IsTerminal(m) /\ m.about \in terminal
       THEN /\ stage' = [stage EXCEPT ![m] = "dropped"]
            /\ cancelled = {}
            /\ UNCHANGED <<token, nextToken, latestPreempting, latestSupersedable,
                           latestOfTask, pendingTerminal>>
       ELSE /\ token' = [token EXCEPT ![m] = nextToken]
            /\ nextToken' = nextToken + 1
            /\ latestPreempting' = IF IsPreempting(m)
                                   THEN [latestPreempting EXCEPT ![Audience(m)] = nextToken]
                                   ELSE latestPreempting
            /\ Preempts(m, cancelled)
    /\ UNCHANGED <<lane, terminal, seen>>

\* After the log line of a cancelled timer: the next one, or the marks.
GoOnPreempting(m) ==
    /\ stage[m] = "preempting"
    /\ UNCHANGED <<token, nextToken, latestPreempting>>
    /\ \E cancelled \in {{}} \cup {{t} : t \in receipt} :
          Preempts(m, cancelled) /\ receipt' = receipt \ cancelled
    /\ UNCHANGED <<task, check, lane, terminal, seen>>

\* Mutant: the turn is not chained to the turns before it.
JoinLaneAlone(m) ==
    /\ stage[m] = "logging"
    /\ lane' = [lane EXCEPT ![Audience(m)] = <<m>>]
    /\ stage' = [stage EXCEPT ![m] = "waiting"]
    /\ UNCHANGED <<runs, token, nextToken, marks, seen>>

JoinLane(m) ==
    /\ stage[m] = "logging"
    /\ lane' = [lane EXCEPT ![Audience(m)] = Append(@, m)]
    /\ stage' = [stage EXCEPT ![m] = "waiting"]
    /\ UNCHANGED <<runs, token, nextToken, marks, seen>>

-----------------------------------------------------------------------------
\* Its turn in the lane.  A call that is over has no token any more.

HasTurn(m, s) == stage[m] = s /\ lane[Audience(m)] # <<>> /\ Head(lane[Audience(m)]) = m

\* Mutant: a follow-up is measured by the messages of its own task alone.
OutrankedInTask(m) ==
    \/ ~ IsTerminal(m) /\ m.about \in terminal
    \/ /\ IsSupersedable(m)
       /\ \/ m.about \in pendingTerminal
          \/ latestOfTask[m.about] # token[m]

\* Why a message is dropped when its turn comes.
Outranked(m) ==
    \/ ~ IsTerminal(m) /\ m.about \in terminal
    \/ /\ IsSupersedable(m)
       /\ \/ latestPreempting[Audience(m)] > token[m]
          \/ latestSupersedable[Audience(m)] # token[m]
          \/ m.about \in pendingTerminal
          \/ latestOfTask[m.about] # token[m]

Leaves(m) ==
    /\ lane' = [lane EXCEPT ![Audience(m)] = Tail(@)]
    /\ token' = [token EXCEPT ![m] = 0]

Drop(m) ==
    /\ HasTurn(m, "waiting")
    /\ Outranked(m)
    /\ stage' = [stage EXCEPT ![m] = "dropped"]
    /\ Leaves(m)
    /\ UNCHANGED <<runs, nextToken, marks, seen>>

Pass(m) ==
    /\ HasTurn(m, "waiting")
    /\ ~ Outranked(m)
    /\ stage' = [stage EXCEPT ![m] = "delivering"]
    /\ UNCHANGED <<runs, token, nextToken, lane, marks, seen>>

\* deliverControlPlaneMessage: the adapter sends it, or fails or times out,
\* which the caller is not told.
Deliver(m, ok) ==
    /\ HasTurn(m, "delivering")
    /\ seen' = IF ok /\ token[m] > seen[Audience(m)]
               THEN [seen EXCEPT ![Audience(m)] = token[m]] ELSE seen
    /\ stage' = [stage EXCEPT ![m] = "delivered"]
    /\ UNCHANGED <<runs, token, nextToken, lane, marks>>

\* Mutant: the mark of a pending terminal message is left to agent_end.
SettleUnmarked(m) ==
    /\ HasTurn(m, "delivered")
    /\ stage' = [stage EXCEPT ![m] = "done"]
    /\ terminal' = IF IsTerminal(m) THEN terminal \cup {m.about} ELSE terminal
    /\ Leaves(m)
    /\ UNCHANGED <<runs, nextToken, latestPreempting, latestSupersedable,
                   latestOfTask, pendingTerminal, seen>>

\* A terminal message is committed, sent or not; the mark of the pending one
\* goes after another log line.
Settle(m) ==
    \/ /\ HasTurn(m, "delivered") /\ IsTerminal(m)
       /\ terminal' = terminal \cup {m.about}
       /\ stage' = [stage EXCEPT ![m] = "committing"]
       /\ UNCHANGED <<lane, token, pendingTerminal>>
       /\ UNCHANGED <<runs, nextToken, latestPreempting, latestSupersedable, latestOfTask, seen>>
    \/ /\ HasTurn(m, IF IsTerminal(m) THEN "committing" ELSE "delivered")
       /\ pendingTerminal' = IF IsTerminal(m) THEN pendingTerminal \ {m.about} ELSE pendingTerminal
       /\ stage' = [stage EXCEPT ![m] = "done"]
       /\ Leaves(m)
       /\ UNCHANGED <<runs, nextToken, latestPreempting, latestSupersedable,
                      latestOfTask, terminal, seen>>

-----------------------------------------------------------------------------
\* The senders.

\* Sends m from a step that changes nothing else but "changed" receipts.
Sends(m) ==
    \E cancelled \in {{}} \cup {{t} : t \in receipt} :
        Enqueue(m, cancelled) /\ receipt' = receipt \ cancelled

\* before_dispatch registers a task and acknowledges it.
Acknowledge(t) ==
    /\ task[t] = "new"
    /\ task' = [task EXCEPT ![t] = "acked"]
    /\ Sends(Msg("ack", t))
    /\ UNCHANGED check

\* When the acknowledgement is through, the timer of a short task is armed;
\* a long one has none.  The agent runs from here on.
ArmReceipt(t, short) ==
    /\ task[t] = "acked" /\ Over(Msg("ack", t))
    /\ task' = [task EXCEPT ![t] = "running"]
    /\ receipt' = IF short THEN receipt \cup {t} ELSE receipt
    /\ UNCHANGED <<check, stage, token, nextToken, lane, marks, seen>>

TimerFires(t) ==
    /\ t \in receipt
    /\ receipt' = receipt \ {t}
    /\ check' = [check EXCEPT ![t] = "asked"]
    /\ UNCHANGED <<task, stage, token, nextToken, lane, marks, seen>>

\* should-send-short-followup reads the task in a process of its own.
HookReads(t) ==
    /\ check[t] = "asked"
    /\ check' = [check EXCEPT ![t] = IF task[t] \in {"running", "settling"} THEN "yes" ELSE "no"]
    /\ UNCHANGED <<task, receipt, stage, token, nextToken, lane, marks, seen>>

SendFollowup(t) ==
    /\ check[t] = "yes"
    /\ check' = [check EXCEPT ![t] = "no"]
    /\ Sends(Msg("followup", t))
    /\ UNCHANGED task

\* A command of the user.
SendCommand(c) ==
    /\ Sends(Msg("command", c))
    /\ UNCHANGED <<task, check>>

\* ts_finalize_planned_followup confirms the plan while the agent runs.
ConfirmSchedule(t) ==
    /\ task[t] = "running"
    /\ Sends(Msg("scheduled", t))
    /\ UNCHANGED <<task, check>>

\* The agent ends, not before its tool calls: the task is terminal for the
\* lane, and the timers of its session are cleared.
AgentEnd(t) ==
    /\ task[t] = "running"
    /\ t \in Planner => Over(Msg("scheduled", t))
    /\ task' = [task EXCEPT ![t] = "settling"]
    /\ terminal' = terminal \cup {t}
    /\ receipt' = receipt \ PendingIn(ChatOf[t])
    /\ UNCHANGED <<check, stage, token, nextToken, lane, latestPreempting,
                   latestSupersedable, latestOfTask, pendingTerminal, seen>>

\* finalize-active ends the task; a failure or a result nobody saw is reported.
Finalize(t, report) ==
    /\ task[t] = "settling"
    /\ task' = [task EXCEPT ![t] = "finalized"]
    /\ IF report THEN Sends(Msg("finished", t))
       ELSE UNCHANGED <<receipt, stage, token, nextToken, lane, marks, seen>>
    /\ UNCHANGED check

\* Mutant: the lane is never told that the task is over.
ForgetNothing(t) ==
    /\ task[t] = "finalized" /\ Over(Msg("finished", t))
    /\ task' = [task EXCEPT ![t] = "ended"]
    /\ UNCHANGED <<receipt, check, stage, token, nextToken, lane, marks, seen>>

\* agent_end is through: the lane forgets the task.
Forget(t) ==
    /\ task[t] = "finalized" /\ Over(Msg("finished", t))
    /\ task' = [task EXCEPT ![t] = "ended"]
    /\ terminal' = terminal \ {t}
    /\ UNCHANGED <<receipt, check, stage, token, nextToken, lane, latestPreempting,
                   latestSupersedable, latestOfTask, pendingTerminal, seen>>

\* llm_output found the task finalized by a progress hook: everything of the
\* session is cleared at once.
ClearSessionTaskArtifacts(t) ==
    /\ task[t] = "running"
    /\ t \in Planner => Over(Msg("scheduled", t))
    /\ task' = [task EXCEPT ![t] = "ended"]
    /\ terminal' = terminal \ {t}
    /\ pendingTerminal' = pendingTerminal \ {t}
    /\ latestOfTask' = [latestOfTask EXCEPT ![t] = 0]
    /\ receipt' = receipt \ PendingIn(ChatOf[t])
    /\ UNCHANGED <<check, stage, token, nextToken, lane, latestPreempting, latestSupersedable, seen>>

-----------------------------------------------------------------------------
LaneStep(m) ==
    \/ GoOnPreempting(m) \/ JoinLane(m)
    \/ Drop(m) \/ Pass(m) \/ Settle(m)
    \/ \E ok \in BOOLEAN : Deliver(m, ok)

Sender ==
    \/ \E t \in Task :
          \/ Acknowledge(t)
          \/ \E short \in BOOLEAN : ArmReceipt(t, short)
          \/ TimerFires(t) \/ HookReads(t) \/ SendFollowup(t)
          \/ AgentEnd(t) \/ Forget(t) \/ ClearSessionTaskArtifacts(t)
          \/ \E report \in BOOLEAN : Finalize(t, report)
    \/ \E t \in Planner : ConfirmSchedule(t)
    \/ \E c \in Command : SendCommand(c)

Next == Sender \/ \E m \in Message : LaneStep(m)

Spec == Init /\ [][Next]_vars

-----------------------------------------------------------------------------
\* Properties.

Stage == {"unsent", "preempting", "logging", "waiting", "delivering", "delivered",
          "committing", "done", "dropped"}
Token == Nat

\* Every variable has the shape the plugin gives it, and a lane holds the
\* messages that are past their log lines, each once: none waits for its turn
\* behind a message whose own turn is over.
TypeOK ==
    /\ task \in [Task -> {"new", "acked", "running", "settling", "finalized", "ended"}]
    /\ receipt \subseteq Task
    /\ check \in [Task -> {"none", "asked", "yes", "no"}]
    /\ stage \in [Message -> Stage]
    /\ token \in [Message -> Token] /\ nextToken \in Token
    /\ lane \in [Chat -> Seq(Message)] /\ seen \in [Chat -> Token]
    /\ latestPreempting \in [Chat -> Token] /\ latestSupersedable \in [Chat -> Token]
    /\ latestOfTask \in [Task -> Token]
    /\ terminal \subseteq Task /\ pendingTerminal \subseteq Task
    /\ \A m \in Message :
          stage[m] \in {"waiting", "delivering", "delivered", "committing"}
             <=> \E i \in DOMAIN lane[Audience(m)] : lane[Audience(m)][i] = m
    /\ \A c \in Chat : \A i, j \in DOMAIN lane[c] : lane[c][i] = lane[c][j] => i = j

\* What a user reads as progress is the newest thing said in the chat: no
\* follow-up arrives after a message that was sent later than it.
FollowupIsNewest ==
    [][\A m \in Message :
          Deliver(m, TRUE) /\ IsSupersedable(m) => seen[Audience(m)] < token[m]]_vars

\* A task marked as having a terminal message on its way has one: the mark
\* would silence its follow-ups for ever otherwise.
PendingTerminalIsOnItsWay ==
    \A t \in pendingTerminal :
        \E m \in Message : m.about = t /\ IsTerminal(m) /\ ~ Over(m)

\* A task the lane keeps silent is one whose agent is at work or settling.
SilencedTaskIsLive ==
    \A t \in terminal : task[t] \in {"running", "settling", "finalized"}

\* The lane drops the follow-up of a short task that has reached its terminal
\* state before the follow-up's turn.
FollowupDroppedAfterTerminal ==
    [][\A t \in Task : task[t] \in {"finalized", "ended"} =>
          ~ Pass(Msg("followup", t))]_vars

=============================================================================
