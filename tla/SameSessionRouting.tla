------------------------- MODULE SameSessionRouting -------------------------
(***************************************************************************)
(* What becomes of a message of a session that may already have tasks      *)
(* (scripts/runtime/same_session_routing.py and register_inbound_task):    *)
(* the decision the runtime takes, the receipt that tells the user of it,  *)
(* and what registration does.  A decision is made for the receipt;        *)
(* registration asks for one only to see whether a window is to be opened. *)
(*                                                                         *)
(* A text is the set of the signals found in it; a classifier, if there is *)
(* one, gives any answer.                                                  *)
(***************************************************************************)
EXTENDS CollectingWindow

CONSTANT Text       \* the texts users send

Signal == {"slash", "control", "probe", "collect", "independent", "explicit", "refinement"}
Answer == {"steering", "queueing", "unsure"}

ASSUME TextAssumption ==
    /\ Text \subseteq SUBSET Signal
    /\ \A x \in Text : "slash" \in x => "control" \in x

ACTIVE_STATUSES      == {"queued", "running"}
OBSERVED_STATUSES    == {"received"}
RECOVERABLE_STATUSES == {"blocked", "paused"}

\* The latest task of a session in one of the statuses: it may be any of them.
Latest(s, S) == IF Here(s, S) = {} THEN {NoTask} ELSE Here(s, S)

\* What a message finds; an observed task is stale when somebody is to review
\* it or its request was a mere greeting.
Context(s) == [active : Latest(s, ACTIVE_STATUSES), recoverable : Latest(s, RECOVERABLE_STATUSES),
               observed : Latest(s, OBSERVED_STATUSES), stale : BOOLEAN]

TakesOver(c) == c.active = NoTask /\ c.recoverable = NoTask /\ c.observed # NoTask /\ c.stale

-----------------------------------------------------------------------------
\* The decision: build_same_session_routing_decision.

\* The stage of the task decides what is done with an addition to it.
Steering(t) ==
    CASE status[t] \in {"received", "queued"} -> "merge-before-start"
      [] status[t] = "running"                -> "interrupt-and-restart"
      [] OTHER                                -> "append-as-next-step"

\* The task a message is about, should it be registered.
About(c, registers) ==
    IF c.active # NoTask THEN c.active
    ELSE IF c.recoverable # NoTask THEN c.recoverable
    ELSE IF registers /\ TakesOver(c) THEN c.observed
    ELSE NoTask

\* The rules in the order they are tried; "none" is a case that is recorded
\* only, and leaves the user without a receipt.
Decision(x, c, collecting, registers, reason, answer) ==
    LET t == About(c, registers)
    IN  IF ~ registers /\ reason = "control-command"       THEN "handle-as-control-plane"
        ELSE IF t # NoTask /\ x \cap {"control", "probe"} # {} THEN "handle-as-control-plane"
        ELSE IF collecting /\ reason # "control-command"   THEN "enter-collecting-window"
        ELSE IF "collect" \in x                            THEN "enter-collecting-window"
        ELSE IF registers /\ TakesOver(c)                  THEN "merge-before-start"
        ELSE IF t = NoTask \/ "independent" \in x          THEN "queue-as-new-task"
        ELSE IF "explicit" \in x                           THEN Steering(t)
        ELSE IF reason = "resume-blocked-task"             THEN "none"
        ELSE IF "refinement" \in x \/ answer = "steering"  THEN Steering(t)
        ELSE IF answer = "queueing"                        THEN "queue-as-new-task"
        ELSE IF status[t] \in {"received", "queued"}       THEN "merge-before-start"
        ELSE "queue-as-new-task"

-----------------------------------------------------------------------------
\* Registration: register_inbound_task on a text and what the session has.

ReasonOf(x) == IF "slash" \in x THEN "control-command" ELSE "task"

\* The probe: whether the text, taken as one to register, asks to wait.
AsksToWait(x, c) == Decision(x, c, FALSE, TRUE, ReasonOf(x), "unsure") = "enter-collecting-window"

WindowOpen(s) == window[s].state = "collecting" /\ ~ window[s].due

\* A recoverable task is resumed unless its time has not come.
Resumes(c) == c.recoverable # NoTask /\ status[c.recoverable] = "blocked"

\* A follow-up that is not due is forgotten between the probe and the decision.
Awake(c) == IF Resumes(c) THEN c ELSE [c EXCEPT !.recoverable = NoTask]

register_inbound_task(s, x, c, start) ==
    IF AsksToWait(x, c) THEN CollectMore(s)
    ELSE IF "slash" \in x THEN ControlCommand(s)
    ELSE IF WindowOpen(s) THEN BufferMessage(s)
    ELSE IF Resumes(c) THEN ResumeRecoverable(s, c.recoverable)
    ELSE IF TakesOver(c) THEN TakeOverObserved(s, c.observed, start)
    ELSE \E t \in Task : RegisterMessage(s, t, start)

\* Mutant: a message that was buffered is told of like any other.
ReceiptUnbuffered(s, x, c, answer) ==
    IF AsksToWait(x, c) THEN Decision(x, c, TRUE, FALSE, "collecting-window-activated", answer)
    ELSE Decision(x, Awake(c), FALSE, "slash" \notin x, ReasonOf(x), answer)

\* The decision the user is told of.
Receipt(s, x, c, answer) ==
    IF AsksToWait(x, c) THEN Decision(x, c, TRUE, FALSE, "collecting-window-activated", answer)
    ELSE IF "slash" \in x THEN Decision(x, c, WindowOpen(s), FALSE, "control-command", answer)
    ELSE IF WindowOpen(s) THEN Decision(x, c, TRUE, FALSE, "collecting-window-buffered", answer)
    ELSE IF Resumes(c) THEN Decision(x, c, FALSE, TRUE, "resume-blocked-task", answer)
    ELSE Decision(x, Awake(c), FALSE, TRUE, "task", answer)

RoutedNext ==
    \/ \E s \in Session : \/ \E x \in Text, c \in Context(s), start \in BOOLEAN :
                                register_inbound_task(s, x, c, start)
                          \/ FallsDue(s)
    \/ \E t \in Task : ActivateLatest(t) \/ FinishTask(t) \/ SetTaskBack(t) \/ ComesDue(t)
    \/ PollStep
    \/ Crash

RoutedSpec == Init /\ [][RoutedNext]_vars

RoutedFairSpec == RoutedSpec /\ (\A s \in Session : WF_vars(FallsDue(s))) /\ WF_vars(PollStep)

-----------------------------------------------------------------------------
\* Properties.

Plain == {x \in Text : x \cap {"control", "probe"} = {}}

\* The step puts a message into the window of s, or opens it.
Waits(s) == Len(window'[s].buffered) > Len(window[s].buffered) \/ owed'[s] > owed[s]

\* The user is told to go on exactly when the message opened the session's
\* window or is kept in it: no registration that would tell anything else took
\* this step.  Words of control are the exception: they are buffered like any
\* others and announced as understood, and next to a follow-up whose time has
\* not come a question that also asks to wait becomes a task.  A classifier has
\* no say in it.
WaitingIsAnnounced ==
    [][sent' # sent =>
         \A s \in Session, x \in Plain : \A c \in Context(s) :
             (Receipt(s, x, c, "unsure") = "enter-collecting-window") # Waits(s)
             => \A start \in BOOLEAN : ~ register_inbound_task(s, x, c, start)]_vars

\* What a receipt says the system did, it did: a message becomes a task of its
\* own exactly when its user is told so, and not when it is said to be merged
\* into another task, to have restarted it or to be a matter of control.
Starts == {t \in Task : status[t] = "unused" /\ status'[t] # "unused"}

ReceiptTellsTheTruth ==
    [][sent' # sent =>
         \A s \in Session, x \in Text, answer \in Answer : \A c \in Context(s) :
             /\ Receipt(s, x, c, answer) # "none"
             /\ (Receipt(s, x, c, answer) = "queue-as-new-task") # (Starts # {})
             => \A start \in BOOLEAN : ~ register_inbound_task(s, x, c, start)]_vars

=============================================================================
