---------------------- MODULE SameSessionRoutingProofs ----------------------
(***************************************************************************)
(* Routing decides which outcome of a registration a message has and adds  *)
(* none: what is proved of CollectingWindow holds with it, whatever the    *)
(* users send and however a classifier answers; and those who are to wait  *)
(* are told so, and nobody else.                                           *)
(***************************************************************************)
EXTENDS SameSessionRouting, CollectingWindowProofs

\* The latest task of a session is a task, if there is one.
LEMMA LatestIsTask ==
    ASSUME NEW s \in Session, NEW S, NEW t \in Latest(s, S), t # NoTask
    PROVE  t \in Task
BY DEF Latest, Here, InStatus

\* Whatever text a message has and whatever it finds, registering it is one of
\* the registrations of the window.
LEMMA RegistersOneWay ==
    ASSUME NEW s \in Session, NEW x \in Text, NEW c \in Context(s), NEW start \in BOOLEAN,
           register_inbound_task(s, x, c, start)
    PROVE  Next
<1>1. c.recoverable # NoTask => c.recoverable \in Task
    BY LatestIsTask DEF Context
<1>2. c.observed # NoTask => c.observed \in Task
    BY LatestIsTask DEF Context
<1>3. CASE AsksToWait(x, c)
    BY <1>3 DEF register_inbound_task, Next
<1>4. CASE ~ AsksToWait(x, c) /\ ("slash" \in x \/ WindowOpen(s))
    BY <1>4 DEF register_inbound_task, Next
<1>5. CASE ~ AsksToWait(x, c) /\ "slash" \notin x /\ ~ WindowOpen(s) /\ Resumes(c)
    BY <1>1, <1>5 DEF register_inbound_task, Resumes, Next
<1>6. CASE ~ AsksToWait(x, c) /\ "slash" \notin x /\ ~ WindowOpen(s) /\ ~ Resumes(c) /\ TakesOver(c)
    BY <1>2, <1>6 DEF register_inbound_task, TakesOver, Next
<1>7. CASE ~ AsksToWait(x, c) /\ "slash" \notin x /\ ~ WindowOpen(s) /\ ~ Resumes(c) /\ ~ TakesOver(c)
    BY <1>7 DEF register_inbound_task, Next
<1> QED
    BY <1>3, <1>4, <1>5, <1>6, <1>7

\* A behaviour with routing is a behaviour of the collecting windows.
THEOREM RoutingOnlyChooses == RoutedSpec => Spec
<1>1. RoutedNext => Next
  <2> SUFFICES ASSUME RoutedNext PROVE Next
      OBVIOUS
  <2>1. CASE \E s \in Session, x \in Text, start \in BOOLEAN :
                \E c \in Context(s) : register_inbound_task(s, x, c, start)
      BY <2>1, RegistersOneWay
  <2>2. CASE \E s \in Session : FallsDue(s)
      BY <2>2 DEF Next
  <2>3. CASE \E t \in Task : ActivateLatest(t) \/ FinishTask(t) \/ SetTaskBack(t) \/ ComesDue(t)
      BY <2>3 DEF Next
  <2>4. CASE PollStep \/ Crash
      BY <2>4 DEF Next
  <2> QED
      BY <2>1, <2>2, <2>3, <2>4 DEF RoutedNext
<1>2. [RoutedNext]_vars => [Next]_vars
    BY <1>1
<1> QED
    BY <1>2, PTL DEF RoutedSpec, Spec

\* With routing too, one opening of a window becomes one task at most.
THEOREM RoutedOpeningsMaterializeOnce == RoutedSpec => []MaterializedOnce
BY RoutingOnlyChooses, OpeningsMaterializeOnce, PTL

\* With routing too, the messages of a session stay in their order.
THEOREM RoutedMessagesKeepOrder == RoutedSpec => []MessagesStayInOrder
BY RoutingOnlyChooses, MessagesKeepOrder, PTL

\* With routing too, a poll completes what it has claimed.
THEOREM RoutedClaimsAreHonoured == RoutedSpec => ClaimIsHonoured
BY RoutingOnlyChooses, ClaimsAreHonoured, PTL

-----------------------------------------------------------------------------
\* Who is told to wait.

\* A text without words of control that is not to be registered as a command is
\* said to wait when a window holds it, ...
LEMMA HeldIsAnnounced ==
    ASSUME NEW x \in Plain, NEW c, NEW reason, reason # "control-command", NEW answer
    PROVE  Decision(x, c, TRUE, FALSE, reason, answer) = "enter-collecting-window"
BY DEF Decision, Plain

\* ... and otherwise when it asks for one.
LEMMA AskingIsAnnounced ==
    ASSUME NEW x \in Plain, NEW c, NEW reason, NEW answer
    PROVE  Decision(x, c, FALSE, TRUE, reason, answer) = "enter-collecting-window"
               <=> "collect" \in x
BY DEF Decision, Plain, Steering

\* Opening a window and keeping a message in it makes the message wait.
LEMMA CollectingWaits ==
    ASSUME TypeOK, NEW s \in Session, CollectMore(s) \/ BufferMessage(s)
    PROVE  Waits(s)
<1>1. /\ owed \in [Session -> Int] /\ window[s].buffered \in Seq(Message)
      /\ window \in [Session -> Window]
    BY DEF TypeOK, Window
<1>2. CASE CollectMore(s)
  <2>1. owed'[s] = owed[s] + 1 /\ owed[s] \in Int
      BY <1>1, <1>2 DEF CollectMore
  <2> QED
      BY <2>1 DEF Waits
<1>3. CASE BufferMessage(s)
  <2>1. window'[s].buffered = Append(window[s].buffered, sent')
      BY <1>1, <1>3 DEF BufferMessage, Window
  <2>2. Len(Append(window[s].buffered, sent')) = Len(window[s].buffered) + 1
        /\ Len(window[s].buffered) \in Nat
    <3>1. sent' \in Message
        BY <1>3, NextMessageType DEF BufferMessage
    <3> QED
        BY <1>1, <3>1
  <2> QED
      BY <2>1, <2>2 DEF Waits
<1> QED
    BY <1>2, <1>3

\* No other registration does.
LEMMA LoadedDoesNotWait ==
    ASSUME TypeOK, NEW s \in Session, window' = [window EXCEPT ![s] = Loaded(@)], owed' = owed
    PROVE  ~ Waits(s)
<1>1. /\ owed[s] \in Int /\ window[s] \in Window /\ Len(window[s].buffered) \in Nat
      /\ window'[s] = Loaded(window[s])
    BY DEF TypeOK, Window
<1>2. window'[s].buffered = window[s].buffered
    BY <1>1, LoadedType
<1> QED
    BY <1>1, <1>2 DEF Waits

\* The user is told to go on exactly when the message opened the session's window
\* or is kept in it: the probe that decides whether it waits and the decision of
\* the receipt agree, though they are given other contexts and other reasons.
THEOREM WaitingIsAlwaysAnnounced == RoutedSpec => WaitingIsAnnounced
<1>1. ASSUME TypeOK, sent' # sent, NEW s \in Session, NEW x \in Plain, NEW c \in Context(s),
             NEW start \in BOOLEAN, register_inbound_task(s, x, c, start)
      PROVE  (Receipt(s, x, c, "unsure") = "enter-collecting-window") <=> Waits(s)
  <2>1. "slash" \notin x /\ x \in Text
      BY TextAssumption DEF Plain
  <2>2. AsksToWait(x, c) <=> "collect" \in x
      BY AskingIsAnnounced DEF AsksToWait
  <2>3. CASE AsksToWait(x, c)
    <3>1. Waits(s)
        BY <1>1, <2>3, CollectingWaits DEF register_inbound_task
    <3>2. Receipt(s, x, c, "unsure") = "enter-collecting-window"
        BY <2>3, HeldIsAnnounced DEF Receipt
    <3> QED
        BY <3>1, <3>2
  <2>4. CASE ~ AsksToWait(x, c) /\ WindowOpen(s)
    <3>1. Waits(s)
        BY <1>1, <2>1, <2>4, CollectingWaits DEF register_inbound_task
    <3>2. Receipt(s, x, c, "unsure") = "enter-collecting-window"
        BY <2>1, <2>4, HeldIsAnnounced DEF Receipt
    <3> QED
        BY <3>1, <3>2
  <2>5. CASE ~ AsksToWait(x, c) /\ ~ WindowOpen(s)
    <3>1. window' = [window EXCEPT ![s] = Loaded(@)] /\ owed' = owed
        BY <1>1, <2>1, <2>5
        DEF register_inbound_task, ResumeRecoverable, TakeOverObserved, RegisterMessage
    <3>2. ~ Waits(s)
        BY <1>1, <3>1, LoadedDoesNotWait
    <3>3. Receipt(s, x, c, "unsure") # "enter-collecting-window"
        BY <2>1, <2>2, <2>5, AskingIsAnnounced DEF Receipt
    <3> QED
        BY <3>2, <3>3
  <2> QED
      BY <2>3, <2>4, <2>5
<1> DEFINE Announced ==
        sent' # sent =>
            \A s \in Session, x \in Plain : \A c \in Context(s) :
                (Receipt(s, x, c, "unsure") = "enter-collecting-window") # Waits(s)
                => \A start \in BOOLEAN : ~ register_inbound_task(s, x, c, start)
<1>2. TypeOK => [Announced]_vars
  <2>1. ASSUME NEW s \in Session, NEW x \in Plain, NEW c \in Context(s), NEW start \in BOOLEAN,
               TypeOK, sent' # sent, register_inbound_task(s, x, c, start)
        PROVE  ~ ((Receipt(s, x, c, "unsure") = "enter-collecting-window") # Waits(s))
    <3>1. (Receipt(s, x, c, "unsure") = "enter-collecting-window") <=> Waits(s)
        BY <1>1, <2>1
    <3>2. Waits(s) \in BOOLEAN
        BY DEF Waits
    <3> QED
        BY <3>1, <3>2
  <2> QED
      BY <2>1
<1>3. RoutedSpec => []TypeOK
    BY RoutingOnlyChooses, WindowTypeCorrect, PTL
<1> QED
    BY <1>2, <1>3, PTL DEF WaitingIsAnnounced

=============================================================================
