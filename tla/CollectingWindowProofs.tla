----------------------- MODULE CollectingWindowProofs -----------------------
(***************************************************************************)
(* Proofs about CollectingWindow for any sessions, tasks and number of     *)
(* messages, with or without crashes of the poll.                          *)
(***************************************************************************)
EXTENDS CollectingWindow, TLAPS

\* What the operators on tasks return.
LEMMA NewTaskType ==
    ASSUME TypeOK, NEW s \in Session, NEW t \in Task, NEW start \in BOOLEAN,
           NEW messages \in Seq(Message), NewTask(s, t, messages, start)
    PROVE  status' \in [Task -> Status] /\ request' \in [Task -> Seq(Message)]
BY DEF TypeOK, NewTask, SlotStatus, Status

LEMMA AsksForSlotType ==
    ASSUME TypeOK, NEW t \in Task, AsksForSlot(t)
    PROVE  status' \in [Task -> Status]
BY DEF TypeOK, AsksForSlot, SlotStatus, Status

\* Whatever becomes of a task that leaves the slot, and whoever takes it.
LEMMA LeavesType ==
    ASSUME TypeOK, NEW t \in Task, NEW outcome \in Status, Leaves(t, outcome)
    PROVE  /\ status' \in [Task -> Status]
           /\ UNCHANGED <<sent, request, window, poll, made, owed>>
<1> DEFINE left == [status EXCEPT ![t] = outcome]
<1>1. left \in [Task -> Status] /\ \A h \in Task : [left EXCEPT ![h] = "running"] \in [Task -> Status]
    BY DEF TypeOK, Status
<1>2. status' = left \/ \E h \in Task : status' = [left EXCEPT ![h] = "running"]
    BY DEF Leaves
<1> QED
    BY <1>1, <1>2 DEF Leaves

\* Finishing a task or setting it back touches no window and no message.
LEMMA OnlyStatus ==
    ASSUME TypeOK, NEW t \in Task,
           ActivateLatest(t) \/ FinishTask(t) \/ SetTaskBack(t) \/ ComesDue(t)
    PROVE  /\ status' \in [Task -> Status]
           /\ UNCHANGED <<sent, request, window, poll, made, owed>>
<1>1. CASE ActivateLatest(t)
    BY <1>1, AsksForSlotType DEF ActivateLatest
<1>2. CASE FinishTask(t)
    BY <1>2, LeavesType DEF FinishTask, Status
<1>3. CASE SetTaskBack(t)
  <2>1. PICK o \in {"blocked", "paused"} : Leaves(t, o)
      BY <1>3 DEF SetTaskBack
  <2> QED
      BY <2>1, LeavesType DEF Status
<1>4. CASE ComesDue(t)
    BY <1>4 DEF ComesDue, TypeOK, Status
<1> QED
    BY <1>1, <1>2, <1>3, <1>4

\* load_collecting_state returns a window.
LEMMA LoadedType ==
    ASSUME NEW w \in Window
    PROVE  Loaded(w) \in Window /\ Loaded(w).buffered = w.buffered
BY DEF Loaded, Window

\* The next message is one of the messages.
LEMMA NextMessageType ==
    ASSUME TypeOK, NextMessage
    PROVE  sent' \in 0..MaxMessages /\ sent' \in Message
BY BoundAssumption DEF TypeOK, NextMessage, Message

\* Replacing what a window holds leaves it a window.
LEMMA BufferedType ==
    ASSUME NEW w \in Window, NEW messages \in Seq(Message)
    PROVE  [w EXCEPT !.buffered = messages] \in Window
BY DEF Window

\* A window that is opened carries what was buffered before.
LEMMA OpenedType ==
    ASSUME TypeOK, NEW s \in Session, NEW t \in TaskOrNone
    PROVE  [NoWindow EXCEPT !.state = "collecting",
                            !.buffered = window[s].buffered,
                            !.existing = t] \in Window
BY DEF TypeOK, NoWindow, Window, TaskOrNone, Reason

LEMMA PrestartType ==
    ASSUME NEW s \in Session
    PROVE  Prestart(s) \subseteq TaskOrNone
BY DEF Prestart, Here, InStatus, TaskOrNone

\* What a poll takes from its claims.
LEMMA TakesType ==
    ASSUME TypeOK, NEW c \in poll, NEW t \in TaskOrNone, NEW reason \in Reason,
           Takes(c, t, reason)
    PROVE  /\ sent' = sent /\ window' = window
           /\ poll' \subseteq poll /\ poll' \subseteq Claim
           /\ made' \subseteq Outcome /\ \A m, n \in made' : m = n
           /\ owed' \in [Session -> Int]
           /\ \A d, e \in poll' : d.session = e.session => d = e
<1>1. c.session \in Session
    BY DEF TypeOK, Claim
<1>2. owed' \in [Session -> Int]
    BY <1>1 DEF TypeOK, Takes
<1>3. made' \subseteq Outcome /\ \A m, n \in made' : m = n
    BY <1>1 DEF Takes, Outcome
<1> QED
    BY <1>2, <1>3 DEF TypeOK, Takes

\* Claiming the due windows yields one claim for each of their sessions.
LEMMA ClaimDueType ==
    ASSUME TypeOK, ClaimDue
    PROVE  TypeOK'
<1> DEFINE Due == {x \in Session : PastDue(window[x]) /\ ~ HoldsNothing(window[x])}
<1>1. poll' = {ClaimOf(s) : s \in Due}
    BY DEF ClaimDue
<1>2. \A s \in Session : ClaimOf(s) \in Claim /\ ClaimOf(s).session = s
    BY DEF TypeOK, ClaimOf, Claim, Window
<1>3. poll' \subseteq Claim /\ \A c, d \in poll' : c.session = d.session => c = d
    BY <1>1, <1>2
<1>4. window' \in [Session -> Window]
  <2>1. \A s \in Session : [window[s] EXCEPT !.state = IF HoldsNothing(window[s])
                                             THEN "expired-empty" ELSE "claimed"] \in Window
      BY DEF TypeOK, Window
  <2> QED
      BY <2>1 DEF ClaimDue, TypeOK
<1> QED
    BY <1>3, <1>4 DEF TypeOK, ClaimDue

\* Windows, tasks and claims always have the shape the code writes, and two
\* claims of a poll are never for the same session.
THEOREM WindowTypeCorrect == Spec => []TypeOK
<1>1. Init => TypeOK
    BY BoundAssumption DEF Init, TypeOK, NoWindow, Window, Status, TaskOrNone, Reason
<1>2. TypeOK /\ [Next]_vars => TypeOK'
  <2> SUFFICES ASSUME TypeOK, [Next]_vars PROVE TypeOK'
      OBVIOUS
  <2>1. ASSUME NEW s \in Session, CollectMore(s) PROVE TypeOK'
    <3>1. PICK t \in Prestart(s) :
                   window' = [window EXCEPT ![s] = [NoWindow EXCEPT !.state = "collecting",
                                                               !.buffered = window[s].buffered,
                                                               !.existing = t]]
        BY <2>1 DEF CollectMore
    <3>2. window' \in [Session -> Window]
        BY <3>1, OpenedType, PrestartType DEF TypeOK
    <3>3. sent' \in 0..MaxMessages
        BY <2>1, NextMessageType DEF CollectMore
    <3> QED
        BY <2>1, <3>2, <3>3 DEF TypeOK, CollectMore
  <2>2. ASSUME NEW s \in Session, BufferMessage(s) PROVE TypeOK'
    <3>1. sent' \in 0..MaxMessages /\ sent' \in Message
        BY <2>2, NextMessageType DEF BufferMessage
    <3>2. window[s] \in Window /\ window[s].buffered \in Seq(Message)
        BY DEF TypeOK, Window
    <3>3. Append(window[s].buffered, sent') \in Seq(Message)
        BY <3>1, <3>2
    <3>4. [window[s] EXCEPT !.buffered = Append(@, sent')] \in Window
        BY <3>2, <3>3, BufferedType
    <3> QED
        BY <2>2, <3>1, <3>4 DEF TypeOK, BufferMessage
  <2>3. ASSUME NEW s \in Session, NEW t \in Task, NEW start \in BOOLEAN,
               RegisterMessage(s, t, start)
        PROVE  TypeOK'
    <3>1. sent' \in 0..MaxMessages /\ <<sent'>> \in Seq(Message)
        BY <2>3, NextMessageType DEF RegisterMessage
    <3>2. status' \in [Task -> Status] /\ request' \in [Task -> Seq(Message)]
        BY <2>3, <3>1, NewTaskType DEF RegisterMessage
    <3>3. window' \in [Session -> Window]
        BY <2>3, LoadedType DEF RegisterMessage, TypeOK
    <3> QED
        BY <2>3, <3>1, <3>2, <3>3 DEF TypeOK, RegisterMessage
  <2>4. ASSUME NEW s \in Session, NEW t \in Task, ResumeRecoverable(s, t)
         PROVE  TypeOK'
    <3>1. sent' \in 0..MaxMessages /\ status' \in [Task -> Status]
        BY <2>4, NextMessageType, AsksForSlotType DEF ResumeRecoverable
    <3>2. window' \in [Session -> Window]
        BY <2>4, LoadedType DEF ResumeRecoverable, TypeOK
    <3> QED
        BY <2>4, <3>1, <3>2 DEF TypeOK, ResumeRecoverable
  <2>5. ASSUME NEW s \in Session, NEW t \in Task, NEW start \in BOOLEAN,
                TakeOverObserved(s, t, start)
         PROVE  TypeOK'
    <3>1. sent' \in 0..MaxMessages /\ <<sent'>> \in Seq(Message)
        BY <2>5, NextMessageType DEF TakeOverObserved
    <3>2. status' \in [Task -> Status]
        BY <2>5, AsksForSlotType DEF TakeOverObserved, TypeOK
    <3>3. request' \in [Task -> Seq(Message)]
        BY <2>5, <3>1 DEF TakeOverObserved, TypeOK
    <3>4. window' \in [Session -> Window]
        BY <2>5, LoadedType DEF TakeOverObserved, TypeOK
    <3> QED
        BY <2>5, <3>1, <3>2, <3>3, <3>4 DEF TypeOK, TakeOverObserved
  <2>6. ASSUME NEW s \in Session, ControlCommand(s) PROVE TypeOK'
    <3>1. window' \in [Session -> Window]
        BY <2>6, LoadedType DEF ControlCommand, TypeOK
    <3> QED
        BY <2>6, <3>1 DEF TypeOK, ControlCommand
  <2>7. ASSUME NEW s \in Session, FallsDue(s) PROVE TypeOK'
    <3>1. window' \in [Session -> Window]
        BY <2>7, ZenonT(30) DEF FallsDue, TypeOK, Window
    <3> QED
        BY <2>7, <3>1 DEF TypeOK, FallsDue
  <2>8. ASSUME NEW t \in Task,
               ActivateLatest(t) \/ FinishTask(t) \/ SetTaskBack(t) \/ ComesDue(t)
        PROVE  TypeOK'
      BY <2>8, OnlyStatus DEF TypeOK
  <2>9. CASE ClaimDue
      BY <2>9, ClaimDueType
  <2>10. ASSUME NEW c \in poll, MergeIntoExisting(c) PROVE TypeOK'
    <3>1. c.existing \in Task
        BY <2>10 DEF MergeIntoExisting, StillWaits, TypeOK, Claim, TaskOrNone
    <3> QED
        BY <2>10, <3>1, TakesType, AsksForSlotType DEF TypeOK, MergeIntoExisting, TaskOrNone, Reason
  <2>11. ASSUME NEW c \in poll, NEW t \in Task, NEW start \in BOOLEAN,
                MaterializeNewTask(c, t, start)
         PROVE  TypeOK'
    <3>1. c.session \in Session /\ c.buffered \in Seq(Message)
        BY DEF TypeOK, Claim
    <3>2. status' \in [Task -> Status] /\ request' \in [Task -> Seq(Message)]
        BY <2>11, <3>1, NewTaskType DEF MaterializeNewTask
    <3> QED
        BY <2>11, <3>2, TakesType DEF TypeOK, MaterializeNewTask, TaskOrNone, Reason
  <2>12. ASSUME NEW c \in poll, MaterializeNothing(c) PROVE TypeOK'
      BY <2>12, TakesType DEF TypeOK, MaterializeNothing, TaskOrNone, Reason
  <2>13. ASSUME NEW m \in made, CompleteWindow(m) PROVE TypeOK'
    <3>1. m.session \in Session /\ m.task \in TaskOrNone /\ m.reason \in Reason
        BY DEF TypeOK, Outcome
    <3>2. window' \in [Session -> Window]
        BY <2>13, <3>1, ZenonT(30) DEF CompleteWindow, TypeOK, Window
    <3> QED
        BY <2>13, <3>2 DEF TypeOK, CompleteWindow
  <2>14. CASE Crash
      BY <2>14 DEF TypeOK, Crash
  <2>15. CASE UNCHANGED vars
      BY <2>15 DEF TypeOK, vars
  <2> QED
      BY <2>1, <2>2, <2>3, <2>4, <2>5, <2>6, <2>7, <2>8, <2>9, <2>10, <2>11, <2>12, <2>13, <2>14, <2>15
      DEF Next, PollStep
<1> QED
    BY <1>1, <1>2, PTL DEF Spec

-----------------------------------------------------------------------------
\* A claim that a poll carries, and a window that is open, each stand for an
\* opening that has not been materialised yet.
Claimed(s)  == \E c \in poll : c.session = s
Claims(s)   == IF Claimed(s) THEN 1 ELSE 0
Openings(s) == IF window[s].state = "collecting" THEN 1 ELSE 0
Backed      == \A s \in Session : owed[s] >= Claims(s) + Openings(s)
OnceInv     == TypeOK /\ Backed

\* load_collecting_state never opens a window.
LEMMA LoadedState ==
    ASSUME NEW w \in Window, Loaded(w).state = "collecting"
    PROVE  w.state = "collecting"
BY DEF Loaded, PastDue, Window

\* A step that keeps the claims and what is owed, and opens no window.
LEMMA NoneOpened ==
    ASSUME OnceInv, poll' = poll, owed' = owed,
           \A s \in Session : window'[s].state = "collecting" => window[s].state = "collecting"
    PROVE  Backed'
BY DEF OnceInv, TypeOK, Backed, Claims, Claimed, Openings

\* The step that makes a task of a claim, or finds that it holds nothing.
LEMMA TakesBacked ==
    ASSUME OnceInv, NEW c \in poll, NEW t \in TaskOrNone, NEW reason \in Reason,
           Takes(c, t, reason)
    PROVE  Backed'
<1> SUFFICES ASSUME NEW s \in Session
             PROVE  owed'[s] >= Claims(s)' + Openings(s)'
    BY DEF Backed
<1>1. c.session \in Session /\ owed[s] \in Int
    BY DEF OnceInv, TypeOK, Claim
<1>2. Openings(s)' = Openings(s)
    BY DEF Takes, Openings
<1>3. owed[s] >= Claims(s) + Openings(s)
    BY DEF OnceInv, Backed
<1>4. CASE s = c.session
  <2>1. Claims(s) = 1 /\ Claims(s)' = 0
    <3>1. Claimed(s)
        BY <1>4 DEF Claimed
    <3>2. ~ Claimed(s)'
        BY <1>4 DEF Claimed, Takes, OnceInv, TypeOK
    <3> QED
        BY <3>1, <3>2 DEF Claims
  <2>2. owed'[s] >= owed[s] - 1
      BY <1>1, <1>4 DEF Takes, OnceInv, TypeOK
  <2>3. Openings(s) \in Int /\ owed'[s] \in Int
      BY <1>1, <1>4 DEF Openings, Takes, OnceInv, TypeOK
  <2> QED
      BY <1>1, <1>2, <1>3, <2>1, <2>2, <2>3
<1>5. CASE s # c.session
  <2>1. Claimed(s)' <=> Claimed(s)
      BY <1>5 DEF Claimed, Takes
  <2>2. owed'[s] = owed[s]
      BY <1>5 DEF Takes, OnceInv, TypeOK
  <2> QED
      BY <1>2, <1>3, <2>1, <2>2 DEF Claims
<1> QED
    BY <1>4, <1>5

\* Claiming replaces an open window by a claim on it.
LEMMA ClaimDueBacked ==
    ASSUME OnceInv, ClaimDue
    PROVE  Backed'
<1> SUFFICES ASSUME NEW s \in Session
             PROVE  owed'[s] >= Claims(s)' + Openings(s)'
    BY DEF Backed
<1>1. owed[s] \in Int /\ owed'[s] = owed[s] /\ owed[s] >= Claims(s) + Openings(s)
    BY DEF OnceInv, TypeOK, Backed, ClaimDue
<1>2. Claims(s) = 0
    BY DEF Claims, Claimed, ClaimDue, Idle
<1>3. CASE PastDue(window[s])
  <2>1. Openings(s) = 1
      BY <1>3 DEF Openings, PastDue
  <2>2. window'[s] = [window[s] EXCEPT !.state = IF HoldsNothing(window[s])
                                                 THEN "expired-empty" ELSE "claimed"]
      BY <1>3 DEF ClaimDue
  <2>3. Openings(s)' = 0
      BY <2>2 DEF Openings, OnceInv, TypeOK, Window
  <2> QED
      BY <1>1, <1>2, <2>1, <2>3 DEF Claims
<1>4. CASE ~ PastDue(window[s])
  <2>1. ~ Claimed(s)'
      BY <1>4 DEF Claimed, ClaimDue, ClaimOf
  <2>2. Openings(s)' = Openings(s)
      BY <1>4 DEF Openings, ClaimDue
  <2> QED
      BY <1>1, <1>2, <2>1, <2>2 DEF Claims
<1> QED
    BY <1>3, <1>4

\* One opening of a window becomes one task at most, wherever a registration
\* comes between the steps of the poll and wherever the poll dies.
THEOREM OpeningsMaterializeOnce == Spec => []MaterializedOnce
<1>1. ASSUME Init PROVE Backed
  <2>1. \A s \in Session : ~ Claimed(s) /\ window[s].state = "none" /\ owed[s] = 0
      BY <1>1 DEF Init, Claimed, NoWindow
  <2>2. \A s \in Session : Claims(s) = 0 /\ Openings(s) = 0
      BY <2>1 DEF Claims, Openings
  <2>3. \A s \in Session : owed[s] >= Claims(s) + Openings(s)
    <3> TAKE s \in Session
    <3>1. owed[s] = 0 /\ Claims(s) = 0 /\ Openings(s) = 0
        BY <2>1, <2>2
    <3> QED
        BY <3>1
  <2> QED
      BY <2>3 DEF Backed
<1>2. OnceInv /\ [Next]_vars => Backed'
  <2> SUFFICES ASSUME OnceInv, [Next]_vars PROVE Backed'
      OBVIOUS
  <2> USE DEF OnceInv
  <2>1. ASSUME NEW s \in Session, CollectMore(s) PROVE Backed'
    <3> SUFFICES ASSUME NEW x \in Session PROVE owed'[x] >= Claims(x)' + Openings(x)'
        BY DEF Backed
    <3>1. owed[x] \in Int /\ owed[x] >= Claims(x) + Openings(x) /\ Claims(x)' = Claims(x)
        BY <2>1 DEF TypeOK, Backed, CollectMore, Claims, Claimed
    <3>2. CASE x = s
        BY <2>1, <3>1, <3>2 DEF TypeOK, CollectMore, Claims, Openings
    <3>3. CASE x # s
      <4>1. owed'[x] = owed[x] /\ window'[x] = window[x]
          BY <2>1, <3>3 DEF TypeOK, CollectMore
      <4> QED
          BY <3>1, <4>1 DEF Openings
    <3> QED
        BY <3>2, <3>3
  <2>2. ASSUME NEW s \in Session, BufferMessage(s) PROVE Backed'
    <3>1. \A x \in Session : window'[x].state = window[x].state
        BY <2>2 DEF BufferMessage, TypeOK, Window
    <3> QED
        BY <2>2, <3>1, NoneOpened DEF BufferMessage
  <2>3. ASSUME NEW s \in Session, window' = [window EXCEPT ![s] = Loaded(@)],
               poll' = poll, owed' = owed
        PROVE  Backed'
    <3>1. \A x \in Session : window'[x].state = "collecting" => window[x].state = "collecting"
        BY <2>3, LoadedState DEF TypeOK
    <3> QED
        BY <2>3, <3>1, NoneOpened
  <2>4. ASSUME NEW s \in Session, NEW t \in Task, NEW start \in BOOLEAN,
               RegisterMessage(s, t, start)
        PROVE  Backed'
      BY <2>3, <2>4 DEF RegisterMessage
  <2>5. ASSUME NEW s \in Session, NEW t \in Task, ResumeRecoverable(s, t) PROVE Backed'
      BY <2>3, <2>5 DEF ResumeRecoverable
  <2>6. ASSUME NEW s \in Session, NEW t \in Task, NEW start \in BOOLEAN,
                TakeOverObserved(s, t, start)
         PROVE  Backed'
      BY <2>3, <2>6 DEF TakeOverObserved
  <2>7. ASSUME NEW s \in Session, ControlCommand(s) PROVE Backed'
      BY <2>3, <2>7 DEF ControlCommand
  <2>8. ASSUME NEW s \in Session, FallsDue(s) PROVE Backed'
    <3>1. \A x \in Session : window'[x].state = window[x].state
        BY <2>8 DEF FallsDue, TypeOK, Window
    <3> QED
        BY <2>8, <3>1, NoneOpened DEF FallsDue
  <2>9. ASSUME NEW t \in Task,
               ActivateLatest(t) \/ FinishTask(t) \/ SetTaskBack(t) \/ ComesDue(t)
        PROVE  Backed'
      BY <2>9, OnlyStatus, NoneOpened
  <2>10. CASE ClaimDue
      BY <2>10, ClaimDueBacked
  <2>11. ASSUME NEW c \in poll, MergeIntoExisting(c) PROVE Backed'
    <3>1. c.existing \in TaskOrNone
        BY DEF TypeOK, Claim
    <3> QED
        BY <2>11, <3>1, TakesBacked DEF MergeIntoExisting, Reason
  <2>12. ASSUME NEW c \in poll, NEW t \in Task, NEW start \in BOOLEAN,
                MaterializeNewTask(c, t, start)
         PROVE  Backed'
      BY <2>12, TakesBacked DEF MaterializeNewTask, TaskOrNone, Reason
  <2>13. ASSUME NEW c \in poll, MaterializeNothing(c) PROVE Backed'
      BY <2>13, TakesBacked DEF MaterializeNothing, TaskOrNone, Reason
  <2>14. ASSUME NEW m \in made, CompleteWindow(m) PROVE Backed'
    <3>1. \A x \in Session : window'[x].state = "collecting" => window[x].state = "collecting"
        BY <2>14 DEF CompleteWindow, TypeOK, Window
    <3> QED
        BY <2>14, <3>1, NoneOpened DEF CompleteWindow
  <2>15. CASE Crash
    <3>1. \A x \in Session : Claims(x)' = 0 /\ Openings(x)' = Openings(x) /\ owed'[x] = owed[x]
        BY <2>15 DEF Crash, Claims, Claimed, Openings
    <3> QED
        BY <3>1 DEF TypeOK, Backed, Claims, Openings
  <2>16. CASE UNCHANGED vars
      BY <2>16, NoneOpened DEF vars
  <2> QED
      BY <2>1, <2>2, <2>4, <2>5, <2>6, <2>7, <2>8, <2>9, <2>10, <2>11, <2>12, <2>13, <2>14, <2>15, <2>16
      DEF Next, PollStep
<1>3. ASSUME TypeOK, Backed PROVE MaterializedOnce
  <2> SUFFICES ASSUME NEW s \in Session PROVE owed[s] >= 0
      BY DEF MaterializedOnce
  <2>1. owed[s] \in Int /\ owed[s] >= Claims(s) + Openings(s)
      BY <1>3 DEF TypeOK, Backed
  <2>2. Claims(s) \in {0, 1} /\ Openings(s) \in {0, 1}
      BY DEF Claims, Openings
  <2> QED
      BY <2>1, <2>2
<1> QED
    BY <1>1, <1>2, <1>3, WindowTypeCorrect, PTL DEF Spec, OnceInv

-----------------------------------------------------------------------------
\* What is buffered anywhere was sent before, in the order it is in.
Sorted(messages, last) ==
    Increasing(messages) /\ \A i \in DOMAIN messages : messages[i] <= last
AllSorted ==
    /\ \A s \in Session : Sorted(window[s].buffered, sent)
    /\ \A t \in Task : Sorted(request[t], sent)
    /\ \A c \in poll : Sorted(c.buffered, sent)
OrderInv == TypeOK /\ AllSorted

\* Messages sent up to `last` were sent up to any later one ...
LEMMA SortedStays ==
    ASSUME NEW messages \in Seq(Message), NEW last \in Nat, NEW later \in Nat,
           Sorted(messages, last), last <= later
    PROVE  Sorted(messages, later)
<1>1. \A i \in DOMAIN messages : messages[i] \in Nat
    BY BoundAssumption DEF Message
<1> QED
    BY <1>1 DEF Sorted

\* ... and the next one may be put behind them.
LEMMA SortedAppend ==
    ASSUME NEW messages \in Seq(Message), NEW last \in Nat, last + 1 \in Message,
           Sorted(messages, last)
    PROVE  Sorted(Append(messages, last + 1), last + 1)
<1> DEFINE longer == Append(messages, last + 1)
<1>1. \A i \in DOMAIN messages : messages[i] \in Nat /\ messages[i] <= last
    BY BoundAssumption DEF Message, Sorted
<1>2. DOMAIN messages = 1..Len(messages) /\ Len(messages) \in Nat
    OBVIOUS
<1>3. /\ DOMAIN longer = 1..(Len(messages) + 1)
      /\ longer[Len(messages) + 1] = last + 1
      /\ \A i \in 1..Len(messages) : longer[i] = messages[i]
    BY <1>2
<1>4. \A i \in DOMAIN longer : longer[i] <= last + 1
    BY <1>1, <1>2, <1>3
<1>5. ASSUME NEW i \in DOMAIN longer, NEW j \in DOMAIN longer, i < j
      PROVE  longer[i] < longer[j]
  <2>1. i \in 1..Len(messages)
      BY <1>2, <1>3, <1>5
  <2>2. CASE j = Len(messages) + 1
      BY <1>1, <1>2, <1>3, <2>1, <2>2
  <2>3. CASE j \in 1..Len(messages)
      BY <1>2, <1>3, <1>5, <2>1, <2>3 DEF Sorted, Increasing
  <2> QED
      BY <1>2, <1>3, <2>2, <2>3
<1> HIDE DEF longer
<1>6. Sorted(longer, last + 1)
    BY <1>4, <1>5 DEF Sorted, Increasing
<1> QED
    BY <1>6 DEF longer

\* The first message of a request is trivially in order.
LEMMA SortedSingle ==
    ASSUME NEW last \in Nat
    PROVE  Sorted(<<last>>, last)
BY DEF Sorted, Increasing

\* A step that sends nothing and fills no window, request or claim with
\* messages that were not together in one of them before.
LEMMA NothingSent ==
    ASSUME OrderInv, sent' = sent,
           \A s \in Session : window'[s].buffered = window[s].buffered,
           \A t \in Task : \/ request'[t] = request[t]
                           \/ \E c \in poll : request'[t] = c.buffered,
           \A c \in poll' : \/ c \in poll
                            \/ \E s \in Session : c.buffered = window[s].buffered
    PROVE  AllSorted'
BY DEF OrderInv, AllSorted

\* A step that sends a message keeps every other sequence sorted.
LEMMA OthersSorted ==
    ASSUME OrderInv, NextMessage
    PROVE  /\ \A s \in Session : Sorted(window[s].buffered, sent')
           /\ \A t \in Task : Sorted(request[t], sent')
           /\ \A c \in poll : Sorted(c.buffered, sent')
<1>1. sent \in Nat /\ sent' \in Nat /\ sent <= sent'
    BY DEF OrderInv, TypeOK, NextMessage
<1>2. /\ \A s \in Session : window[s].buffered \in Seq(Message)
      /\ \A t \in Task : request[t] \in Seq(Message)
      /\ \A c \in poll : c.buffered \in Seq(Message)
    BY DEF OrderInv, TypeOK, Window, Claim
<1> QED
    BY <1>1, <1>2, SortedStays DEF OrderInv, AllSorted

\* The user's messages stay in the order they were sent, in every window and
\* every request, however many windows they went through.
THEOREM MessagesKeepOrder == Spec => []MessagesStayInOrder
<1>1. ASSUME Init PROVE AllSorted
  <2>1. /\ \A s \in Session : window[s].buffered = <<>>
        /\ \A t \in Task : request[t] = <<>>
        /\ poll = {}
      BY <1>1 DEF Init, NoWindow
  <2>2. Sorted(<<>>, sent)
      BY DEF Sorted, Increasing
  <2> QED
      BY <2>1, <2>2 DEF AllSorted
<1>2. OrderInv /\ [Next]_vars => AllSorted'
  <2> SUFFICES ASSUME OrderInv, [Next]_vars PROVE AllSorted'
      OBVIOUS
  <2>1. ASSUME NEW s \in Session, CollectMore(s) PROVE AllSorted'
    <3>1. \A x \in Session : window'[x].buffered = window[x].buffered
        BY <2>1 DEF CollectMore, NoWindow, OrderInv, TypeOK
    <3> QED
        BY <2>1, <3>1, OthersSorted DEF CollectMore, AllSorted
  <2>2. ASSUME NEW s \in Session, BufferMessage(s) PROVE AllSorted'
    <3>1. /\ sent \in Nat /\ sent' = sent + 1 /\ sent' \in Message
          /\ window[s] \in Window /\ window[s].buffered \in Seq(Message)
        BY <2>2, NextMessageType DEF BufferMessage, NextMessage, OrderInv, TypeOK, Window
    <3>2. Sorted(Append(window[s].buffered, sent'), sent')
        BY <3>1, SortedAppend DEF OrderInv, AllSorted
    <3>3. window' = [window EXCEPT ![s] = [window[s] EXCEPT !.buffered = Append(window[s].buffered, sent')]]
        BY <2>2 DEF BufferMessage
    <3>4. window'[s].buffered = Append(window[s].buffered, sent')
        BY <3>1, <3>3 DEF OrderInv, TypeOK, Window
    <3>5. \A x \in Session \ {s} : window'[x] = window[x]
        BY <3>3 DEF OrderInv, TypeOK
    <3> QED
        BY <2>2, <3>2, <3>4, <3>5, OthersSorted DEF BufferMessage, AllSorted
  <2>3. ASSUME NEW s \in Session, NEW t \in Task, NEW start \in BOOLEAN,
               RegisterMessage(s, t, start)
        PROVE  AllSorted'
    <3>1. \A x \in Session : window'[x].buffered = window[x].buffered
        BY <2>3, LoadedType DEF RegisterMessage, OrderInv, TypeOK
    <3>2. Sorted(<<sent'>>, sent')
        BY <2>3, SortedSingle DEF RegisterMessage, NextMessage, OrderInv, TypeOK
    <3>3. \A u \in Task : request'[u] = IF u = t THEN <<sent'>> ELSE request[u]
        BY <2>3 DEF RegisterMessage, NewTask, OrderInv, TypeOK
    <3> QED
        BY <2>3, <3>1, <3>2, <3>3, OthersSorted DEF RegisterMessage, AllSorted
  <2>4. ASSUME NEW s \in Session, NEW t \in Task, ResumeRecoverable(s, t) PROVE AllSorted'
    <3>1. \A x \in Session : window'[x].buffered = window[x].buffered
        BY <2>4, LoadedType DEF ResumeRecoverable, OrderInv, TypeOK
    <3> QED
        BY <2>4, <3>1, OthersSorted DEF ResumeRecoverable, AllSorted
  <2>5. ASSUME NEW s \in Session, NEW t \in Task, NEW start \in BOOLEAN,
                TakeOverObserved(s, t, start)
         PROVE  AllSorted'
    <3>1. \A x \in Session : window'[x].buffered = window[x].buffered
        BY <2>5, LoadedType DEF TakeOverObserved, OrderInv, TypeOK
    <3>2. Sorted(<<sent'>>, sent')
        BY <2>5, SortedSingle DEF TakeOverObserved, NextMessage, OrderInv, TypeOK
    <3>3. \A u \in Task : request'[u] = IF u = t THEN <<sent'>> ELSE request[u]
        BY <2>5 DEF TakeOverObserved, OrderInv, TypeOK
    <3> QED
        BY <2>5, <3>1, <3>2, <3>3, OthersSorted DEF TakeOverObserved, AllSorted
  <2>6. ASSUME NEW s \in Session, ControlCommand(s) PROVE AllSorted'
    <3>1. \A x \in Session : window'[x].buffered = window[x].buffered
        BY <2>6, LoadedType DEF ControlCommand, OrderInv, TypeOK
    <3> QED
        BY <2>6, <3>1, NothingSent DEF ControlCommand
  <2>7. ASSUME NEW s \in Session, FallsDue(s) PROVE AllSorted'
    <3>1. \A x \in Session : window'[x].buffered = window[x].buffered
        BY <2>7 DEF FallsDue, OrderInv, TypeOK, Window
    <3> QED
        BY <2>7, <3>1, NothingSent DEF FallsDue
  <2>8. ASSUME NEW t \in Task,
               ActivateLatest(t) \/ FinishTask(t) \/ SetTaskBack(t) \/ ComesDue(t)
        PROVE  AllSorted'
      BY <2>8, OnlyStatus, NothingSent DEF OrderInv
  <2>9. CASE ClaimDue
    <3>1. \A x \in Session : window'[x].buffered = window[x].buffered
        BY <2>9 DEF ClaimDue, OrderInv, TypeOK, Window
    <3>2. \A c \in poll' : \E s \in Session : c.buffered = window[s].buffered
        BY <2>9 DEF ClaimDue, ClaimOf
    <3> QED
        BY <2>9, <3>1, <3>2, NothingSent DEF ClaimDue
  <2>10. ASSUME NEW c \in poll, MergeIntoExisting(c) \/ MaterializeNothing(c) PROVE AllSorted'
      BY <2>10, NothingSent DEF MergeIntoExisting, MaterializeNothing, Takes
  <2>11. ASSUME NEW c \in poll, NEW t \in Task, NEW start \in BOOLEAN,
               MaterializeNewTask(c, t, start)
        PROVE  AllSorted'
    <3>1. \A u \in Task : request'[u] = IF u = t THEN c.buffered ELSE request[u]
        BY <2>11 DEF MaterializeNewTask, NewTask, OrderInv, TypeOK
    <3> QED
        BY <2>11, <3>1, NothingSent DEF MaterializeNewTask, Takes
  <2>12. ASSUME NEW m \in made, CompleteWindow(m) PROVE AllSorted'
    <3>1. \A x \in Session : window'[x].buffered = window[x].buffered
        BY <2>12 DEF CompleteWindow, OrderInv, TypeOK, Window
    <3> QED
        BY <2>12, <3>1, NothingSent DEF CompleteWindow
  <2>13. CASE Crash
      BY <2>13, NothingSent DEF Crash
  <2>14. CASE UNCHANGED vars
      BY <2>14, NothingSent DEF vars
  <2> QED
      BY <2>1, <2>2, <2>3, <2>4, <2>5, <2>6, <2>7, <2>8, <2>9, <2>10, <2>11, <2>12, <2>13, <2>14
      DEF Next, PollStep
<1>3. OrderInv => MessagesStayInOrder
    BY DEF OrderInv, AllSorted, Sorted, MessagesStayInOrder
<1> QED
    BY <1>1, <1>2, <1>3, WindowTypeCorrect, PTL DEF Spec, OrderInv

-----------------------------------------------------------------------------
\* What was claimed is completed.

\* A step that keeps what the poll carries, or starts with a poll that is idle.
LEMMA CarriesOn ==
    ASSUME NEW s \in Session, Carried(s), \/ poll' = poll /\ made' = made
                                          \/ Idle
    PROVE  Carried(s)'
BY DEF Carried, Idle

\* Materialising a claim leaves its session to be completed.
LEMMA TakesCarriesOn ==
    ASSUME NEW s \in Session, Carried(s), NEW c \in poll, NEW t, NEW reason, Takes(c, t, reason)
    PROVE  Carried(s)'
<1>1. PICK d \in poll : d.session = s
    BY DEF Carried, Takes
<1>2. CASE d = c
  <2>1. made' = {[session |-> s, task |-> t, reason |-> reason]}
      BY <1>1, <1>2 DEF Takes
  <2> QED
      BY <2>1 DEF Carried
<1>3. CASE d # c
    BY <1>1, <1>3 DEF Takes, Carried
<1> QED
    BY <1>2, <1>3

\* What a poll has claimed it completes, unless it dies, whatever registrations
\* come between: none of them sees the claim, and the poll completes one window
\* before it materialises the next.
THEOREM ClaimsAreHonoured == Spec => ClaimIsHonoured
<1> DEFINE Honours(s) == Carried(s)' \/ window'[s].state = "materialized" \/ Crash
<1>1. ASSUME TypeOK, [Next]_vars, NEW s \in Session, Carried(s)
      PROVE  Honours(s)
  <2>1. ASSUME NEW x \in Session, CollectMore(x) \/ BufferMessage(x) \/ ControlCommand(x) \/ FallsDue(x)
        PROVE  Carried(s)'
      BY <1>1, <2>1, CarriesOn DEF CollectMore, BufferMessage, ControlCommand, FallsDue
  <2>2. ASSUME NEW x \in Session, NEW t \in Task, NEW start \in BOOLEAN,
               RegisterMessage(x, t, start) \/ TakeOverObserved(x, t, start) \/ ResumeRecoverable(x, t)
        PROVE  Carried(s)'
      BY <1>1, <2>2, CarriesOn DEF RegisterMessage, TakeOverObserved, ResumeRecoverable
  <2>3. ASSUME NEW t \in Task,
               ActivateLatest(t) \/ FinishTask(t) \/ SetTaskBack(t) \/ ComesDue(t)
        PROVE  Carried(s)'
      BY <1>1, <2>3, OnlyStatus, CarriesOn
  <2>4. CASE ClaimDue
      BY <1>1, <2>4, CarriesOn DEF ClaimDue
  <2>5. ASSUME NEW c \in poll, NEW t \in Task, NEW start \in BOOLEAN,
               MaterializeNewTask(c, t, start)
        PROVE  Carried(s)'
      BY <1>1, <2>5, TakesCarriesOn DEF MaterializeNewTask
  <2>6. ASSUME NEW m \in made, CompleteWindow(m) PROVE Honours(s)
    <3>1. CASE m.session = s
      <4>1. window'[s] = [window[s] EXCEPT !.state = "materialized", !.task = m.task, !.reason = m.reason]
          BY <1>1, <2>6, <3>1 DEF CompleteWindow, TypeOK
      <4> QED
          BY <1>1, <4>1 DEF TypeOK, Window
    <3>2. CASE m.session # s
        BY <1>1, <2>6, <3>2 DEF CompleteWindow, Carried, TypeOK
    <3> QED
        BY <3>1, <3>2
  <2>7. CASE UNCHANGED vars
      BY <1>1, <2>7, CarriesOn DEF vars
  <2>8. Carried(s)' \/ Crash => Honours(s)
      OBVIOUS
  <2> HIDE DEF Honours
  <2>9. CASE PollStep
    <3>1. ASSUME NEW c \in poll, MergeIntoExisting(c) \/ MaterializeNothing(c) PROVE Carried(s)'
        BY <1>1, <3>1, TakesCarriesOn DEF MergeIntoExisting, MaterializeNothing
    <3> QED
        BY <2>4, <2>5, <2>6, <2>8, <2>9, <3>1 DEF PollStep
  <2> QED
      BY <1>1, <2>1, <2>2, <2>3, <2>7, <2>8, <2>9 DEF Next
<1>2. TypeOK /\ [Next]_vars
      => [\A s \in Session : Carried(s) => \/ Carried(s)'
                                            \/ window'[s].state = "materialized"
                                            \/ Crash]_vars
    BY <1>1
<1> QED
    BY <1>2, WindowTypeCorrect, PTL DEF Spec, ClaimIsHonoured

=============================================================================
