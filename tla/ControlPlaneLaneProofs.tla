----------------------- MODULE ControlPlaneLaneProofs -----------------------
(***************************************************************************)
(* Proofs about ControlPlaneLane for any number of chats, tasks, commands  *)
(* and messages: the lanes keep their shape, a follow-up is delivered only *)
(* as the newest thing said in its chat, and the marks that silence a task *)
(* have a message or a run behind them.                                    *)
(***************************************************************************)
EXTENDS ControlPlaneLane, SequenceTheorems, TLAPS

-----------------------------------------------------------------------------
\* Messages and steps.

\* A message is about a task or a command of some chat; a follow-up is the only
\* kind that does not preempt, and terminal messages are about tasks.
LEMMA MessageKinds ==
    /\ \A m \in Message : /\ Audience(m) \in Chat
                          /\ IsPreempting(m) <=> ~ IsSupersedable(m)
                          /\ IsSupersedable(m) \/ IsTerminal(m) => m.about \in Task
                          /\ IsTerminal(m) => ~ IsSupersedable(m)
    /\ \A t \in Task : /\ Msg("ack", t) \in Message
                       /\ Msg("followup", t) \in Message
                       /\ Msg("finished", t) \in Message
    /\ \A t \in Planner : t \in Task /\ Msg("scheduled", t) \in Message
    /\ \A c \in Command : Msg("command", c) \in Message
BY ChatAssumption DEF Message, Audience, IsPreempting, IsSupersedable, IsTerminal, Msg

\* What the first part of a call does: a message about a silenced task is dropped
\* unless it is terminal; any other gets the next token, and then its marks, or
\* the log line of a timer it cancels.
LEMMA SendsEffect ==
    ASSUME NEW m \in Message, Sends(m)
    PROVE  /\ stage[m] = "unsent" /\ receipt' \subseteq receipt
           /\ UNCHANGED <<lane, terminal, seen>>
           /\ \/ /\ ~ IsTerminal(m)
                 /\ stage' = [stage EXCEPT ![m] = "dropped"]
                 /\ UNCHANGED <<token, nextToken, marks>>
              \/ /\ token' = [token EXCEPT ![m] = nextToken]
                 /\ nextToken' = nextToken + 1
                 /\ latestPreempting' = IF IsPreempting(m)
                                        THEN [latestPreempting EXCEPT ![Audience(m)] = nextToken]
                                        ELSE latestPreempting
                 /\ \/ /\ IsPreempting(m)
                       /\ stage' = [stage EXCEPT ![m] = "preempting"]
                       /\ UNCHANGED <<latestOfTask, latestSupersedable, pendingTerminal>>
                    \/ Arm(m)
BY DEF Sends, Enqueue, Preempts, marks

\* A message that goes on preempting cancels another timer or gets its marks.
LEMMA GoOnEffect ==
    ASSUME NEW m \in Message, GoOnPreempting(m)
    PROVE  /\ stage[m] = "preempting" /\ receipt' \subseteq receipt
           /\ UNCHANGED <<task, check, lane, terminal, seen, token, nextToken, latestPreempting>>
           /\ \/ /\ stage' = [stage EXCEPT ![m] = "preempting"]
                 /\ UNCHANGED <<latestOfTask, latestSupersedable, pendingTerminal>>
              \/ Arm(m)
BY DEF GoOnPreempting, Preempts

\* No message moves.
Quiet == UNCHANGED <<stage, token, nextToken, lane, latestPreempting, latestSupersedable, seen>>

\* Every step begins a call, moves a message on, or moves none.
LEMMA StepKinds ==
    ASSUME Next
    PROVE  \/ \E m \in Message : Sends(m)
           \/ \E m \in Message : LaneStep(m)
           \/ Quiet
<1> USE MessageKinds
<1>1. ASSUME NEW t \in Task,
             \/ Acknowledge(t)
             \/ \E short \in BOOLEAN : ArmReceipt(t, short)
             \/ TimerFires(t) \/ HookReads(t) \/ SendFollowup(t)
             \/ AgentEnd(t) \/ Forget(t) \/ ClearSessionTaskArtifacts(t)
             \/ \E report \in BOOLEAN : Finalize(t, report)
      PROVE  (\E m \in Message : Sends(m)) \/ Quiet
  <2>1. CASE Acknowledge(t)                               BY <2>1 DEF Acknowledge
  <2>2. CASE \E short \in BOOLEAN : ArmReceipt(t, short)  BY <2>2 DEF ArmReceipt, Quiet, marks
  <2>3. CASE TimerFires(t)                                BY <2>3 DEF TimerFires, Quiet, marks
  <2>4. CASE HookReads(t)                                 BY <2>4 DEF HookReads, Quiet, marks
  <2>5. CASE SendFollowup(t)                              BY <2>5 DEF SendFollowup
  <2>6. CASE AgentEnd(t)                                  BY <2>6 DEF AgentEnd, Quiet
  <2>7. CASE Forget(t)                                    BY <2>7 DEF Forget, Quiet
  <2>8. CASE ClearSessionTaskArtifacts(t)                 BY <2>8 DEF ClearSessionTaskArtifacts, Quiet
  <2>9. CASE \E report \in BOOLEAN : Finalize(t, report)  BY <2>9 DEF Finalize, Quiet, marks
  <2> QED
      BY <1>1, <2>1, <2>2, <2>3, <2>4, <2>5, <2>6, <2>7, <2>8, <2>9
<1>2. ASSUME NEW t \in Planner, ConfirmSchedule(t) PROVE \E m \in Message : Sends(m)
    BY <1>2 DEF ConfirmSchedule
<1>3. ASSUME NEW c \in Command, SendCommand(c) PROVE \E m \in Message : Sends(m)
    BY <1>3 DEF SendCommand
<1> QED
    BY <1>1, <1>2, <1>3 DEF Next, Sender

-----------------------------------------------------------------------------
\* Type correctness.

InTurn == {"delivering", "delivered", "committing"}
InLane == {"waiting"} \cup InTurn

\* TypeOK without the lanes, ...
Shapes ==
    /\ task \in [Task -> {"new", "acked", "running", "settling", "finalized", "ended"}]
    /\ receipt \subseteq Task
    /\ check \in [Task -> {"none", "asked", "yes", "no"}]
    /\ stage \in [Message -> Stage]
    /\ token \in [Message -> Token] /\ nextToken \in Token
    /\ seen \in [Chat -> Token]
    /\ latestPreempting \in [Chat -> Token] /\ latestSupersedable \in [Chat -> Token]
    /\ latestOfTask \in [Task -> Token]
    /\ terminal \subseteq Task /\ pendingTerminal \subseteq Task

\* ... and the lanes.
Queued(m, l) == \E i \in DOMAIN l : l[i] = m
Lanes ==
    /\ lane \in [Chat -> Seq(Message)]
    /\ \A m \in Message : stage[m] \in InLane <=> Queued(m, lane[Audience(m)])
    /\ \A c \in Chat : \A i, j \in DOMAIN lane[c] : lane[c][i] = lane[c][j] => i = j

LEMMA TypeParts == TypeOK <=> Shapes /\ Lanes
BY DEF TypeOK, Shapes, Lanes, Queued, InLane, InTurn

\* The marks a message gets have the shape of marks.
LEMMA ArmShapes ==
    ASSUME Shapes, NEW m \in Message, Arm(m), token' \in [Message -> Token]
    PROVE  /\ latestOfTask' \in [Task -> Token] /\ latestSupersedable' \in [Chat -> Token]
           /\ pendingTerminal' \subseteq Task
           /\ stage' = [stage EXCEPT ![m] = "logging"]
<1>1. token'[m] \in Token /\ Audience(m) \in Chat
    BY MessageKinds
<1>2. pendingTerminal' \subseteq Task
    BY MessageKinds DEF Arm, Shapes
<1> QED
    BY <1>1, <1>2, MessageKinds DEF Arm, Shapes

\* A call begun keeps the shapes of what it touches.
LEMMA SendsShapes ==
    ASSUME Shapes, NEW m \in Message, Sends(m),
           task' \in [Task -> {"new", "acked", "running", "settling", "finalized", "ended"}],
           check' \in [Task -> {"none", "asked", "yes", "no"}]
    PROVE  Shapes'
<1>0. /\ stage[m] = "unsent" /\ receipt' \subseteq receipt
      /\ UNCHANGED <<lane, terminal, seen>> /\ Audience(m) \in Chat
    BY SendsEffect, MessageKinds
<1>1. CASE /\ stage' = [stage EXCEPT ![m] = "dropped"]
           /\ UNCHANGED <<token, nextToken, marks>>
    BY <1>0, <1>1 DEF Shapes, marks, Stage
<1>2. CASE /\ token' = [token EXCEPT ![m] = nextToken]
           /\ nextToken' = nextToken + 1
           /\ latestPreempting' = IF IsPreempting(m)
                                  THEN [latestPreempting EXCEPT ![Audience(m)] = nextToken]
                                  ELSE latestPreempting
           /\ \/ /\ IsPreempting(m)
                 /\ stage' = [stage EXCEPT ![m] = "preempting"]
                 /\ UNCHANGED <<latestOfTask, latestSupersedable, pendingTerminal>>
              \/ Arm(m)
  <2>1. /\ token' \in [Message -> Token] /\ nextToken' \in Token
        /\ latestPreempting' \in [Chat -> Token]
      BY <1>0, <1>2 DEF Shapes, Token
  <2>2. CASE Arm(m)
    <3>1. /\ latestOfTask' \in [Task -> Token] /\ latestSupersedable' \in [Chat -> Token]
          /\ pendingTerminal' \subseteq Task
          /\ stage' = [stage EXCEPT ![m] = "logging"]
        BY <2>1, <2>2, ArmShapes
    <3> QED
        BY <1>0, <2>1, <3>1 DEF Shapes, Stage
  <2> QED
      BY <1>0, <1>2, <2>1, <2>2 DEF Shapes, Stage
<1> QED
    BY <1>1, <1>2, SendsEffect

\* So does a message that moves on.
LEMMA LaneStepShapes ==
    ASSUME Shapes, NEW m \in Message, LaneStep(m)
    PROVE  Shapes'
<1>0. Audience(m) \in Chat
    BY MessageKinds
<1>1. CASE GoOnPreempting(m)
  <2>1. /\ receipt' \subseteq receipt
        /\ UNCHANGED <<task, check, terminal, seen, token, nextToken, latestPreempting>>
        /\ \/ /\ stage' = [stage EXCEPT ![m] = "preempting"]
              /\ UNCHANGED <<latestOfTask, latestSupersedable, pendingTerminal>>
           \/ Arm(m)
      BY <1>1, GoOnEffect
  <2>2. CASE Arm(m)
    <3>1. token' \in [Message -> Token]
        BY <2>1 DEF Shapes
    <3>2. /\ latestOfTask' \in [Task -> Token] /\ latestSupersedable' \in [Chat -> Token]
          /\ pendingTerminal' \subseteq Task
          /\ stage' = [stage EXCEPT ![m] = "logging"]
        BY <2>2, <3>1, ArmShapes
    <3> QED
        BY <2>1, <3>2 DEF Shapes, Stage
  <2> QED
      BY <2>1, <2>2 DEF Shapes, Stage
<1>2. CASE JoinLane(m)    BY <1>2 DEF JoinLane, Shapes, Stage, runs, marks
<1>3. CASE Drop(m)        BY <1>3 DEF Drop, Leaves, Shapes, Stage, Token, runs, marks
<1>4. CASE Pass(m)        BY <1>4 DEF Pass, Shapes, Stage, runs, marks
<1>5. CASE Settle(m)
  <2>1. terminal' \subseteq Task /\ pendingTerminal' \subseteq Task
      BY <1>5, MessageKinds DEF Settle, Shapes
  <2>2. /\ stage' \in [Message -> Stage] /\ token' \in [Message -> Token]
        /\ UNCHANGED <<runs, nextToken, latestPreempting, latestSupersedable, latestOfTask, seen>>
      BY <1>5 DEF Settle, Leaves, Shapes, Stage, Token
  <2> QED
      BY <2>1, <2>2 DEF Shapes, runs
<1>6. CASE \E ok \in BOOLEAN : Deliver(m, ok)
    BY <1>0, <1>6 DEF Deliver, Shapes, Stage, runs, marks
<1> QED
    BY <1>1, <1>2, <1>3, <1>4, <1>5, <1>6 DEF LaneStep

LEMMA NextShapes ==
    ASSUME Shapes, [Next]_vars
    PROVE  Shapes'
<1>1. ASSUME NEW t \in Task, Acknowledge(t) PROVE Shapes'
    BY <1>1, SendsShapes, MessageKinds DEF Acknowledge, Shapes
<1>2. ASSUME NEW t \in Task, NEW short \in BOOLEAN, ArmReceipt(t, short) PROVE Shapes'
    BY <1>2 DEF ArmReceipt, Shapes, marks
<1>3. ASSUME NEW t \in Task, TimerFires(t) PROVE Shapes'
    BY <1>3 DEF TimerFires, Shapes, marks
<1>4. ASSUME NEW t \in Task, HookReads(t) PROVE Shapes'
    BY <1>4 DEF HookReads, Shapes, marks
<1>5. ASSUME NEW t \in Task, SendFollowup(t) PROVE Shapes'
    BY <1>5, SendsShapes, MessageKinds DEF SendFollowup, Shapes
<1>6. ASSUME NEW t \in Task, AgentEnd(t) PROVE Shapes'
    BY <1>6 DEF AgentEnd, Shapes
<1>7. ASSUME NEW t \in Task, Forget(t) PROVE Shapes'
    BY <1>7 DEF Forget, Shapes
<1>8. ASSUME NEW t \in Task, ClearSessionTaskArtifacts(t) PROVE Shapes'
    BY <1>8 DEF ClearSessionTaskArtifacts, Shapes, Token
<1>9. ASSUME NEW t \in Task, NEW report \in BOOLEAN, Finalize(t, report) PROVE Shapes'
  <2>1. task' \in [Task -> {"new", "acked", "running", "settling", "finalized", "ended"}] /\ check' = check
      BY <1>9 DEF Finalize, Shapes
  <2>2. CASE Sends(Msg("finished", t))
      BY <2>1, <2>2, SendsShapes, MessageKinds DEF Shapes
  <2>3. CASE UNCHANGED <<receipt, stage, token, nextToken, lane, marks, seen>>
      BY <2>1, <2>3 DEF Shapes, marks
  <2> QED
      BY <1>9, <2>2, <2>3 DEF Finalize
<1>10. ASSUME NEW t \in Planner, ConfirmSchedule(t) PROVE Shapes'
    BY <1>10, SendsShapes, MessageKinds DEF ConfirmSchedule, Shapes
<1>11. ASSUME NEW c \in Command, SendCommand(c) PROVE Shapes'
    BY <1>11, SendsShapes, MessageKinds DEF SendCommand, Shapes
<1>12. ASSUME NEW m \in Message, LaneStep(m) PROVE Shapes'
    BY <1>12, LaneStepShapes
<1>13. CASE UNCHANGED vars
    BY <1>13 DEF vars, runs, marks, Shapes
<1> QED
    BY <1>1, <1>2, <1>3, <1>4, <1>5, <1>6, <1>7, <1>8, <1>9, <1>10, <1>11, <1>12, <1>13 DEF Next, Sender

-----------------------------------------------------------------------------
\* The lanes.

\* A step leaves the lanes alone and moves m between stages on the same side of
\* them, to a turn only at the front, or puts m at the end of its lane, or takes it from the front.
StageOnly(m) ==
    /\ lane' = lane
    /\ \E s \in Stage : /\ stage' = [stage EXCEPT ![m] = s]
                        /\ (s \in InLane <=> stage[m] \in InLane)
                        /\ (s \in InTurn => HasTurn(m, stage[m]))
Enters(m) ==
    /\ stage[m] = "logging"
    /\ lane' = [lane EXCEPT ![Audience(m)] = Append(@, m)]
    /\ stage' = [stage EXCEPT ![m] = "waiting"]
Exits(m) ==
    /\ HasTurn(m, stage[m])
    /\ lane' = [lane EXCEPT ![Audience(m)] = Tail(@)]
    /\ \E s \in {"done", "dropped"} : stage' = [stage EXCEPT ![m] = s]

LEMMA LaneKinds ==
    ASSUME [Next]_vars
    PROVE  \/ \E m \in Message : StageOnly(m) \/ Enters(m) \/ Exits(m)
           \/ UNCHANGED <<stage, lane>>
<1>1. ASSUME NEW m \in Message, Sends(m) PROVE StageOnly(m)
    BY <1>1, SendsEffect DEF StageOnly, Stage, InLane, InTurn, Arm
<1>2. ASSUME NEW m \in Message, LaneStep(m) PROVE StageOnly(m) \/ Enters(m) \/ Exits(m)
  <2>1. CASE GoOnPreempting(m)  BY <2>1, GoOnEffect DEF StageOnly, Stage, InLane, InTurn, Arm
  <2>2. CASE JoinLane(m)        BY <2>2 DEF JoinLane, Enters
  <2>3. CASE Drop(m)            BY <2>3 DEF Drop, Leaves, Exits, HasTurn
  <2>4. CASE Pass(m)            BY <2>4 DEF Pass, HasTurn, StageOnly, Stage, InLane, InTurn
  <2>5. CASE Settle(m)
    <3>1. CASE /\ HasTurn(m, "delivered")
               /\ stage' = [stage EXCEPT ![m] = "committing"]
               /\ lane' = lane
        BY <3>1 DEF HasTurn, StageOnly, Stage, InLane, InTurn
    <3>2. CASE /\ HasTurn(m, IF IsTerminal(m) THEN "committing" ELSE "delivered")
               /\ stage' = [stage EXCEPT ![m] = "done"]
               /\ Leaves(m)
        BY <3>2 DEF HasTurn, Leaves, Exits
    <3> QED
        BY <2>5, <3>1, <3>2 DEF Settle
  <2>6. CASE \E ok \in BOOLEAN : Deliver(m, ok)
      BY <2>6 DEF Deliver, HasTurn, StageOnly, Stage, InLane, InTurn
  <2> QED
      BY <1>2, <2>1, <2>2, <2>3, <2>4, <2>5, <2>6 DEF LaneStep
<1> QED
    BY <1>1, <1>2, StepKinds DEF Quiet, vars

\* A lane in which no message waits twice.
Distinct(l) == \A i, j \in DOMAIN l : l[i] = l[j] => i = j

\* Who waits after a message joined a lane, ...
LEMMA JoinedLane ==
    ASSUME NEW l \in Seq(Message), Distinct(l), NEW m \in Message, ~ Queued(m, l)
    PROVE  /\ Append(l, m) \in Seq(Message) /\ Distinct(Append(l, m))
           /\ \A n \in Message : Queued(n, Append(l, m)) <=> Queued(n, l) \/ n = m
<1> DEFINE a == Append(l, m)
<1>1. /\ a \in Seq(Message) /\ Len(l) \in Nat
      /\ DOMAIN l = 1..Len(l) /\ DOMAIN a = 1..(Len(l) + 1)
      /\ \A i \in DOMAIN l : a[i] = l[i]
      /\ a[Len(l) + 1] = m
    BY AppendProperties, LenProperties
<1> HIDE DEF a
<1>2. Distinct(a)
    BY <1>1 DEF Distinct, Queued
<1>3. ASSUME NEW n \in Message PROVE Queued(n, a) <=> Queued(n, l) \/ n = m
  <2>1. ASSUME Queued(n, l) PROVE Queued(n, a)
      BY <1>1, <2>1 DEF Queued
  <2>2. n = m => Queued(n, a)
      BY <1>1 DEF Queued
  <2>3. ASSUME Queued(n, a) PROVE Queued(n, l) \/ n = m
      BY <1>1, <2>3 DEF Queued
  <2> QED
      BY <2>1, <2>2, <2>3
<1> QED
    BY <1>1, <1>2, <1>3 DEF a

\* ... and after its first message left.
LEMMA LeftLane ==
    ASSUME NEW l \in Seq(Message), Distinct(l), l # << >>
    PROVE  /\ Tail(l) \in Seq(Message) /\ Distinct(Tail(l))
           /\ \A n \in Message : Queued(n, Tail(l)) <=> Queued(n, l) /\ n # Head(l)
<1> DEFINE a == Tail(l)
<1>1. /\ a \in Seq(Message) /\ Len(l) \in Nat \ {0}
      /\ DOMAIN l = 1..Len(l) /\ DOMAIN a = 1..(Len(l) - 1)
      /\ \A i \in 1..(Len(l) - 1) : a[i] = l[i + 1]
      /\ Head(l) = l[1]
    BY HeadTailProperties, LenProperties, EmptySeq
<1> HIDE DEF a
<1>2. Distinct(a)
  <2>1. ASSUME NEW i \in DOMAIN a, NEW j \in DOMAIN a, a[i] = a[j] PROVE i = j
    <3>1. i + 1 \in DOMAIN l /\ j + 1 \in DOMAIN l /\ l[i + 1] = l[j + 1]
        BY <1>1, <2>1
    <3>2. i + 1 = j + 1
        BY <3>1 DEF Distinct
    <3> QED
        BY <1>1, <3>2
  <2> QED
      BY <2>1 DEF Distinct
<1>3. ASSUME NEW n \in Message PROVE Queued(n, a) <=> Queued(n, l) /\ n # Head(l)
  <2>1. ASSUME Queued(n, l), n # Head(l) PROVE Queued(n, a)
    <3>1. PICK i \in DOMAIN l : l[i] = n
        BY <2>1 DEF Queued
    <3>2. i - 1 \in DOMAIN a /\ a[i - 1] = n
        BY <1>1, <2>1, <3>1
    <3> QED
        BY <3>2 DEF Queued
  <2>2. ASSUME Queued(n, a) PROVE Queued(n, l) /\ n # Head(l)
    <3>1. PICK i \in DOMAIN a : a[i] = n
        BY <2>2 DEF Queued
    <3>2. i + 1 \in DOMAIN l /\ l[i + 1] = n /\ 1 \in DOMAIN l /\ i + 1 # 1
        BY <1>1, <3>1
    <3> QED
        BY <1>1, <3>2 DEF Queued, Distinct
  <2> QED
      BY <2>1, <2>2
<1> QED
    BY <1>1, <1>2, <1>3 DEF a

LEMMA NextLanes ==
    ASSUME Shapes, Lanes, [Next]_vars
    PROVE  Lanes'
<1>0. /\ lane \in [Chat -> Seq(Message)] /\ stage \in [Message -> Stage]
      /\ \A m \in Message : Audience(m) \in Chat
      /\ \A m \in Message : stage[m] \in InLane <=> Queued(m, lane[Audience(m)])
      /\ \A c \in Chat : Distinct(lane[c])
    BY MessageKinds DEF Shapes, Lanes, Distinct
<1>1. SUFFICES /\ lane' \in [Chat -> Seq(Message)]
               /\ \A n \in Message : stage'[n] \in InLane <=> Queued(n, lane'[Audience(n)])
               /\ \A c \in Chat : Distinct(lane'[c])
    BY DEF Lanes, Distinct
<1>2. ASSUME NEW m \in Message, StageOnly(m)
      PROVE  /\ lane' = lane
             /\ \A n \in Message : stage'[n] \in InLane <=> stage[n] \in InLane
    BY <1>0, <1>2 DEF StageOnly
<1>3. ASSUME NEW m \in Message, Enters(m)
      PROVE  /\ lane' \in [Chat -> Seq(Message)]
             /\ \A n \in Message : stage'[n] \in InLane <=> Queued(n, lane'[Audience(n)])
             /\ \A c \in Chat : Distinct(lane'[c])
  <2> DEFINE a == Audience(m)
  <2>1. a \in Chat /\ ~ Queued(m, lane[a]) /\ "waiting" \in InLane
      BY <1>0, <1>3 DEF Enters, InLane, InTurn
  <2>2. /\ lane'[a] \in Seq(Message) /\ Distinct(lane'[a])
        /\ \A n \in Message : Queued(n, lane'[a]) <=> Queued(n, lane[a]) \/ n = m
      BY <1>0, <1>3, <2>1, JoinedLane DEF Enters
  <2>3. \A c \in Chat \ {a} : lane'[c] = lane[c]
      BY <1>0, <1>3 DEF Enters
  <2>4. \A n \in Message \ {m} : stage'[n] = stage[n]
      BY <1>0, <1>3 DEF Enters
  <2>5. stage'[m] = "waiting"
      BY <1>0, <1>3 DEF Enters
  <2>6. lane' \in [Chat -> Seq(Message)]
      BY <1>0, <1>3, <2>2 DEF Enters
  <2> HIDE DEF a
  <2>7. ASSUME NEW n \in Message PROVE stage'[n] \in InLane <=> Queued(n, lane'[Audience(n)])
    <3>1. CASE n = m            BY <2>1, <2>2, <2>5, <3>1 DEF a
    <3>2. CASE n # m /\ Audience(n) = a   BY <1>0, <2>2, <2>4, <3>2
    <3>3. CASE Audience(n) # a  BY <1>0, <2>3, <2>4, <3>3 DEF a
    <3> QED
        BY <3>1, <3>2, <3>3
  <2> QED
      BY <1>0, <2>2, <2>3, <2>6, <2>7
<1>4. ASSUME NEW m \in Message, Exits(m)
      PROVE  /\ lane' \in [Chat -> Seq(Message)]
             /\ \A n \in Message : stage'[n] \in InLane <=> Queued(n, lane'[Audience(n)])
             /\ \A c \in Chat : Distinct(lane'[c])
  <2> DEFINE a == Audience(m)
  <2>1. a \in Chat /\ lane[a] # << >> /\ Head(lane[a]) = m
      BY <1>0, <1>4 DEF Exits, HasTurn
  <2>2. /\ lane'[a] \in Seq(Message) /\ Distinct(lane'[a])
        /\ \A n \in Message : Queued(n, lane'[a]) <=> Queued(n, lane[a]) /\ n # m
      BY <1>0, <1>4, <2>1, LeftLane DEF Exits
  <2>3. \A c \in Chat \ {a} : lane'[c] = lane[c]
      BY <1>0, <1>4 DEF Exits
  <2>4. \A n \in Message \ {m} : stage'[n] = stage[n]
      BY <1>0, <1>4 DEF Exits
  <2>5. stage'[m] \notin InLane
      BY <1>0, <1>4 DEF Exits, InLane, InTurn
  <2>6. lane' \in [Chat -> Seq(Message)]
      BY <1>0, <1>4, <2>2 DEF Exits
  <2> HIDE DEF a
  <2>7. ASSUME NEW n \in Message PROVE stage'[n] \in InLane <=> Queued(n, lane'[Audience(n)])
    <3>1. CASE n = m            BY <2>1, <2>2, <2>5, <3>1 DEF a
    <3>2. CASE n # m /\ Audience(n) = a   BY <1>0, <2>2, <2>4, <3>2
    <3>3. CASE Audience(n) # a  BY <1>0, <2>3, <2>4, <3>3 DEF a
    <3> QED
        BY <3>1, <3>2, <3>3
  <2> QED
      BY <1>0, <2>2, <2>3, <2>6, <2>7
<1> QED
    BY <1>0, <1>2, <1>3, <1>4, LaneKinds

LEMMA InitTypes == Init => Shapes /\ Lanes
<1> SUFFICES ASSUME Init PROVE Shapes /\ Lanes
    OBVIOUS
<1>1. Shapes
    BY DEF Init, Shapes, Stage, Token
<1>2. Lanes
  <2>1. << >> \in Seq(Message) /\ DOMAIN << >> = {}
      BY EmptySeq
  <2> QED
      BY <2>1, MessageKinds DEF Init, Lanes, Queued, InLane, InTurn
<1> QED
    BY <1>1, <1>2

\* Every variable keeps its shape, and a lane holds exactly the messages past
\* their log lines whose turn is not over, each once: the promise chain of
\* sendControlPlaneMessage never holds a message twice nor loses one.
THEOREM TypeCorrect == Spec => []TypeOK
<1>1. Init => Shapes /\ Lanes
    BY InitTypes
<1>2. Shapes /\ Lanes /\ [Next]_vars => (Shapes /\ Lanes)'
    BY NextShapes, NextLanes
<1>3. Shapes /\ Lanes => TypeOK
    BY TypeParts
<1> QED
    BY <1>1, <1>2, <1>3, PTL DEF Spec

-----------------------------------------------------------------------------
\* The order of a chat.

\* A token is a call that is not over, no two calls have the same, and a mark is
\* never older than the messages of its own sort.
Tokens ==
    /\ nextToken >= 1
    /\ \A m \in Message : token[m] = 0 <=> Over(m)
    /\ \A m \in Message : token[m] < nextToken
    /\ \A m, n \in Message : token[m] = token[n] /\ token[m] # 0 => m = n
    /\ \A c \in Chat : latestPreempting[c] < nextToken /\ latestSupersedable[c] < nextToken
    /\ \A m \in Message : IsPreempting(m) => token[m] <= latestPreempting[Audience(m)]
    /\ \A m \in Message : IsSupersedable(m) => token[m] <= latestSupersedable[Audience(m)]
    /\ \A m \in Message : stage[m] = "preempting" => IsPreempting(m)

\* What changes tokens and stages: a call dropped at once, ...
DroppedAtOnce(m) ==
    /\ stage[m] = "unsent" /\ stage' = [stage EXCEPT ![m] = "dropped"]
    /\ UNCHANGED <<token, nextToken, latestPreempting, latestSupersedable, seen, lane>>
\* ... a call that gets a token, ...
Begun(m) ==
    /\ stage[m] = "unsent"
    /\ token' = [token EXCEPT ![m] = nextToken] /\ nextToken' = nextToken + 1
    /\ \/ /\ IsPreempting(m)
          /\ latestPreempting' = [latestPreempting EXCEPT ![Audience(m)] = nextToken]
          /\ latestSupersedable' = latestSupersedable
       \/ /\ IsSupersedable(m)
          /\ latestSupersedable' = [latestSupersedable EXCEPT ![Audience(m)] = token'[m]]
          /\ latestPreempting' = latestPreempting
    /\ \E s \in {"preempting", "logging"} :
          stage' = [stage EXCEPT ![m] = s] /\ (s = "preempting" => IsPreempting(m))
    /\ UNCHANGED <<seen, lane>>
\* ... a call that moves on without being over, ...
OnItsWay(m) ==
    /\ ~ Over(m)
    /\ \/ /\ stage[m] \notin InTurn
          /\ \E s \in {"logging", "waiting"} : stage' = [stage EXCEPT ![m] = s]
       \/ \E s \in {"delivered", "committing"} : stage' = [stage EXCEPT ![m] = s]
    /\ UNCHANGED <<token, nextToken, latestPreempting, latestSupersedable>>
\* ... and a call that is over.
Ended(m) ==
    /\ HasTurn(m, stage[m]) /\ ~ Over(m)
    /\ token' = [token EXCEPT ![m] = 0]
    /\ \E s \in {"done", "dropped"} : stage' = [stage EXCEPT ![m] = s]
    /\ UNCHANGED <<nextToken, latestPreempting, latestSupersedable, seen>>

LEMMA CallKinds ==
    ASSUME Shapes, Tokens, [Next]_vars
    PROVE  \/ \E m \in Message :
                \/ DroppedAtOnce(m) \/ Begun(m) \/ Ended(m) \/ Pass(m)
                \/ OnItsWay(m) /\ (seen' = seen \/ Deliver(m, TRUE))
           \/ Quiet
<1>1. ASSUME NEW m \in Message, Sends(m) PROVE DroppedAtOnce(m) \/ Begun(m)
  <2>1. IsPreempting(m) <=> ~ IsSupersedable(m)
      BY MessageKinds
  <2> QED
      BY <1>1, <2>1, SendsEffect DEF DroppedAtOnce, Begun, Arm, marks
<1>2. ASSUME NEW m \in Message, LaneStep(m)
      PROVE  \/ Ended(m) \/ Pass(m) \/ Quiet
             \/ OnItsWay(m) /\ (seen' = seen \/ Deliver(m, TRUE))
  <2>1. CASE GoOnPreempting(m)
    <3>1. ~ IsSupersedable(m) /\ ~ Over(m) /\ stage[m] = "preempting"
        BY <2>1, MessageKinds DEF GoOnPreempting, Tokens, Over
    <3>2. [stage EXCEPT ![m] = "preempting"] = stage
        BY <3>1 DEF Shapes
    <3> QED
        BY <2>1, <3>1, <3>2, GoOnEffect DEF OnItsWay, Arm, Stage, Quiet, InTurn
  <2>2. CASE JoinLane(m)
      BY <2>2 DEF JoinLane, OnItsWay, Over, marks, Stage, InTurn
  <2>3. CASE Drop(m)
      BY <2>3 DEF Drop, Leaves, HasTurn, Ended, Over, marks
  <2>4. CASE Settle(m)
    <3>1. CASE /\ HasTurn(m, "delivered") /\ stage' = [stage EXCEPT ![m] = "committing"]
               /\ UNCHANGED <<token, nextToken, latestPreempting, latestSupersedable, seen>>
        BY <3>1 DEF HasTurn, OnItsWay, Over, Stage
    <3>2. CASE /\ HasTurn(m, IF IsTerminal(m) THEN "committing" ELSE "delivered")
               /\ stage' = [stage EXCEPT ![m] = "done"] /\ Leaves(m)
               /\ UNCHANGED <<nextToken, latestPreempting, latestSupersedable, seen>>
        BY <3>2 DEF HasTurn, Leaves, Ended, Over
    <3> QED
        BY <2>4, <3>1, <3>2 DEF Settle
  <2>5. ASSUME NEW ok \in BOOLEAN, Deliver(m, ok)
        PROVE  OnItsWay(m) /\ (seen' = seen \/ Deliver(m, TRUE))
    <3>1. OnItsWay(m)
        BY <2>5 DEF Deliver, HasTurn, OnItsWay, Over, Stage, marks
    <3>2. CASE ok        BY <2>5, <3>1, <3>2
    <3>3. CASE ~ ok      BY <2>5, <3>1, <3>3 DEF Deliver
    <3> QED
        BY <3>2, <3>3
  <2> QED
      BY <1>2, <2>1, <2>2, <2>3, <2>4, <2>5 DEF LaneStep
<1>3. CASE UNCHANGED vars
    BY <1>3 DEF vars, marks, Quiet
<1> QED
    BY <1>1, <1>2, <1>3, StepKinds

LEMMA NextTokens ==
    ASSUME Shapes, Tokens, [Next]_vars
    PROVE  Tokens'
<1>0. /\ stage \in [Message -> Stage] /\ token \in [Message -> Nat] /\ nextToken \in Nat
      /\ latestPreempting \in [Chat -> Nat] /\ latestSupersedable \in [Chat -> Nat]
      /\ \A m \in Message : Audience(m) \in Chat /\ (IsPreempting(m) <=> ~ IsSupersedable(m))
    BY MessageKinds DEF Shapes, Token
<1>1. ASSUME NEW m \in Message, DroppedAtOnce(m) PROVE Tokens'
    BY <1>0, <1>1 DEF DroppedAtOnce, Tokens, Over
<1>2. ASSUME NEW m \in Message, Begun(m) PROVE Tokens'
  <2>1. /\ token'[m] = nextToken /\ nextToken' = nextToken + 1
        /\ \A n \in Message \ {m} : token'[n] = token[n] /\ stage'[n] = stage[n]
        /\ stage'[m] \in {"preempting", "logging"}
        /\ stage'[m] = "preempting" => IsPreempting(m)
      BY <1>0, <1>2 DEF Begun
  <2>2. /\ \A c \in Chat : /\ latestPreempting'[c] \in {latestPreempting[c], nextToken}
                           /\ latestSupersedable'[c] \in {latestSupersedable[c], nextToken}
        /\ IsPreempting(m) => latestPreempting'[Audience(m)] = nextToken
        /\ IsSupersedable(m) => latestSupersedable'[Audience(m)] = nextToken
      BY <1>0, <1>2, <2>1 DEF Begun
  <2>3. /\ nextToken' >= 1
        /\ \A n \in Message : token'[n] < nextToken'
        /\ \A c \in Chat : latestPreempting'[c] < nextToken' /\ latestSupersedable'[c] < nextToken'
      BY <1>0, <2>1, <2>2 DEF Tokens
  <2>4. \A n \in Message : token'[n] = 0 <=> stage'[n] \in {"unsent", "done", "dropped"}
      BY <1>0, <2>1 DEF Tokens, Over
  <2>5. \A n, o \in Message : token'[n] = token'[o] /\ token'[n] # 0 => n = o
      BY <1>0, <2>1 DEF Tokens
  <2>6. ASSUME NEW n \in Message
        PROVE  /\ IsPreempting(n) => token'[n] <= latestPreempting'[Audience(n)]
               /\ IsSupersedable(n) => token'[n] <= latestSupersedable'[Audience(n)]
    <3>1. CASE n = m   BY <1>0, <2>1, <2>2, <3>1
    <3>2. CASE n # m   BY <1>0, <2>1, <2>2, <3>2 DEF Tokens
    <3> QED
        BY <3>1, <3>2
  <2>7. \A n \in Message : stage'[n] = "preempting" => IsPreempting(n)
      BY <2>1 DEF Tokens
  <2> QED
      BY <2>3, <2>4, <2>5, <2>6, <2>7 DEF Tokens, Over, Audience, IsPreempting, IsSupersedable
<1>3. ASSUME NEW m \in Message, Ended(m) PROVE Tokens'
  <2>1. /\ token'[m] = 0 /\ stage'[m] \in {"done", "dropped"}
        /\ \A n \in Message \ {m} : token'[n] = token[n] /\ stage'[n] = stage[n]
        /\ UNCHANGED <<nextToken, latestPreempting, latestSupersedable>>
      BY <1>0, <1>3 DEF Ended
  <2> QED
      BY <1>0, <2>1 DEF Tokens, Over, Audience, IsPreempting, IsSupersedable
<1>4. ASSUME NEW m \in Message, OnItsWay(m) \/ Pass(m) PROVE Tokens'
  <2>1. /\ ~ Over(m) /\ stage'[m] \notin {"unsent", "done", "dropped", "preempting"}
        /\ \A n \in Message \ {m} : stage'[n] = stage[n]
        /\ UNCHANGED <<token, nextToken, latestPreempting, latestSupersedable>>
      BY <1>0, <1>4 DEF OnItsWay, Pass, HasTurn, Over, marks
  <2> QED
      BY <1>0, <2>1 DEF Tokens, Over, Audience, IsPreempting, IsSupersedable
<1>5. CASE Quiet
    BY <1>5 DEF Quiet, Tokens, Over, Audience, IsPreempting, IsSupersedable
<1> QED
    BY <1>1, <1>2, <1>3, <1>4, <1>5, CallKinds

\* A message whose turn has come is the first of its lane; the users of a chat
\* have seen no token newer than both marks, and none of a call that is not
\* delivered yet; and a follow-up in its turn is newer than all they have seen.
Turns ==
    /\ \A m \in Message : stage[m] \in InTurn => HasTurn(m, stage[m])
    /\ \A c \in Chat : seen[c] <= latestPreempting[c] \/ seen[c] <= latestSupersedable[c]
    /\ \A m \in Message : token[m] # 0 /\ stage[m] \notin {"delivered", "committing"}
                            => seen[Audience(m)] # token[m]
    /\ \A m \in Message : IsSupersedable(m) /\ stage[m] = "delivering"
                            => seen[Audience(m)] < token[m]

\* Only the message at the front has its turn.
LEMMA NextFront ==
    ASSUME Shapes, Lanes, Turns, [Next]_vars,
           NEW n \in Message, stage'[n] \in InTurn
    PROVE  lane'[Audience(n)] # << >> /\ Head(lane'[Audience(n)]) = n
<1> DEFINE c == Audience(n)
<1>0. /\ stage \in [Message -> Stage] /\ c \in Chat
      /\ lane \in [Chat -> Seq(Message)]
      /\ \A m \in Message : Audience(m) \in Chat
      /\ stage[n] \in InTurn => lane[c] # << >> /\ Head(lane[c]) = n
    BY MessageKinds DEF Shapes, Lanes, Turns, HasTurn
<1> HIDE DEF c
<1>1. ASSUME NEW m \in Message, StageOnly(m) PROVE lane'[c] # << >> /\ Head(lane'[c]) = n
    BY <1>0, <1>1 DEF StageOnly, HasTurn, c
<1>2. ASSUME NEW m \in Message, Enters(m) PROVE lane'[c] # << >> /\ Head(lane'[c]) = n
  <2>1. n # m /\ stage[n] \in InTurn
      BY <1>0, <1>2 DEF Enters, InTurn
  <2>2. CASE Audience(m) = c
    <3>1. lane'[c] = Append(lane[c], m)
        BY <1>0, <1>2, <2>2 DEF Enters
    <3>2. lane[c] \in Seq(Message) /\ lane[c] # << >> /\ Head(lane[c]) = n
        BY <1>0, <2>1
    <3>3. Append(lane[c], m) # << >> /\ Head(Append(lane[c], m)) = Head(lane[c])
        BY <3>2, HeadTailAppend, AppendProperties
    <3> QED
        BY <3>1, <3>2, <3>3
  <2>3. CASE Audience(m) # c
      BY <1>0, <1>2, <2>1, <2>3 DEF Enters
  <2> QED
      BY <2>2, <2>3
<1>3. ASSUME NEW m \in Message, Exits(m) PROVE lane'[c] # << >> /\ Head(lane'[c]) = n
  <2>1. n # m /\ stage[n] \in InTurn
      BY <1>0, <1>3 DEF Exits, InTurn
  <2>2. Audience(m) # c
      BY <1>0, <1>3, <2>1 DEF Exits, HasTurn
  <2>3. lane'[c] = lane[c]
      BY <1>0, <1>3, <2>2 DEF Exits
  <2>4. lane[c] # << >> /\ Head(lane[c]) = n
      BY <1>0, <2>1
  <2> QED
      BY <2>3, <2>4
<1>4. CASE UNCHANGED <<stage, lane>>
    BY <1>0, <1>4 DEF c
<1> QED
    BY <1>1, <1>2, <1>3, <1>4, LaneKinds DEF c

\* A follow-up passes only as the newest message of its chat.
LEMMA PassesNewest ==
    ASSUME Shapes, Tokens, Turns, NEW m \in Message, Pass(m), IsSupersedable(m)
    PROVE  seen[Audience(m)] < token[m]
<1>1. /\ stage[m] = "waiting" /\ token[m] \in Nat /\ token[m] # 0
      /\ Audience(m) \in Chat /\ seen[Audience(m)] \in Nat
      /\ latestPreempting[Audience(m)] \in Nat
    BY MessageKinds DEF Pass, HasTurn, Shapes, Tokens, Over, Token
<1>2. latestPreempting[Audience(m)] <= token[m] /\ latestSupersedable[Audience(m)] = token[m]
    BY <1>1 DEF Pass, Outranked
<1>3. seen[Audience(m)] # token[m]
    BY <1>1 DEF Turns
<1> QED
    BY <1>1, <1>2, <1>3 DEF Turns

LEMMA NextTurns ==
    ASSUME Shapes, Lanes, Tokens, Turns, [Next]_vars
    PROVE  Turns'
<1>0. /\ stage \in [Message -> Stage] /\ token \in [Message -> Nat] /\ nextToken \in Nat
      /\ latestPreempting \in [Chat -> Nat] /\ latestSupersedable \in [Chat -> Nat]
      /\ seen \in [Chat -> Nat]
      /\ \A m \in Message : Audience(m) \in Chat /\ (IsPreempting(m) <=> ~ IsSupersedable(m))
    BY MessageKinds DEF Shapes, Token
<1> DEFINE Sighted ==
        /\ \A c \in Chat : seen[c] <= latestPreempting[c] \/ seen[c] <= latestSupersedable[c]
        /\ \A m \in Message : token[m] # 0 /\ stage[m] \notin {"delivered", "committing"}
                                => seen[Audience(m)] # token[m]
        /\ \A m \in Message : IsSupersedable(m) /\ stage[m] = "delivering"
                                => seen[Audience(m)] < token[m]
<1>1. \A n \in Message : stage'[n] \in InTurn => HasTurn(n, stage[n])'
    BY NextFront DEF HasTurn
<1>2. SUFFICES Sighted'
    BY <1>1 DEF Turns
<1>3. Sighted
    BY DEF Turns
<1>4. ASSUME NEW m \in Message, DroppedAtOnce(m) PROVE Sighted'
    BY <1>0, <1>3, <1>4 DEF DroppedAtOnce, Audience, IsSupersedable, Tokens, Over
<1>5. ASSUME NEW m \in Message, Begun(m) PROVE Sighted'
  <2>1. /\ token'[m] = nextToken /\ seen' = seen
        /\ stage'[m] \in {"preempting", "logging"}
        /\ \A n \in Message \ {m} : token'[n] = token[n] /\ stage'[n] = stage[n]
      BY <1>0, <1>5 DEF Begun
  <2>2. \A c \in Chat : /\ latestPreempting'[c] \in {latestPreempting[c], nextToken}
                        /\ latestSupersedable'[c] \in {latestSupersedable[c], nextToken}
                        /\ latestPreempting[c] < nextToken /\ latestSupersedable[c] < nextToken
      BY <1>0, <1>5, <2>1 DEF Begun, Tokens
  <2>3. \A c \in Chat : seen[c] < nextToken
      BY <1>0, <1>3, <2>2
  <2> QED
      BY <1>0, <1>3, <2>1, <2>2, <2>3 DEF Audience, IsSupersedable
<1>6. ASSUME NEW m \in Message, Ended(m) PROVE Sighted'
  <2>1. /\ token'[m] = 0 /\ stage'[m] \in {"done", "dropped"}
        /\ \A n \in Message \ {m} : token'[n] = token[n] /\ stage'[n] = stage[n]
        /\ UNCHANGED <<latestPreempting, latestSupersedable, seen>>
      BY <1>0, <1>6 DEF Ended
  <2> QED
      BY <1>0, <1>3, <2>1 DEF Audience, IsSupersedable
<1>7. ASSUME NEW m \in Message, Pass(m) PROVE Sighted'
  <2>1. /\ stage[m] = "waiting" /\ stage'[m] = "delivering"
        /\ \A n \in Message \ {m} : stage'[n] = stage[n]
        /\ UNCHANGED <<token, latestPreempting, latestSupersedable, seen>>
      BY <1>0, <1>7 DEF Pass, HasTurn, marks
  <2>2. IsSupersedable(m) => seen[Audience(m)] < token[m]
      BY <1>7, PassesNewest
  <2> QED
      BY <1>0, <1>3, <2>1, <2>2 DEF Audience, IsSupersedable
<1>8. ASSUME NEW m \in Message, OnItsWay(m), seen' = seen PROVE Sighted'
  <2>1. /\ token[m] # 0 /\ stage'[m] # "delivering"
        /\ stage'[m] \notin {"delivered", "committing"} => stage[m] \notin {"delivered", "committing"}
        /\ \A n \in Message \ {m} : stage'[n] = stage[n]
        /\ UNCHANGED <<token, latestPreempting, latestSupersedable>>
      BY <1>0, <1>8 DEF OnItsWay, Tokens, Over, InTurn
  <2> QED
      BY <1>0, <1>3, <1>8, <2>1 DEF Audience, IsSupersedable
<1>9. ASSUME NEW m \in Message, Deliver(m, TRUE) PROVE Sighted'
  <2> DEFINE a == Audience(m)
  <2>1. /\ stage[m] = "delivering" /\ stage'[m] = "delivered" /\ a \in Chat
        /\ \A n \in Message \ {m} : stage'[n] = stage[n]
        /\ \A c \in Chat \ {a} : seen'[c] = seen[c]
        /\ seen'[a] \in {seen[a], token[m]}
        /\ UNCHANGED <<token, latestPreempting, latestSupersedable>>
      BY <1>0, <1>9 DEF Deliver, HasTurn, marks
  <2>2. token[m] <= latestPreempting[a] \/ token[m] <= latestSupersedable[a]
      BY <1>0 DEF Tokens
  <2>3. \A n \in Message : n # m /\ stage[n] = "delivering" => Audience(n) # a
      BY <1>9 DEF Turns, InTurn, Deliver, HasTurn
  <2>4. \A n \in Message : n # m /\ token[n] # 0 => token[n] # token[m]
      BY DEF Tokens
  <2> HIDE DEF a
  <2>5. \A c \in Chat : seen'[c] <= latestPreempting'[c] \/ seen'[c] <= latestSupersedable'[c]
      BY <1>0, <1>3, <2>1, <2>2
  <2>6. ASSUME NEW n \in Message, token'[n] # 0, stage'[n] \notin {"delivered", "committing"}
        PROVE  seen'[Audience(n)] # token'[n]
    <3>1. n # m /\ stage[n] = stage'[n] /\ token'[n] = token[n] /\ seen[Audience(n)] # token[n]
        BY <1>0, <1>3, <2>1, <2>6
    <3> QED
        BY <1>0, <2>1, <2>4, <2>6, <3>1
  <2>7. ASSUME NEW n \in Message, IsSupersedable(n), stage'[n] = "delivering"
        PROVE  seen'[Audience(n)] < token'[n]
    <3>1. n # m /\ stage[n] = "delivering" /\ token'[n] = token[n] /\ seen[Audience(n)] < token[n]
        BY <1>0, <1>3, <2>1, <2>7
    <3> QED
        BY <1>0, <2>1, <2>3, <3>1
  <2> QED
      BY <2>5, <2>6, <2>7 DEF Audience, IsSupersedable
<1>10. CASE Quiet
    BY <1>0, <1>3, <1>10 DEF Quiet, Audience, IsSupersedable
<1> QED
    BY <1>4, <1>5, <1>6, <1>7, <1>8, <1>9, <1>10, CallKinds

Ordered == Shapes /\ Lanes /\ Tokens /\ Turns

THEOREM OrderKept == Spec => []Ordered
<1>1. Init => Tokens /\ Turns
    BY MessageKinds DEF Init, Tokens, Turns, Over, InTurn
<1>2. Init => Ordered
    BY <1>1, InitTypes DEF Ordered
<1>3. Ordered /\ [Next]_vars => Ordered'
    BY NextShapes, NextLanes, NextTokens, NextTurns DEF Ordered
<1> QED
    BY <1>2, <1>3, PTL DEF Spec

\* A follow-up that reaches the user is newer than all the user has seen in the
\* chat: what passed the lane's comparison of tokens is delivered before any
\* other message of the chat, and the messages that make it old mark the chat in
\* the step that gives them their token.
THEOREM FollowupsAreNewest == Spec => FollowupIsNewest
<1>1. Ordered => \A m \in Message :
                    Deliver(m, TRUE) /\ IsSupersedable(m) => seen[Audience(m)] < token[m]
    BY DEF Ordered, Turns, Deliver, HasTurn
<1> QED
    BY <1>1, OrderKept, PTL DEF FollowupIsNewest

-----------------------------------------------------------------------------
\* The marks of a task.

\* A task marked as having a terminal message on its way keeps one.
LEMMA NextPending ==
    ASSUME Shapes, PendingTerminalIsOnItsWay, [Next]_vars
    PROVE  PendingTerminalIsOnItsWay'
<1> SUFFICES ASSUME NEW t \in pendingTerminal'
             PROVE  \E m \in Message : m.about = t /\ IsTerminal(m) /\ ~ Over(m)'
    BY DEF PendingTerminalIsOnItsWay, IsTerminal
<1>0. stage \in [Message -> Stage]
    BY DEF Shapes
<1>1. CASE t \notin pendingTerminal
  <2>1. PICK m \in Message : Arm(m) /\ IsTerminal(m) /\ t = m.about
    <3>1. ASSUME NEW m \in Message, Sends(m) PROVE Arm(m) /\ IsTerminal(m) /\ t = m.about
        BY <1>1, <3>1, SendsEffect DEF Arm, marks
    <3>2. ASSUME NEW m \in Message, LaneStep(m) PROVE Arm(m) /\ IsTerminal(m) /\ t = m.about
      <4>1. CASE GoOnPreempting(m)
          BY <1>1, <4>1, GoOnEffect DEF Arm
      <4>2. CASE ~ GoOnPreempting(m)
          BY <1>1, <3>2, <4>2 DEF LaneStep, JoinLane, Drop, Pass, Settle, Deliver, marks
      <4> QED
          BY <4>1, <4>2
    <3>3. ~ UNCHANGED vars
        BY <1>1 DEF vars, marks
    <3>4. ASSUME Next PROVE (\E m \in Message : Sends(m) \/ LaneStep(m)) \/ pendingTerminal' \subseteq pendingTerminal
      <4>1. ASSUME NEW u \in Task,
                   \/ Acknowledge(u)
                   \/ \E short \in BOOLEAN : ArmReceipt(u, short)
                   \/ TimerFires(u) \/ HookReads(u) \/ SendFollowup(u)
                   \/ AgentEnd(u) \/ Forget(u) \/ ClearSessionTaskArtifacts(u)
                   \/ \E report \in BOOLEAN : Finalize(u, report)
            PROVE  (\E m \in Message : Sends(m)) \/ pendingTerminal' \subseteq pendingTerminal
          BY <4>1, MessageKinds DEF Acknowledge, ArmReceipt, TimerFires, HookReads, SendFollowup,
             AgentEnd, Forget, ClearSessionTaskArtifacts, Finalize, marks
      <4> QED
          BY <3>4, <4>1, MessageKinds DEF Next, Sender, ConfirmSchedule, SendCommand
    <3> QED
        BY <1>1, <3>1, <3>2, <3>3, <3>4
  <2>2. stage'[m] = "logging"
      BY <1>0, <2>1 DEF Arm
  <2> QED
      BY <2>1, <2>2 DEF Over
<1>2. CASE t \in pendingTerminal
  <2>1. PICK m \in Message : m.about = t /\ IsTerminal(m) /\ ~ Over(m)
      BY <1>2 DEF PendingTerminalIsOnItsWay
  <2>2. stage'[m] \notin {"unsent", "done", "dropped"}
    <3>1. ASSUME NEW n \in Message, Sends(n) PROVE stage'[m] = stage[m]
        BY <1>0, <2>1, <3>1, SendsEffect DEF Over, Arm
    <3>2. ASSUME NEW n \in Message, LaneStep(n)
          PROVE  stage'[m] \notin {"unsent", "done", "dropped"}
      <4>1. CASE GoOnPreempting(n)
          BY <1>0, <2>1, <4>1, GoOnEffect DEF Over, Arm
      <4>2. CASE JoinLane(n) \/ Pass(n) \/ \E ok \in BOOLEAN : Deliver(n, ok)
          BY <1>0, <2>1, <4>2 DEF Over, JoinLane, Pass, Deliver
      <4>3. CASE Drop(n)
          BY <1>0, <2>1, <4>3, MessageKinds DEF Over, Drop, Outranked
      <4>4. CASE Settle(n)
        <5>1. CASE stage' = [stage EXCEPT ![n] = "committing"]
            BY <1>0, <2>1, <5>1 DEF Over
        <5>2. CASE /\ pendingTerminal' = IF IsTerminal(n) THEN pendingTerminal \ {n.about} ELSE pendingTerminal
                   /\ stage' = [stage EXCEPT ![n] = "done"]
            BY <1>0, <2>1, <5>2 DEF Over
        <5> QED
            BY <4>4, <5>1, <5>2 DEF Settle
      <4> QED
          BY <3>2, <4>1, <4>2, <4>3, <4>4 DEF LaneStep
    <3>3. CASE Quiet \/ UNCHANGED vars
        BY <2>1, <3>3 DEF Quiet, vars, Over
    <3>4. stage[m] \notin {"unsent", "done", "dropped"}
        BY <2>1 DEF Over
    <3> QED
        BY <3>1, <3>2, <3>3, <3>4, StepKinds
  <2> QED
      BY <2>1, <2>2 DEF Over
<1> QED
    BY <1>1, <1>2

\* The mark that silences the follow-ups of a task for a terminal message on its
\* way never outlives that message: the lane drops no terminal message, and the
\* step that ends one takes the mark away.
THEOREM PendingTerminalsAreOnTheirWay == Spec => []PendingTerminalIsOnItsWay
<1>1. Init => PendingTerminalIsOnItsWay
    BY DEF Init, PendingTerminalIsOnItsWay
<1>2. TypeOK /\ PendingTerminalIsOnItsWay /\ [Next]_vars => PendingTerminalIsOnItsWay'
    BY NextPending, TypeParts
<1> QED
    BY <1>1, <1>2, TypeCorrect, PTL DEF Spec

\* A confirmation is on its way only while the agent runs, a report only while
\* agent_end waits for it.
Reported ==
    /\ \A t \in Planner : ~ Over(Msg("scheduled", t)) => task[t] = "running"
    /\ \A t \in Task : ~ Over(Msg("finished", t)) => task[t] = "finalized"

\* No other call is begun than the one sent.
LEMMA SendsOne ==
    ASSUME Shapes, NEW m \in Message, Sends(m)
    PROVE  \A n \in Message \ {m} : stage'[n] = stage[n]
BY SendsEffect DEF Shapes, Arm

\* A message that moves on begins no call and touches no run.
LEMMA LaneBeginsNone ==
    ASSUME Shapes, NEW m \in Message, LaneStep(m)
    PROVE  /\ task' = task
           /\ \A n \in Message : Over(n) => Over(n)'
<1>0. stage \in [Message -> Stage]
    BY DEF Shapes
<1>1. CASE GoOnPreempting(m)  BY <1>0, <1>1, GoOnEffect DEF Over, Arm
<1>2. CASE JoinLane(m)        BY <1>0, <1>2 DEF JoinLane, Over, runs
<1>3. CASE Drop(m)            BY <1>0, <1>3 DEF Drop, HasTurn, Over, runs
<1>4. CASE Pass(m)            BY <1>0, <1>4 DEF Pass, HasTurn, Over, runs
<1>5. CASE Settle(m)          BY <1>0, <1>5 DEF Settle, HasTurn, Over, runs
<1>6. CASE \E ok \in BOOLEAN : Deliver(m, ok)
    BY <1>0, <1>6 DEF Deliver, HasTurn, Over, runs
<1> QED
    BY <1>1, <1>2, <1>3, <1>4, <1>5, <1>6 DEF LaneStep

LEMMA NextReported ==
    ASSUME Shapes, Reported, [Next]_vars
    PROVE  Reported'
<1>0. task \in [Task -> {"new", "acked", "running", "settling", "finalized", "ended"}]
    BY DEF Shapes
<1>1. ASSUME NEW m \in Message, Sends(m), m.kind \notin {"scheduled", "finished"},
             NEW t \in Task, \A u \in Task \ {t} : task'[u] = task[u],
             task[t] \in {"running", "finalized"} => task'[t] = task[t]
      PROVE  Reported'
  <2>0. \A u \in Task : Msg("finished", u) # m /\ Msg("scheduled", u) # m
      BY <1>1 DEF Msg
  <2>1. /\ \A u \in Task : Over(Msg("finished", u))' <=> Over(Msg("finished", u))
        /\ \A u \in Planner : Over(Msg("scheduled", u))' <=> Over(Msg("scheduled", u))
      BY <1>1, <2>0, SendsOne, MessageKinds DEF Over
  <2> QED
      BY <1>1, <2>1, MessageKinds DEF Reported
<1>2. ASSUME NEW t \in Task, UNCHANGED stage, \A u \in Task \ {t} : task'[u] = task[u],
             \/ task'[t] = task[t]
             \/ task[t] \notin {"running", "finalized"}
             \/ task[t] = "running" /\ (t \in Planner => Over(Msg("scheduled", t)))
             \/ task[t] = "finalized" /\ Over(Msg("finished", t))
      PROVE  Reported'
    BY <1>2, MessageKinds DEF Reported, Over
<1>3. ASSUME NEW t \in Task, Acknowledge(t) PROVE Reported'
    BY <1>0, <1>1, <1>3, MessageKinds DEF Acknowledge, Msg
<1>4. ASSUME NEW t \in Task, SendFollowup(t) PROVE Reported'
    BY <1>0, <1>1, <1>4, MessageKinds DEF SendFollowup, Msg
<1>5. ASSUME NEW c \in Command, SendCommand(c) PROVE Reported'
  <2>1. /\ Msg("command", c) \in Message /\ task' = task
        /\ Sends(Msg("command", c)) /\ Msg("command", c).kind = "command"
      BY <1>5, MessageKinds DEF SendCommand, Msg
  <2>2. /\ \A u \in Task : Over(Msg("finished", u))' <=> Over(Msg("finished", u))
        /\ \A u \in Planner : Over(Msg("scheduled", u))' <=> Over(Msg("scheduled", u))
      BY <2>1, SendsOne, MessageKinds DEF Over, Msg
  <2> QED
      BY <2>1, <2>2 DEF Reported
<1>6. ASSUME NEW t \in Planner, ConfirmSchedule(t) PROVE Reported'
  <2>1. /\ Msg("scheduled", t) \in Message /\ task' = task /\ task[t] = "running"
        /\ Sends(Msg("scheduled", t))
      BY <1>6, MessageKinds DEF ConfirmSchedule
  <2>2. /\ \A u \in Task : Over(Msg("finished", u))' <=> Over(Msg("finished", u))
        /\ \A u \in Planner \ {t} : Over(Msg("scheduled", u))' <=> Over(Msg("scheduled", u))
      BY <2>1, SendsOne, MessageKinds DEF Over, Msg
  <2> QED
      BY <2>1, <2>2 DEF Reported
<1>7. ASSUME NEW t \in Task, NEW report \in BOOLEAN, Finalize(t, report) PROVE Reported'
  <2>1. /\ Msg("finished", t) \in Message /\ task[t] = "settling" /\ task'[t] = "finalized"
        /\ \A u \in Task \ {t} : task'[u] = task[u]
        /\ Sends(Msg("finished", t)) \/ stage' = stage
      BY <1>0, <1>7, MessageKinds DEF Finalize
  <2>2. /\ \A u \in Task \ {t} : Over(Msg("finished", u))' <=> Over(Msg("finished", u))
        /\ \A u \in Planner : Over(Msg("scheduled", u))' <=> Over(Msg("scheduled", u))
      BY <2>1, SendsOne, MessageKinds DEF Over, Msg
  <2> QED
      BY <2>1, <2>2, MessageKinds DEF Reported
<1>8. ASSUME NEW t \in Task, NEW short \in BOOLEAN, ArmReceipt(t, short) PROVE Reported'
    BY <1>0, <1>2, <1>8 DEF ArmReceipt
<1>9. ASSUME NEW t \in Task, TimerFires(t) \/ HookReads(t) PROVE Reported'
    BY <1>2, <1>9 DEF TimerFires, HookReads
<1>10. ASSUME NEW t \in Task, AgentEnd(t) PROVE Reported'
    BY <1>0, <1>2, <1>10 DEF AgentEnd
<1>11. ASSUME NEW t \in Task, Forget(t) PROVE Reported'
    BY <1>0, <1>2, <1>11 DEF Forget
<1>12. ASSUME NEW t \in Task, ClearSessionTaskArtifacts(t) PROVE Reported'
    BY <1>0, <1>2, <1>12 DEF ClearSessionTaskArtifacts
<1>13. ASSUME NEW m \in Message, LaneStep(m) PROVE Reported'
    BY <1>13, LaneBeginsNone, MessageKinds DEF Reported
<1>14. CASE UNCHANGED vars
    BY <1>14 DEF vars, runs, Reported, Over
<1> QED
    BY <1>3, <1>4, <1>5, <1>6, <1>7, <1>8, <1>9, <1>10, <1>11, <1>12, <1>13, <1>14 DEF Next, Sender

LEMMA NextSilenced ==
    ASSUME Shapes, Reported, SilencedTaskIsLive, [Next]_vars
    PROVE  SilencedTaskIsLive'
<1>0. /\ task \in [Task -> {"new", "acked", "running", "settling", "finalized", "ended"}]
      /\ terminal \subseteq Task
    BY DEF Shapes
<1>1. ASSUME NEW t \in Task, \A u \in Task \ {t} : task'[u] = task[u],
             terminal' \subseteq terminal \cup {t},
             t \in terminal' => task'[t] \in {"running", "settling", "finalized"}
      PROVE  SilencedTaskIsLive'
    BY <1>0, <1>1 DEF SilencedTaskIsLive
<1>2. ASSUME NEW m \in Message, Sends(m) PROVE terminal' = terminal
    BY <1>2, SendsEffect
<1>3. ASSUME NEW t \in Task, Acknowledge(t) PROVE SilencedTaskIsLive'
    BY <1>0, <1>1, <1>2, <1>3, MessageKinds DEF Acknowledge, SilencedTaskIsLive
<1>4. ASSUME NEW t \in Task, SendFollowup(t) PROVE SilencedTaskIsLive'
    BY <1>2, <1>4, MessageKinds DEF SendFollowup, SilencedTaskIsLive
<1>5. ASSUME NEW c \in Command, SendCommand(c) PROVE SilencedTaskIsLive'
    BY <1>2, <1>5, MessageKinds DEF SendCommand, SilencedTaskIsLive
<1>6. ASSUME NEW t \in Planner, ConfirmSchedule(t) PROVE SilencedTaskIsLive'
    BY <1>2, <1>6, MessageKinds DEF ConfirmSchedule, SilencedTaskIsLive
<1>7. ASSUME NEW t \in Task, NEW report \in BOOLEAN, Finalize(t, report) PROVE SilencedTaskIsLive'
  <2>1. terminal' = terminal
      BY <1>2, <1>7, MessageKinds DEF Finalize, marks
  <2> QED
      BY <1>0, <1>1, <1>7, <2>1 DEF Finalize
<1>8. ASSUME NEW t \in Task, NEW short \in BOOLEAN, ArmReceipt(t, short) PROVE SilencedTaskIsLive'
    BY <1>0, <1>1, <1>8 DEF ArmReceipt, marks
<1>9. ASSUME NEW t \in Task, TimerFires(t) \/ HookReads(t) PROVE SilencedTaskIsLive'
    BY <1>9 DEF TimerFires, HookReads, marks, SilencedTaskIsLive
<1>10. ASSUME NEW t \in Task, AgentEnd(t) PROVE SilencedTaskIsLive'
    BY <1>0, <1>1, <1>10 DEF AgentEnd
<1>11. ASSUME NEW t \in Task, Forget(t) PROVE SilencedTaskIsLive'
    BY <1>0, <1>1, <1>11 DEF Forget
<1>12. ASSUME NEW t \in Task, ClearSessionTaskArtifacts(t) PROVE SilencedTaskIsLive'
    BY <1>0, <1>1, <1>12 DEF ClearSessionTaskArtifacts
<1>13. ASSUME NEW m \in Message, LaneStep(m) PROVE SilencedTaskIsLive'
  <2>1. task' = task
      BY <1>13, LaneBeginsNone
  <2>2. CASE terminal' \subseteq terminal
      BY <2>1, <2>2 DEF SilencedTaskIsLive
  <2>3. CASE Settle(m) /\ IsTerminal(m) /\ stage[m] = "delivered" /\ terminal' = terminal \cup {m.about}
    <3>1. \/ m.about \in Planner /\ m = Msg("scheduled", m.about)
          \/ m.about \in Task /\ m = Msg("finished", m.about)
        BY <2>3 DEF IsTerminal, Message, Msg
    <3>2. task[m.about] \in {"running", "finalized"}
        BY <2>3, <3>1 DEF Reported, Over
    <3> QED
        BY <2>1, <2>3, <3>2 DEF SilencedTaskIsLive
  <2>4. (terminal' \subseteq terminal) \/ (Settle(m) /\ IsTerminal(m) /\ stage[m] = "delivered"
                                          /\ terminal' = terminal \cup {m.about})
      BY <1>13, GoOnEffect DEF LaneStep, JoinLane, Drop, Pass, Settle, HasTurn, Deliver, marks
  <2> QED
      BY <2>2, <2>3, <2>4
<1>14. CASE UNCHANGED vars
    BY <1>14 DEF vars, runs, marks, SilencedTaskIsLive
<1> QED
    BY <1>3, <1>4, <1>5, <1>6, <1>7, <1>8, <1>9, <1>10, <1>11, <1>12, <1>13, <1>14 DEF Next, Sender

\* The lane keeps silent only a task whose agent runs or whose end is being
\* handled: a confirmation or report on its way keeps the task in the step that
\* sent it, and the steps that end the task take it out of the terminal set.
THEOREM SilencedTasksAreLive == Spec => []SilencedTaskIsLive
<1>1. Init => Reported /\ SilencedTaskIsLive
    BY MessageKinds DEF Init, Reported, SilencedTaskIsLive, Over
<1>2. TypeOK /\ Reported /\ SilencedTaskIsLive /\ [Next]_vars => (Reported /\ SilencedTaskIsLive)'
    BY NextReported, NextSilenced, TypeParts
<1> QED
    BY <1>1, <1>2, TypeCorrect, PTL DEF Spec

=============================================================================
