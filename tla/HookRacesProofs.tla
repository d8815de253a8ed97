--------------------------- MODULE HookRacesProofs ---------------------------
(***************************************************************************)
(* Proofs about HookRaces for any number of tasks, processes, hooks and    *)
(* crashes: the processes keep to their shapes, no task loses its last     *)
(* file, and only after a hook acted on a reading another hook had         *)
(* overtaken do two tasks run at once, do the two directories disagree or  *)
(* does a task wait behind a free slot.                                    *)
(***************************************************************************)
EXTENDS HookRaces, FiniteSetTheorems, WellFoundedInduction, TLAPS

-----------------------------------------------------------------------------
\* Type correctness.

\* The end of a process, whatever ended it, leaves nothing of it behind.
LEMMA EndsType ==
    ASSUME TypeOK, NEW p \in Proc, Ends(p),
           inflight' \in [Task -> Status \cup {"absent"}],
           archived' \in [Task -> Status \cup {"absent"}],
           hooks' \in 0..MaxHooks, crashes' \in 0..MaxCrashes, raced' \in BOOLEAN
    PROVE  TypeOK'
BY DEF TypeOK, Ends, Goes

\* A process goes on to its next access and writes back only if its hook does.
LEMMA GoesType ==
    ASSUME TypeOK, NEW p \in Proc, NEW next, Goes(p, next),
           pc[p] # "idle", next \in Step,
           next = "write-back" => hook[p] \notin {"claim", "finish", "block", "mark"},
           on'[p] = NoTask => hook[p] = "register" /\ next \in {"glob", "scan", "observe"},
           \A q \in Proc \ {p} : on'[q] = on[q],
           names' \in [Proc -> SUBSET Task], \A q \in Proc \ {p} : names'[q] = names[q],
           names'[p] # {} => next \in {"scan", "promote-scan"},
           inflight' \in [Task -> Status \cup {"absent"}],
           archived' \in [Task -> Status \cup {"absent"}],
           on' \in [Proc -> Task \cup {NoTask}], made' \in [Proc -> Task \cup {NoTask}],
           head' \in [Proc -> Task \cup {NoTask}], mine' \in [Proc -> Status \cup {"absent"}],
           busy' \in [Proc -> BOOLEAN],
           UNCHANGED <<hook, counts>>, raced' \in BOOLEAN
    PROVE  TypeOK'
<1>1. /\ hook' = hook /\ hooks' = hooks /\ crashes' = crashes
      /\ pc' = [pc EXCEPT ![p] = next] /\ next # "idle"
    BY DEF Goes, counts, Step
<1>2. pc' \in [Proc -> Step \cup {"idle"}] /\ pc'[p] = next /\ \A q \in Proc \ {p} : pc'[q] = pc[q]
    BY <1>1 DEF TypeOK
<1>3. \A q \in Proc : names'[q] # {} => pc'[q] \in {"scan", "promote-scan"}
    BY <1>2 DEF TypeOK
<1>4. \A q \in Proc : pc'[q] = "idle" <=> hook'[q] = "none"
    BY <1>1, <1>2 DEF TypeOK
<1>5. \A q \in Proc : pc'[q] = "write-back" => hook'[q] \notin {"claim", "finish", "block", "mark"}
    BY <1>1, <1>2 DEF TypeOK
<1>6. \A q \in Proc : on'[q] = NoTask => \/ pc'[q] = "idle"
                                         \/ hook'[q] = "register" /\ pc'[q] \in {"glob", "scan", "observe"}
    BY <1>1, <1>2 DEF TypeOK
<1> QED
    BY <1>1, <1>2, <1>3, <1>4, <1>5, <1>6 DEF TypeOK

\* A new hook starts in a process that is free.
LEMMA BeginType ==
    ASSUME TypeOK, NEW p \in Proc, Begin(p)
    PROVE  TypeOK'
<1>1. ASSUME NEW h \in Hook, NEW t \in Task \cup {NoTask}, NEW next \in {"glob", "load"},
             Begins(p, h, t, next), t = NoTask => h = "register" /\ next = "glob"
      PROVE  TypeOK'
  <2>1. /\ pc' = [pc EXCEPT ![p] = next] /\ hook' = [hook EXCEPT ![p] = h]
        /\ on' = [on EXCEPT ![p] = t] /\ hooks' = hooks + 1 /\ hooks < MaxHooks
        /\ UNCHANGED <<inflight, archived, made, mine, found, crashes, raced>>
        /\ names[p] = {}
      BY <1>1 DEF Begins, Goes, TypeOK
  <2>2. hooks' \in 0..MaxHooks
      BY <2>1, BoundAssumption DEF TypeOK
  <2>3. /\ hook' \in [Proc -> Hook \cup {"none"}] /\ pc' \in [Proc -> Step \cup {"idle"}]
        /\ on' \in [Proc -> Task \cup {NoTask}]
      BY <2>1 DEF TypeOK, Step
  <2>4. h # "none" /\ next # "idle" /\ next # "write-back"
      BY DEF Hook
  <2>5. \A q \in Proc : on'[q] = NoTask => \/ pc'[q] = "idle"
                                           \/ hook'[q] = "register" /\ pc'[q] \in {"glob", "scan", "observe"}
      BY <1>1, <2>1 DEF TypeOK
  <2> QED
      BY <2>1, <2>2, <2>3, <2>4, <2>5 DEF TypeOK, found
<1>2. NoTask \notin Task
    BY TaskAssumption DEF NoTask
<1> QED
    BY <1>1, <1>2 DEF Begin, BeginRegister, BeginClaim, BeginResume, BeginFollowup, BeginFinish,
                BeginBlock, BeginMark, BeginEscalate, Hook

\* The oldest waiting task is one that waits.
LEMMA OldestIsQueued ==
    ASSUME OldestQueued # NoTask \/ Queued # {}
    PROVE  OldestQueued \in Queued /\ OldestQueued # NoTask
<1>1. Queued \subseteq Task /\ Queued \subseteq Nat /\ Queued # {} /\ NoTask \notin Queued
    BY TaskAssumption DEF Queued, With, OldestQueued, NoTask
<1> DEFINE Below == {ss \in Nat \X Nat : ss[1] < ss[2]}
<1>2. IsWellFoundedOn(Below, Nat)
    BY NatLessThanWellFounded DEF OpToRel
<1>3. PICK n \in Queued : \A m \in Queued : ~ (<<m, n>> \in Below)
  <2> HIDE DEF Below
  <2> QED
      BY <1>1, <1>2, WFMin
<1>4. n \in Nat /\ \A m \in Queued : m \in Nat /\ ~ (m < n)
    BY <1>1, <1>3
<1>5. \A m \in Queued : n <= m
  <2> HIDE DEF Below
  <2> QED
      BY <1>4
<1> QED
    BY <1>1, <1>5 DEF OldestQueued

\* A scan finds a task or none.
LEMMA OldestQueuedType == OldestQueued \in Task \cup {NoTask}
BY OldestIsQueued DEF Queued, With

\* Each access of a process to the store keeps the shapes.
LEMMA AccessType ==
    ASSUME TypeOK, NEW p \in Proc, Access(p)
    PROVE  TypeOK'
<1> DEFINE Known == Status \cup {"absent"}
<1>0. /\ inflight \in [Task -> Known] /\ archived \in [Task -> Known]
      /\ on \in [Proc -> Task \cup {NoTask}] /\ made \in [Proc -> Task \cup {NoTask}]
      /\ head \in [Proc -> Task \cup {NoTask}] /\ mine \in [Proc -> Known]
      /\ names \in [Proc -> SUBSET Task] /\ busy \in [Proc -> BOOLEAN]
      /\ hooks \in 0..MaxHooks /\ crashes \in 0..MaxCrashes /\ raced \in BOOLEAN
      /\ names[p] # {} => pc[p] \in {"scan", "promote-scan"}
      /\ pc[p] = "write-back" => hook[p] \notin {"claim", "finish", "block", "mark"}
      /\ on[p] = NoTask => \/ pc[p] = "idle"
                           \/ hook[p] = "register" /\ pc[p] \in {"glob", "scan", "observe"}
    BY DEF TypeOK
<1>1. ASSUME NEW t, NEW status \in Known, Saves(t, status)
      PROVE  inflight' \in [Task -> Known]
    BY <1>0, <1>1 DEF Saves
<1>2. ASSUME NEW still \in BOOLEAN, ActsOn(still) PROVE raced' \in BOOLEAN
    BY <1>0, <1>2 DEF ActsOn
<1>3. Status \subseteq Known /\ "absent" \in Known
    OBVIOUS
<1>4. ASSUME Aborts(p) PROVE TypeOK'
    BY <1>0, <1>4, EndsType DEF Aborts, counts
<1>5. ASSUME Ends(p), inflight' \in [Task -> Known], archived' = archived,
             raced' \in BOOLEAN, UNCHANGED counts
      PROVE  TypeOK'
    BY <1>0, <1>5, EndsType DEF counts
<1>6. ASSUME NEW next \in Step, Continues(p, next), next \notin {"scan", "promote-scan"},
             pc[p] \notin {"idle", "glob", "scan", "promote-scan", "observe"},
             next = "write-back" => hook[p] \notin {"claim", "finish", "block", "mark"},
             inflight' \in [Task -> Known], archived' \in [Task -> Known],
             raced' \in BOOLEAN, UNCHANGED counts
      PROVE  TypeOK'
    BY <1>0, <1>6, GoesType DEF Continues, memory, found
<1> USE DEF Status, Step
<1>7. CASE Glob(p)
  <2>1. names' = [names EXCEPT ![p] = With(Status)] /\ With(Status) \in SUBSET Task
      BY <1>7 DEF Glob, With
  <2>2. names' \in [Proc -> SUBSET Task] /\ \A q \in Proc \ {p} : names'[q] = names[q]
      BY <1>0, <2>1
  <2>3. CASE pc[p] = "glob"
    <3>1. Goes(p, "scan") /\ UNCHANGED <<inflight, archived, memory, busy, head, counts, raced>>
        BY <1>7, <2>3 DEF Glob
    <3> QED
        BY <1>0, <2>2, <2>3, <3>1, GoesType DEF memory
  <2>4. CASE pc[p] = "promote-glob"
    <3>1. /\ Goes(p, "promote-scan")
          /\ UNCHANGED <<inflight, archived, memory, busy, head, counts, raced>>
        BY <1>7, <2>4 DEF Glob
    <3> QED
        BY <1>0, <2>2, <2>4, <3>1, GoesType DEF memory
  <2> QED
      BY <1>7, <2>3, <2>4 DEF Glob
<1>8. CASE Scan(p)
  <2>1. CASE Aborts(p)
      BY <1>4, <2>1
  <2>2. CASE names[p] \subseteq With(Status)
    <3>1. PICK next \in {"start", "observe", "load"} :
              /\ Goes(p, next) /\ pc[p] \in {"scan", "promote-scan"}
              /\ on[p] = NoTask => next = "observe"
              /\ busy' = [busy EXCEPT ![p] = Running # {}]
              /\ head' = [head EXCEPT ![p] = OldestQueued]
              /\ names' = [names EXCEPT ![p] = {}]
              /\ UNCHANGED <<inflight, archived, memory, counts, raced>>
        BY <1>0, <1>8, <2>2 DEF Scan
    <3>2. OldestQueued \in Task \cup {NoTask}
        BY OldestQueuedType
    <3>3. /\ busy' \in [Proc -> BOOLEAN] /\ head' \in [Proc -> Task \cup {NoTask}]
          /\ names' \in [Proc -> SUBSET Task] /\ names'[p] = {}
          /\ \A q \in Proc \ {p} : names'[q] = names[q]
        BY <1>0, <3>1, <3>2
    <3> QED
        BY <1>0, <3>1, <3>3, GoesType DEF memory
  <2> QED
      BY <1>8, <2>1, <2>2 DEF Scan
<1>9. CASE Load(p)
  <2>1. CASE Aborts(p)
      BY <1>4, <2>1
  <2>2. CASE ~ Aborts(p)
    <3>1. PICK next \in {"observe", "save"}, there \in {inflight[on[p]], Stored(on[p])} :
              /\ pc[p] = "load" /\ Goes(p, next) /\ there # "absent"
              /\ mine' = [mine EXCEPT ![p] = there]
              /\ UNCHANGED <<inflight, archived, hook, on, made, found, counts, raced>>
        BY <1>9, <2>2 DEF Load
    <3>2. on[p] \in Task => there \in Known
        BY <1>0, <3>1 DEF Stored
    <3> QED
        BY <1>0, <3>1, <3>2, GoesType DEF found
  <2> QED
      BY <2>1, <2>2
<1>10. CASE Observe(p)
  <2>0. pc[p] = "observe" /\ NoTask \notin Task
      BY <1>10, TaskAssumption DEF Observe, NoTask
  <2>1. PICK t \in Task :
            /\ Saves(t, "received")
            /\ \/ on' = [on EXCEPT ![p] = t] /\ mine' = [mine EXCEPT ![p] = "received"] /\ made' = made
               \/ /\ made' = [made EXCEPT ![p] = t] /\ on' = on /\ mine' = mine
                  /\ hook[p] # "register"
      BY <1>10 DEF Observe
  <2>2. /\ on'[p] # NoTask /\ \A q \in Proc \ {p} : on'[q] = on[q]
        /\ on' \in [Proc -> Task \cup {NoTask}] /\ made' \in [Proc -> Task \cup {NoTask}]
        /\ mine' \in [Proc -> Known]
      BY <1>0, <2>0, <2>1
  <2>3. /\ Goes(p, "save") /\ pc[p] = "observe"
        /\ UNCHANGED <<archived, hook, found, counts, raced>>
      BY <1>10 DEF Observe
  <2> QED
      BY <1>0, <1>1, <2>1, <2>2, <2>3, GoesType DEF found
<1>11. CASE SaveClaim(p)
  <2>1. /\ inflight' = inflight \/ \E status \in {"queued", "running"} : Saves(on[p], status)
        /\ raced' = raced \/ \E still \in BOOLEAN : ActsOn(still)
        /\ Ends(p) /\ archived' = archived /\ UNCHANGED counts
      BY <1>11 DEF SaveClaim
  <2> QED
      BY <1>0, <1>1, <1>2, <1>5, <2>1
<1>12. CASE SaveInbound(p)
  <2>1. PICK status \in {"queued", "running"} :
            /\ Saves(on[p], status) /\ mine' = [mine EXCEPT ![p] = status]
      BY <1>12 DEF SaveInbound
  <2>2. /\ \E still \in BOOLEAN : ActsOn(still)
        /\ pc[p] = "save" /\ hook[p] \in {"register", "resume"} /\ Goes(p, "write-back")
        /\ UNCHANGED <<archived, hook, on, made, found, counts>>
      BY <1>12 DEF SaveInbound
  <2>3. mine' \in [Proc -> Known]
      BY <1>0, <2>1
  <2>4. inflight' \in [Task -> Known] /\ raced' \in BOOLEAN
      BY <1>1, <1>2, <2>1, <2>2
  <2> QED
      BY <1>0, <2>2, <2>3, <2>4, GoesType DEF found
<1>13. CASE SaveMark(p)
  <2>1. mine[p] \in Known
      BY <1>0
  <2>2. /\ Saves(on[p], mine[p]) /\ \E still \in BOOLEAN : ActsOn(still)
        /\ archived' = archived /\ UNCHANGED counts /\ pc[p] = "save"
        /\ Ends(p) \/ Continues(p, "save-blocked")
      BY <1>13 DEF SaveMark
  <2>3. inflight' \in [Task -> Known] /\ raced' \in BOOLEAN
      BY <1>1, <1>2, <2>1, <2>2
  <2> QED
      BY <1>0, <1>5, <1>6, <2>2, <2>3
<1>14. CASE SaveBlocked(p) \/ SavePaused(p) \/ SaveDone(p)
  <2>1. PICK next \in {"promote-glob", "reload"}, t \in {on[p], made[p]},
             status \in {"blocked", "paused", "done"} :
            /\ Saves(t, status) /\ Continues(p, next)
      BY <1>14 DEF SaveBlocked, SavePaused, SaveDone
  <2>2. /\ \E still \in BOOLEAN : ActsOn(still)
        /\ archived' = archived /\ UNCHANGED counts /\ pc[p] \in {"save", "save-blocked"}
      BY <1>14 DEF SaveBlocked, SavePaused, SaveDone
  <2>3. inflight' \in [Task -> Known] /\ raced' \in BOOLEAN
      BY <1>1, <1>2, <2>1, <2>2
  <2> QED
      BY <1>0, <1>6, <2>1, <2>2, <2>3
<1>15. CASE Reload(p)
  <2>1. CASE Aborts(p)
      BY <1>4, <2>1
  <2>2. CASE ~ Aborts(p)
    <3>1. /\ pc[p] = "reload" /\ Goes(p, "archive")
          /\ mine' = [mine EXCEPT ![p] = inflight[on[p]]]
          /\ UNCHANGED <<inflight, archived, hook, on, made, found, counts, raced>>
        BY <1>15, <2>2 DEF Reload
    <3> QED
        BY <1>0, <3>1, GoesType DEF found
  <2> QED
      BY <2>1, <2>2
<1>16. CASE Archive(p)
  <2>1. /\ archived' = [archived EXCEPT ![on[p]] = mine[p]]
        /\ \E still \in BOOLEAN : ActsOn(still)
        /\ Continues(p, "unlink") /\ pc[p] = "archive" /\ UNCHANGED <<inflight, counts>>
      BY <1>16 DEF Archive
  <2>2. archived' \in [Task -> Known] /\ raced' \in BOOLEAN
      BY <1>0, <1>2, <2>1
  <2> QED
      BY <1>0, <1>6, <2>1, <2>2
<1>17. CASE Unlink(p)
  <2>1. /\ Saves(on[p], "absent") /\ \E still \in BOOLEAN : ActsOn(still)
        /\ Continues(p, "promote-glob") /\ pc[p] = "unlink" /\ UNCHANGED <<archived, counts>>
      BY <1>17 DEF Unlink
  <2>2. inflight' \in [Task -> Known] /\ raced' \in BOOLEAN
      BY <1>1, <1>2, <1>3, <2>1
  <2> QED
      BY <1>0, <1>6, <2>1, <2>2
<1>18. ASSUME AfterPromotion(p), pc[p] \in {"start", "mark-promoted"},
              inflight' \in [Task -> Known], raced' \in BOOLEAN, UNCHANGED <<archived, counts>>
       PROVE  TypeOK'
  <2>1. \/ Ends(p)
        \/ Continues(p, "write-back") /\ hook[p] \notin {"claim", "finish", "block", "mark"}
      BY <1>18 DEF AfterPromotion
  <2> QED
      BY <1>0, <1>5, <1>6, <1>18, <2>1
<1>19. CASE StartHead(p)
  <2>1. /\ pc[p] = "start" /\ UNCHANGED <<archived, counts>>
        /\ \/ AfterPromotion(p) /\ inflight' = inflight /\ raced' = raced
           \/ /\ Saves(head[p], "running") /\ Continues(p, "mark-promoted")
              /\ \E still \in BOOLEAN : ActsOn(still)
      BY <1>19 DEF StartHead
  <2>2. inflight' \in [Task -> Known] /\ raced' \in BOOLEAN
      BY <1>0, <1>1, <1>2, <2>1
  <2> QED
      BY <1>0, <1>6, <1>18, <2>1, <2>2
<1>20. CASE MarkPromoted(p)
  <2>1. /\ pc[p] = "mark-promoted" /\ UNCHANGED <<archived, counts>>
        /\ AfterPromotion(p) /\ Saves(head[p], "running") /\ \E still \in BOOLEAN : ActsOn(still)
      BY <1>20 DEF MarkPromoted
  <2>2. inflight' \in [Task -> Known] /\ raced' \in BOOLEAN
      BY <1>1, <1>2, <2>1
  <2> QED
      BY <1>18, <2>1, <2>2
<1>21. CASE WriteBack(p)
  <2>1. PICK kept \in {"blocked", mine[p]} : Saves(on[p], kept)
      BY <1>21 DEF WriteBack
  <2>2. kept \in Known
      BY <1>0
  <2>3. /\ \E still \in BOOLEAN : ActsOn(still) /\ Ends(p)
        /\ archived' = archived /\ UNCHANGED counts
      BY <1>21 DEF WriteBack
  <2>4. inflight' \in [Task -> Known] /\ raced' \in BOOLEAN
      BY <1>1, <1>2, <2>1, <2>2, <2>3
  <2> QED
      BY <1>5, <2>3, <2>4
<1> QED
    BY <1>7, <1>8, <1>9, <1>10, <1>11, <1>12, <1>13, <1>14, <1>15, <1>16, <1>17, <1>19, <1>20, <1>21
    DEF Access

\* The processes keep to their shapes: what has been listed is forgotten after
\* the scan, and a record is written back only by hooks that hold one.
THEOREM TypeCorrect == Spec => []TypeOK
<1>1. Init => TypeOK
  <2> SUFFICES ASSUME Init PROVE TypeOK
      OBVIOUS
  <2>1. 0 \in 0..MaxHooks /\ 0 \in 0..MaxCrashes
      BY BoundAssumption
  <2> QED
      BY <2>1 DEF Init, TypeOK
<1>2. TypeOK /\ [Next]_vars => TypeOK'
  <2> SUFFICES ASSUME TypeOK, [Next]_vars PROVE TypeOK'
      OBVIOUS
  <2>1. ASSUME NEW p \in Proc, Crash(p) PROVE TypeOK'
    <3>1. /\ Ends(p) /\ crashes' = crashes + 1 /\ crashes < MaxCrashes
          /\ UNCHANGED <<inflight, archived, hooks, raced>>
        BY <2>1 DEF Crash
    <3>2. crashes' \in 0..MaxCrashes
        BY <3>1, BoundAssumption DEF TypeOK
    <3>3. /\ inflight' \in [Task -> Status \cup {"absent"}] /\ archived' \in [Task -> Status \cup {"absent"}]
          /\ hooks' \in 0..MaxHooks /\ raced' \in BOOLEAN
        BY <3>1 DEF TypeOK
    <3> QED
        BY <3>1, <3>2, <3>3, EndsType
  <2>2. CASE UNCHANGED vars
      BY <2>2 DEF vars, memory, found, counts, TypeOK
  <2> QED
      BY <2>1, <2>2, BeginType, AccessType DEF Next
<1> QED
    BY <1>1, <1>2, PTL DEF Spec

-----------------------------------------------------------------------------
\* No task is lost.

\* The accesses of a process that has loaded or made its record, ...
PastLoad == {"save", "save-blocked", "reload", "archive", "unlink", "promote-glob",
             "promote-scan", "start", "mark-promoted", "write-back"}

\* ... which then holds one; and one it is about to unlink is in the archive.
Kept ==
    /\ \A p \in Proc : pc[p] \in PastLoad => mine[p] # "absent"
    /\ \A p \in Proc : pc[p] = "observe" /\ hook[p] # "register" => mine[p] # "absent"
    /\ \A p \in Proc : pc[p] = "unlink" => archived[on[p]] # "absent"

\* An archived record is overwritten, never removed.
LEMMA ArchiveGrows ==
    ASSUME TypeOK, Kept, NEW p \in Proc, Access(p)
    PROVE  \A t \in Task : archived[t] # "absent" => archived'[t] # "absent"
<1>1. CASE Archive(p)
  <2>1. archived' = [archived EXCEPT ![on[p]] = mine[p]] /\ mine[p] # "absent"
      BY <1>1 DEF Archive, Kept, PastLoad
  <2> QED
      BY <2>1 DEF TypeOK
<1>2. CASE ~ Archive(p)
  <2>1. archived' = archived
      BY <1>2 DEF Access, Glob, Scan, Load, Observe, SaveClaim, SaveInbound, SaveMark, SaveBlocked,
                  SavePaused, SaveDone, Reload, Unlink, StartHead, MarkPromoted, WriteBack, Aborts
  <2> QED
      BY <2>1
<1> QED
    BY <1>1, <1>2

\* A process keeps what it has loaded until it ends.
LEMMA AccessKept ==
    ASSUME TypeOK, Kept, NEW p \in Proc, Access(p)
    PROVE  Kept'
<1>0. /\ pc \in [Proc -> Step \cup {"idle"}] /\ mine \in [Proc -> Status \cup {"absent"}]
      /\ on \in [Proc -> Task \cup {NoTask}]
      /\ \A q \in Proc : on[q] = NoTask => pc[q] \in {"idle", "glob", "scan", "observe"}
    BY DEF TypeOK
<1>1. ASSUME NEW next, pc' = [pc EXCEPT ![p] = next], hook' = hook,
             \A q \in Proc \ {p} : mine'[q] = mine[q] /\ on'[q] = on[q],
             next \in PastLoad => mine'[p] # "absent",
             next = "observe" /\ hook[p] # "register" => mine'[p] # "absent",
             next = "unlink" => archived'[on'[p]] # "absent"
      PROVE  Kept'
  <2>1. \A q \in Proc \ {p} : pc'[q] = pc[q]
      BY <1>0, <1>1
  <2>2. pc'[p] = next
      BY <1>0, <1>1
  <2>3. \A q \in Proc \ {p} : pc[q] = "unlink" => archived'[on[q]] # "absent"
      BY <1>0, ArchiveGrows DEF Kept
  <2> QED
      BY <1>1, <2>1, <2>2, <2>3 DEF Kept
<1>2. ASSUME Ends(p) PROVE Kept'
  <2>1. /\ pc' = [pc EXCEPT ![p] = "idle"]
        /\ \A q \in Proc \ {p} : mine'[q] = mine[q] /\ on'[q] = on[q] /\ hook'[q] = hook[q]
      BY <1>0, <1>2 DEF Ends, Goes, TypeOK
  <2>2. pc'[p] = "idle" /\ \A q \in Proc \ {p} : pc'[q] = pc[q]
      BY <1>0, <2>1
  <2>3. \A q \in Proc \ {p} : pc[q] = "unlink" => archived'[on[q]] # "absent"
      BY <1>0, ArchiveGrows DEF Kept
  <2> QED
      BY <2>1, <2>2, <2>3 DEF Kept, PastLoad
<1>3. ASSUME NEW next, Continues(p, next), pc[p] \in PastLoad, next # "observe",
             next = "unlink" => archived'[on[p]] # "absent"
      PROVE  Kept'
  <2>1. mine[p] # "absent"
      BY <1>3 DEF Kept
  <2> QED
      BY <1>1, <1>3, <2>1 DEF Continues, Goes, memory
<1>4. CASE Glob(p)
  <2>1. hook' = hook /\ mine' = mine /\ on' = on
      BY <1>4 DEF Glob, memory
  <2>2. CASE pc[p] = "glob"
    <3>1. pc' = [pc EXCEPT ![p] = "scan"]
        BY <1>4, <2>2 DEF Glob, Goes
    <3> QED
        BY <1>1, <2>1, <3>1 DEF PastLoad
  <2>3. CASE pc[p] = "promote-glob"
    <3>1. pc' = [pc EXCEPT ![p] = "promote-scan"]
        BY <1>4, <2>3 DEF Glob, Goes
    <3>2. mine[p] # "absent"
        BY <2>3 DEF Kept, PastLoad
    <3> QED
        BY <1>1, <2>1, <3>1, <3>2 DEF PastLoad
  <2> QED
      BY <1>4, <2>2, <2>3 DEF Glob
<1>5. CASE Scan(p)
  <2>1. CASE Ends(p)
      BY <1>2, <2>1
  <2>2. CASE ~ Ends(p)
    <3>1. PICK next \in {"start", "observe", "load"} :
              /\ pc' = [pc EXCEPT ![p] = next]
              /\ next = "start" => pc[p] = "promote-scan"
              /\ next = "observe" => hook[p] = "register"
              /\ hook' = hook /\ mine' = mine /\ on' = on
        BY <1>5, <2>2 DEF Scan, Goes, memory, Aborts
    <3>2. next = "start" => mine[p] # "absent"
        BY <3>1 DEF Kept, PastLoad
    <3> QED
        BY <1>1, <3>1, <3>2 DEF PastLoad
  <2> QED
      BY <2>1, <2>2
<1>6. CASE Load(p) \/ Reload(p)
  <2>1. CASE Ends(p)
      BY <1>2, <2>1
  <2>2. CASE ~ Ends(p)
    <3>1. PICK next \in {"observe", "save", "archive"}, there \in {inflight[on[p]], Stored(on[p])} :
              /\ there # "absent"
              /\ pc' = [pc EXCEPT ![p] = next] /\ mine' = [mine EXCEPT ![p] = there]
              /\ hook' = hook /\ on' = on
        BY <1>6, <2>2 DEF Load, Reload, Goes, Aborts
    <3>2. mine'[p] # "absent" /\ \A q \in Proc \ {p} : mine'[q] = mine[q]
        BY <1>0, <3>1
    <3> QED
        BY <1>1, <3>1, <3>2
  <2> QED
      BY <2>1, <2>2
<1>7. CASE Observe(p)
  <2>1. PICK t \in Task :
            /\ pc[p] = "observe" /\ pc' = [pc EXCEPT ![p] = "save"] /\ hook' = hook
            /\ \/ on' = [on EXCEPT ![p] = t] /\ mine' = [mine EXCEPT ![p] = "received"]
               \/ on' = on /\ mine' = mine /\ hook[p] # "register"
      BY <1>7 DEF Observe, Goes
  <2>2. mine'[p] # "absent" /\ \A q \in Proc \ {p} : mine'[q] = mine[q] /\ on'[q] = on[q]
      BY <1>0, <2>1 DEF Kept
  <2> QED
      BY <1>1, <2>1, <2>2
<1>8. CASE SaveInbound(p)
  <2>1. PICK status \in {"queued", "running"} :
            /\ pc' = [pc EXCEPT ![p] = "write-back"] /\ mine' = [mine EXCEPT ![p] = status]
            /\ hook' = hook /\ on' = on
      BY <1>8 DEF SaveInbound, Goes
  <2>2. mine'[p] # "absent" /\ \A q \in Proc \ {p} : mine'[q] = mine[q]
      BY <1>0, <2>1
  <2> QED
      BY <1>1, <2>1, <2>2
<1>9. CASE SaveClaim(p) \/ WriteBack(p)
    BY <1>2, <1>9 DEF SaveClaim, WriteBack
<1>10. CASE SaveMark(p) \/ SaveBlocked(p) \/ SavePaused(p) \/ SaveDone(p) \/ Unlink(p)
            \/ StartHead(p) \/ MarkPromoted(p)
  <2>1. CASE Ends(p)
      BY <1>2, <2>1
  <2>2. CASE ~ Ends(p)
    <3>1. PICK next \in {"save-blocked", "promote-glob", "reload", "mark-promoted", "write-back"} :
              Continues(p, next) /\ pc[p] \in PastLoad
        BY <1>10, <2>2 DEF SaveMark, SaveBlocked, SavePaused, SaveDone, Unlink, StartHead,
                           MarkPromoted, AfterPromotion, PastLoad
    <3> QED
        BY <1>3, <3>1
  <2> QED
      BY <2>1, <2>2
<1>11. CASE Archive(p)
  <2>1. /\ archived' = [archived EXCEPT ![on[p]] = mine[p]]
        /\ Continues(p, "unlink") /\ pc[p] = "archive"
      BY <1>11 DEF Archive
  <2>2. on[p] \in Task /\ mine[p] # "absent"
      BY <1>0, <2>1 DEF Kept, PastLoad
  <2>3. archived'[on[p]] # "absent"
      BY <2>1, <2>2 DEF TypeOK
  <2> QED
      BY <1>3, <2>1, <2>3 DEF PastLoad
<1> QED
    BY <1>4, <1>5, <1>6, <1>7, <1>8, <1>9, <1>10, <1>11 DEF Access

\* Kept is an invariant.
LEMMA AlwaysKept == Spec => []Kept
<1>1. Init => Kept
    BY DEF Init, Kept, PastLoad
<1>2. TypeOK /\ Kept /\ [Next]_vars => Kept'
  <2> SUFFICES ASSUME TypeOK, Kept, [Next]_vars PROVE Kept'
      OBVIOUS
  <2>1. ASSUME NEW p \in Proc, Access(p) PROVE Kept'
      BY <2>1, AccessKept
  <2>2. ASSUME NEW p \in Proc, Begin(p) PROVE Kept'
    <3>1. ASSUME NEW h, NEW t, NEW next \in {"glob", "load"}, Begins(p, h, t, next)
          PROVE  Kept'
      <4>1. /\ pc'[p] \notin PastLoad \cup {"observe"} /\ mine' = mine /\ archived' = archived
            /\ \A q \in Proc \ {p} : pc'[q] = pc[q] /\ hook'[q] = hook[q] /\ on'[q] = on[q]
          BY <3>1 DEF Begins, Goes, TypeOK, PastLoad
      <4> QED
          BY <4>1 DEF Kept, PastLoad
    <3> QED
        BY <2>2, <3>1 DEF Begin, BeginRegister, BeginClaim, BeginResume, BeginFollowup, BeginFinish,
                          BeginBlock, BeginMark, BeginEscalate
  <2>3. ASSUME NEW p \in Proc, Crash(p) PROVE Kept'
    <3>1. /\ pc'[p] = "idle" /\ archived' = archived
          /\ \A q \in Proc \ {p} : /\ pc'[q] = pc[q] /\ hook'[q] = hook[q]
                                   /\ on'[q] = on[q] /\ mine'[q] = mine[q]
        BY <2>3 DEF Crash, Ends, Goes, TypeOK
    <3> QED
        BY <3>1 DEF Kept, PastLoad
  <2>4. CASE UNCHANGED vars
      BY <2>4 DEF vars, memory, Kept
  <2> QED
      BY <2>1, <2>2, <2>3, <2>4 DEF Next
<1> QED
    BY <1>1, <1>2, TypeCorrect, PTL DEF Spec

\* No task loses its last file: its record is in the archive before it is
\* unlinked, whoever else works on it and wherever a process is killed.
THEOREM NoTaskIsLost == Spec => NoTaskLost
<1>1. TypeOK /\ Kept /\ [Next]_vars => [\A t \in Used : t \in Used']_vars
  <2> SUFFICES ASSUME TypeOK, Kept, Next, NEW t \in Used PROVE t \in Used'
      OBVIOUS
  <2>1. t \in Task /\ (inflight[t] # "absent" \/ archived[t] # "absent")
      BY DEF Used, Stored
  <2>2. SUFFICES inflight'[t] # "absent" \/ archived'[t] # "absent"
      BY <2>1 DEF Used, Stored
  <2>3. ASSUME NEW p \in Proc, Begin(p) \/ Crash(p)
        PROVE  inflight'[t] # "absent" \/ archived'[t] # "absent"
    <3>1. inflight' = inflight /\ archived' = archived
        BY <2>3 DEF Begin, BeginRegister, BeginClaim, BeginResume, BeginFollowup, BeginFinish,
                    BeginBlock, BeginMark, BeginEscalate, Begins, Crash
    <3> QED
        BY <2>1, <3>1
  <2>4. ASSUME NEW p \in Proc, Access(p)
        PROVE  inflight'[t] # "absent" \/ archived'[t] # "absent"
    <3>0. archived[t] # "absent" => archived'[t] # "absent"
        BY <2>1, <2>4, ArchiveGrows
    <3>1. CASE Unlink(p)
      <4>1. CASE on[p] = t
        <5>1. archived[t] # "absent"
            BY <3>1, <4>1 DEF Unlink, Kept
        <5> QED
            BY <3>0, <5>1
      <4>2. CASE on[p] # t
        <5>1. inflight'[t] = inflight[t]
            BY <2>1, <3>1, <4>2 DEF Unlink, Saves, TypeOK
        <5> QED
            BY <2>1, <3>0, <5>1
      <4> QED
          BY <4>1, <4>2
    <3>2. CASE ~ Unlink(p)
      <4>1. \/ inflight' = inflight
            \/ \E u, status : Saves(u, status) /\ status # "absent"
        <5>1. CASE Glob(p) \/ Scan(p) \/ Load(p) \/ Reload(p) \/ Archive(p)
            BY <5>1 DEF Glob, Scan, Load, Reload, Archive, Aborts
        <5>2. CASE Observe(p) \/ SaveBlocked(p) \/ SavePaused(p) \/ SaveDone(p)
          <6>1. \E u, status : Saves(u, status) /\ status \in {"received", "blocked", "paused", "done"}
              BY <5>2 DEF Observe, SaveBlocked, SavePaused, SaveDone
          <6> QED
              BY <6>1
        <5>3. CASE SaveClaim(p) \/ SaveInbound(p) \/ StartHead(p) \/ MarkPromoted(p)
          <6>1. \/ inflight' = inflight
                \/ \E u : Saves(u, "queued") \/ Saves(u, "running")
              BY <5>3 DEF SaveClaim, SaveInbound, StartHead, MarkPromoted
          <6> QED
              BY <6>1
        <5>4. CASE SaveMark(p) \/ WriteBack(p)
          <6>1. mine[p] # "absent"
              BY <5>4 DEF SaveMark, WriteBack, Kept, PastLoad
          <6> QED
              BY <5>4, <6>1 DEF SaveMark, WriteBack
        <5> QED
            BY <2>4, <3>2, <5>1, <5>2, <5>3, <5>4 DEF Access
      <4> QED
          BY <2>1, <3>0, <4>1 DEF Saves, TypeOK
    <3> QED
        BY <3>1, <3>2
  <2> QED
      BY <2>3, <2>4 DEF Next
<1> QED
    BY <1>1, TypeCorrect, AlwaysKept, PTL DEF Spec, NoTaskLost

-----------------------------------------------------------------------------
\* The slot.

\* As long as every hook acted on readings that still held, one task runs.
Alone == raced \/ \A t, u \in Running : t = u

\* A step that starts nobody, or starts a task when nobody runs.
LEMMA StartsAlone ==
    ASSUME TypeOK, Alone, NEW r, raced' \/ ~ raced,
           raced' \/ \/ inflight' = inflight
                     \/ \E status : Saves(r, status) /\ status # "running"
                     \/ Saves(r, "running") /\ (Running = {} \/ inflight[r] = "running")
    PROVE  Alone'
<1> SUFFICES ASSUME ~ raced', NEW t \in Running', NEW u \in Running' PROVE t = u
    BY DEF Alone
<1>1. /\ t \in Task /\ u \in Task /\ inflight'[t] = "running" /\ inflight'[u] = "running"
    BY DEF Running, With
<1>2. \A x, y \in Task : inflight[x] = "running" /\ inflight[y] = "running" => x = y
    BY DEF Alone, Running, With
<1>3. \A x \in Task : inflight[x] = "running" => x \in Running
    BY DEF Running, With
<1> QED
    BY <1>1, <1>2, <1>3 DEF Saves, TypeOK

\* Every access of a process keeps a task that runs alone, or acts on a reading
\* that no longer holds.
LEMMA AccessAlone ==
    ASSUME TypeOK, Alone, NEW p \in Proc, Access(p)
    PROVE  Alone'
<1>1. CASE Glob(p) \/ Scan(p) \/ Load(p) \/ Reload(p) \/ Archive(p)
  <2>1. inflight' = inflight
      BY <1>1 DEF Glob, Scan, Load, Reload, Archive, Aborts
  <2>2. CASE Archive(p)
    <3>1. raced' \/ ~ raced
        BY <2>2 DEF Archive, ActsOn
    <3> QED
        BY <2>1, <3>1, StartsAlone
  <2>3. CASE Glob(p) \/ Scan(p) \/ Load(p) \/ Reload(p)
    <3>1. raced' = raced
        BY <2>3 DEF Glob, Scan, Load, Reload, Aborts
    <3> QED
        BY <2>1, <3>1, StartsAlone
  <2> QED
      BY <1>1, <2>2, <2>3
<1>2. CASE Observe(p) \/ SaveBlocked(p) \/ SavePaused(p) \/ SaveDone(p) \/ Unlink(p)
  <2>1. PICK r, status : Saves(r, status) /\ status \in {"received", "blocked", "paused", "done", "absent"}
      BY <1>2 DEF Observe, SaveBlocked, SavePaused, SaveDone, Unlink
  <2>2. raced' \/ ~ raced
      BY <1>2 DEF Observe, SaveBlocked, SavePaused, SaveDone, Unlink, ActsOn
  <2> QED
      BY <2>1, <2>2, StartsAlone
<1>3. CASE SaveClaim(p)
  <2>1. raced' \/ ~ raced
      BY <1>3 DEF SaveClaim, ActsOn
  <2>2. \/ inflight' = inflight
        \/ Saves(on[p], "queued")
        \/ /\ Saves(on[p], "running") /\ ~ busy[p]
           /\ raced' \/ busy[p] = (Running # {})
      BY <1>3 DEF SaveClaim, ActsOn
  <2>3. \/ raced' \/ inflight' = inflight
        \/ Saves(on[p], "queued")
        \/ Saves(on[p], "running") /\ Running = {}
      BY <2>2
  <2> QED
      BY <2>1, <2>3, StartsAlone
<1>4. CASE SaveInbound(p)
  <2>1. raced' \/ ~ raced
      BY <1>4 DEF SaveInbound, ActsOn
  <2>2. \/ Saves(on[p], "queued")
        \/ Saves(on[p], "running") /\ ~ busy[p]
      BY <1>4 DEF SaveInbound
  <2>3. raced' \/ busy[p] = (Running # {})
      BY <1>4 DEF SaveInbound, ActsOn
  <2>4. \/ raced'
        \/ Saves(on[p], "queued")
        \/ Saves(on[p], "running") /\ Running = {}
      BY <2>2, <2>3
  <2> QED
      BY <2>1, <2>4, StartsAlone
<1>5. CASE SaveMark(p) \/ WriteBack(p)
  <2>1. PICK kept : Saves(on[p], kept) /\ (raced' \/ inflight[on[p]] = kept)
      BY <1>5 DEF SaveMark, WriteBack, ActsOn
  <2>2. raced' \/ ~ raced
      BY <1>5 DEF SaveMark, WriteBack, ActsOn
  <2> QED
      BY <2>1, <2>2, StartsAlone
<1>6. CASE StartHead(p)
  <2>1. raced' \/ ~ raced
      BY <1>6 DEF StartHead, ActsOn
  <2>2. \/ raced' \/ inflight' = inflight
        \/ Saves(head[p], "running") /\ Running = {}
      BY <1>6 DEF StartHead, ActsOn
  <2> QED
      BY <2>1, <2>2, StartsAlone
<1>7. CASE MarkPromoted(p)
  <2>1. /\ raced' \/ ~ raced
        /\ Saves(head[p], "running") /\ (raced' \/ inflight[head[p]] = "running")
      BY <1>7 DEF MarkPromoted, ActsOn
  <2> QED
      BY <2>1, StartsAlone
<1> QED
    BY <1>1, <1>2, <1>3, <1>4, <1>5, <1>6, <1>7 DEF Access

\* However many hooks overlap and are killed, two tasks run at once only after
\* some hook acted on a reading that another had overtaken.
THEOREM OneTaskRuns == Spec => []OneRunning
<1>1. Init => Alone
    BY DEF Init, Alone, Running, With
<1>2. TypeOK /\ Alone /\ [Next]_vars => Alone'
  <2> SUFFICES ASSUME TypeOK, Alone, [Next]_vars PROVE Alone'
      OBVIOUS
  <2>1. ASSUME NEW p \in Proc, Begin(p) \/ Crash(p) PROVE Alone'
    <3>1. inflight' = inflight /\ raced' = raced
        BY <2>1 DEF Begin, BeginRegister, BeginClaim, BeginResume, BeginFollowup, BeginFinish,
                    BeginBlock, BeginMark, BeginEscalate, Begins, Crash
    <3> QED
        BY <3>1 DEF Alone, Running, With
  <2>2. CASE UNCHANGED vars
      BY <2>2 DEF vars, Alone, Running, With
  <2> QED
      BY <2>1, <2>2, AccessAlone DEF Next
<1>3. Alone => OneRunning
  <2> SUFFICES ASSUME \A t, u \in Running : t = u PROVE Cardinality(Running) <= 1
      BY DEF Alone, OneRunning
  <2>1. CASE Running = {}
    <3>1. Cardinality(Running) = 0
        BY <2>1, FS_EmptySet
    <3> QED
        BY <3>1
  <2>2. CASE Running # {}
    <3>1. PICK t \in Running : Running = {t}
        BY <2>2
    <3>2. Cardinality(Running) = 1
        BY <3>1, FS_Singleton
    <3> QED
        BY <3>2
  <2> QED
      BY <2>1, <2>2
<1> QED
    BY <1>1, <1>2, <1>3, TypeCorrect, PTL DEF Spec

-----------------------------------------------------------------------------
\* At rest the two directories agree.

\* The other processes stand still meanwhile.
LEMMA OthersStand ==
    ASSUME TypeOK, NEW p \in Proc, Access(p) \/ Begin(p), NEW q \in Proc, q # p
    PROVE  /\ pc'[q] = pc[q] /\ hook'[q] = hook[q] /\ on'[q] = on[q] /\ mine'[q] = mine[q]
           /\ names'[q] = names[q] /\ busy'[q] = busy[q] /\ head'[q] = head[q]
<1>1. CASE Begin(p)
  <2>1. PICK h, t, next : Begins(p, h, t, next)
      BY <1>1 DEF Begin, BeginRegister, BeginClaim, BeginResume, BeginFollowup, BeginFinish,
                  BeginBlock, BeginMark, BeginEscalate
  <2> QED
      BY <2>1 DEF TypeOK, Begins, Goes, found
<1>2. CASE Ends(p)
    BY <1>2 DEF TypeOK, Ends, Goes
<1>3. ASSUME NEW next, Continues(p, next)
      PROVE  /\ pc'[q] = pc[q] /\ hook'[q] = hook[q] /\ on'[q] = on[q] /\ mine'[q] = mine[q]
             /\ names'[q] = names[q] /\ busy'[q] = busy[q] /\ head'[q] = head[q]
    BY <1>3 DEF TypeOK, Continues, Goes, memory, found
<1>4. CASE Glob(p) /\ ~ Ends(p)
    BY <1>4 DEF TypeOK, Glob, Goes, memory
<1>5. CASE Scan(p) /\ ~ Ends(p)
    BY <1>5 DEF TypeOK, Scan, Goes, memory, Aborts
<1>6. CASE Load(p) /\ ~ Ends(p)
    BY <1>6 DEF TypeOK, Load, Goes, found, Aborts
<1>7. CASE Observe(p) /\ ~ Ends(p)
    BY <1>7 DEF TypeOK, Observe, Goes, found
<1>8. CASE SaveInbound(p) /\ ~ Ends(p)
    BY <1>8 DEF TypeOK, SaveInbound, Goes, found
<1>9. CASE Reload(p) /\ ~ Ends(p)
    BY <1>9 DEF TypeOK, Reload, Goes, found, Aborts
<1>10. CASE /\ \/ SaveClaim(p) \/ SaveMark(p) \/ SaveBlocked(p) \/ SavePaused(p) \/ SaveDone(p)
               \/ Archive(p) \/ Unlink(p) \/ StartHead(p) \/ MarkPromoted(p) \/ WriteBack(p)
            /\ ~ Ends(p)
  <2>1. \E next : Continues(p, next)
      BY <1>10 DEF SaveClaim, SaveMark, SaveBlocked, SavePaused, SaveDone, Archive, Unlink,
                   StartHead, MarkPromoted, WriteBack, AfterPromotion
  <2> QED
      BY <1>3, <2>1
<1> QED
    BY <1>1, <1>2, <1>4, <1>5, <1>6, <1>7, <1>8, <1>9, <1>10 DEF Access

\* A process may find out at its next save that what it acts on has changed;
\* that it was so is never forgotten.
LEMMA RacedStays ==
    ASSUME NEW p \in Proc, Access(p), raced, raced \in BOOLEAN
    PROVE  raced'
BY DEF Access, Glob, Scan, Load, Observe, SaveClaim, SaveInbound, SaveMark, SaveBlocked, SavePaused,
       SaveDone, Reload, Archive, Unlink, StartHead, MarkPromoted, WriteBack, AfterPromotion,
       ActsOn, Aborts

\* A finished record in flight is on its way to the archive, and one that is in
\* both directories is about to be unlinked.
Filed(t) ==
    /\ inflight[t] = "done" => \E p \in Proc : pc[p] \in {"reload", "archive", "unlink"} /\ on[p] = t
    /\ archived[t] # "absent" =>
          /\ archived[t] = "done"
          /\ inflight[t] # "absent" => \E p \in Proc : pc[p] = "unlink" /\ on[p] = t

Agreed == raced \/ crashes # 0 \/ \A t \in Task : Filed(t)

\* An access other than those of _finalize_task saves over a file that is there
\* or makes one for a new task, and finishes a task only on the way to its archive.
LEMMA SavesInFlight ==
    ASSUME TypeOK, Kept, NEW p \in Proc, Access(p), ~ raced',
           pc[p] \notin {"reload", "archive", "unlink"}, NEW t \in Task
    PROVE  /\ archived' = archived
           /\ \/ inflight'[t] = inflight[t]
              \/ /\ inflight'[t] \notin {"done", "absent"}
                 /\ inflight[t] # "absent" \/ archived[t] = "absent"
              \/ /\ inflight'[t] = "done" /\ inflight[t] # "absent"
                 /\ pc'[p] = "reload" /\ on'[p] = t
<1>0. /\ inflight \in [Task -> Status \cup {"absent"}] /\ pc \in [Proc -> Step \cup {"idle"}]
      /\ pc[p] \in PastLoad => mine[p] # "absent"
    BY DEF TypeOK, Kept
<1>1. CASE Glob(p) \/ Scan(p) \/ Load(p)
    BY <1>1 DEF Glob, Scan, Load, Aborts
<1>2. CASE Observe(p)
  <2>1. PICK u \in Task : IsNext(u) /\ Saves(u, "received")
      BY <1>2 DEF Observe
  <2>2. inflight[u] = "absent" /\ archived[u] = "absent"
      BY <2>1 DEF IsNext, Used, Stored
  <2> QED
      BY <1>0, <1>2, <2>1, <2>2 DEF Observe, Saves
<1>3. ASSUME NEW u, NEW v, Saves(u, v), v \notin {"done", "absent"}, inflight[u] # "absent",
             archived' = archived
      PROVE  /\ archived' = archived
             /\ \/ inflight'[t] = inflight[t]
                \/ inflight'[t] \notin {"done", "absent"} /\ inflight[t] # "absent"
    BY <1>0, <1>3 DEF Saves
<1>4. CASE SaveClaim(p)
  <2>1. \/ inflight' = inflight
        \/ \E v \in {"queued", "running"} : Saves(on[p], v) /\ mine[p] = inflight[on[p]]
      BY <1>4 DEF SaveClaim, ActsOn
  <2>2. mine[p] # "absent" /\ archived' = archived
      BY <1>0, <1>4 DEF SaveClaim, PastLoad
  <2> QED
      BY <1>3, <2>1, <2>2
<1>5. CASE SaveInbound(p)
  <2>1. \E v \in {"queued", "running"} : Saves(on[p], v) /\ mine[p] = inflight[on[p]]
      BY <1>5 DEF SaveInbound, ActsOn
  <2>2. mine[p] # "absent" /\ archived' = archived
      BY <1>0, <1>5 DEF SaveInbound, PastLoad
  <2> QED
      BY <1>3, <2>1, <2>2
<1>6. CASE SaveMark(p) \/ WriteBack(p) \/ MarkPromoted(p)
  <2>1. PICK u, v : Saves(u, v) /\ inflight[u] = v /\ archived' = archived
      BY <1>6 DEF SaveMark, WriteBack, MarkPromoted, ActsOn
  <2> QED
      BY <1>0, <2>1 DEF Saves
<1>7. CASE SaveBlocked(p) \/ SavePaused(p)
  <2>1. PICK u, v : /\ Saves(u, v) /\ v \in {"blocked", "paused"}
                    /\ inflight[u] # "absent" /\ archived' = archived
      BY <1>7 DEF SaveBlocked, SavePaused, ActsOn
  <2> QED
      BY <1>3, <2>1
<1>8. CASE SaveDone(p)
  <2>1. /\ Saves(on[p], "done") /\ inflight[on[p]] # "absent" /\ archived' = archived
        /\ pc' = [pc EXCEPT ![p] = "reload"] /\ on' = on
      BY <1>8 DEF SaveDone, ActsOn, Continues, Goes, memory
  <2> QED
      BY <1>0, <2>1 DEF Saves
<1>9. CASE StartHead(p)
  <2>1. /\ archived' = archived
        /\ \/ inflight' = inflight
           \/ Saves(head[p], "running") /\ head[p] = OldestQueued /\ head[p] # NoTask
      BY <1>9 DEF StartHead, ActsOn
  <2>2. CASE inflight' = inflight
      BY <2>1, <2>2
  <2>3. CASE Saves(head[p], "running") /\ head[p] = OldestQueued /\ head[p] # NoTask
    <3>1. inflight[head[p]] # "absent"
        BY <2>3, OldestIsQueued DEF Queued, With
    <3> QED
        BY <1>3, <2>1, <2>3, <3>1
  <2> QED
      BY <2>1, <2>2, <2>3
<1>10. ~ (Reload(p) \/ Archive(p) \/ Unlink(p))
    BY DEF Reload, Archive, Unlink
<1> QED
    BY <1>1, <1>2, <1>4, <1>5, <1>6, <1>7, <1>8, <1>9, <1>10 DEF Access

\* Each access files what it finishes and leaves nothing behind in flight.
LEMMA AccessFiles ==
    ASSUME TypeOK, Kept, NEW p \in Proc, Access(p), ~ raced',
           NEW t \in Task, Filed(t)
    PROVE  Filed(t)'
<1>0. /\ inflight \in [Task -> Status \cup {"absent"}]
      /\ archived \in [Task -> Status \cup {"absent"}]
      /\ pc \in [Proc -> Step \cup {"idle"}] /\ on \in [Proc -> Task \cup {NoTask}]
    BY DEF TypeOK
<1>1. \A q \in Proc \ {p} : pc'[q] = pc[q] /\ on'[q] = on[q]
    BY OthersStand
<1>2. ASSUME inflight'[t] # "done", inflight'[t] = "absent", archived'[t] \in {"absent", "done"}
      PROVE  Filed(t)'
    BY <1>2 DEF Filed
<1>3. CASE pc[p] \notin {"reload", "archive", "unlink"}
  <2>1. /\ archived' = archived
        /\ \/ inflight'[t] = inflight[t]
           \/ inflight'[t] \notin {"done", "absent"} /\ (inflight[t] # "absent" \/ archived[t] = "absent")
           \/ inflight'[t] = "done" /\ inflight[t] # "absent" /\ pc'[p] = "reload" /\ on'[p] = t
      BY <1>3, SavesInFlight
  <2>2. /\ \A q \in Proc : pc[q] \in {"reload", "archive", "unlink"} =>
                pc'[q] \in {"reload", "archive", "unlink"} /\ on'[q] = on[q]
        /\ \A q \in Proc : pc[q] = "unlink" => pc'[q] = "unlink" /\ on'[q] = on[q]
      BY <1>1, <1>3
  <2> QED
      BY <2>1, <2>2 DEF Filed
<1>4. CASE pc[p] = "reload"
  <2>1. Reload(p)
      BY <1>4 DEF Access, Glob, Scan, Load, Observe, SaveClaim, SaveInbound, SaveMark, SaveBlocked,
                  SavePaused, SaveDone, Archive, Unlink, StartHead, MarkPromoted, WriteBack
  <2>2. inflight' = inflight /\ archived' = archived
      BY <2>1 DEF Reload, Aborts
  <2>3. \A q \in Proc : pc[q] = "unlink" => pc'[q] = "unlink" /\ on'[q] = on[q]
      BY <1>1, <1>4
  <2>4. CASE inflight[on[p]] = "absent"
    <3>1. \A q \in Proc : pc[q] \in {"reload", "archive", "unlink"} /\ on[q] = t /\ inflight[t] = "done" =>
              pc'[q] \in {"reload", "archive", "unlink"} /\ on'[q] = on[q]
        BY <1>1, <2>4
    <3> QED
        BY <2>2, <2>3, <3>1 DEF Filed
  <2>5. CASE inflight[on[p]] # "absent"
    <3>1. pc' = [pc EXCEPT ![p] = "archive"] /\ on' = on
        BY <2>1, <2>5 DEF Reload, Goes
    <3>2. \A q \in Proc : pc[q] \in {"reload", "archive", "unlink"} =>
              pc'[q] \in {"reload", "archive", "unlink"} /\ on'[q] = on[q]
        BY <1>0, <3>1
    <3> QED
        BY <2>2, <2>3, <3>2 DEF Filed
  <2> QED
      BY <2>4, <2>5
<1>5. CASE pc[p] = "archive"
  <2>1. Archive(p)
      BY <1>5 DEF Access, Glob, Scan, Load, Observe, SaveClaim, SaveInbound, SaveMark, SaveBlocked,
                  SavePaused, SaveDone, Reload, Unlink, StartHead, MarkPromoted, WriteBack
  <2>2. /\ inflight' = inflight /\ archived' = [archived EXCEPT ![on[p]] = "done"]
        /\ pc' = [pc EXCEPT ![p] = "unlink"] /\ on' = on
      BY <2>1 DEF Archive, ActsOn, Continues, Goes, memory
  <2>3. \A q \in Proc : pc[q] \in {"reload", "archive", "unlink"} =>
            pc'[q] \in {"reload", "archive", "unlink"} /\ on'[q] = on[q]
      BY <1>0, <2>2
  <2>4. \A q \in Proc : pc[q] = "unlink" => pc'[q] = "unlink" /\ on'[q] = on[q]
      BY <1>0, <2>2
  <2>5. pc'[p] = "unlink" /\ (on[p] = t => archived'[t] = "done" /\ on'[p] = t)
      BY <1>0, <2>2
  <2>6. on[p] # t => archived'[t] = archived[t]
      BY <1>0, <2>2
  <2> QED
      BY <2>2, <2>3, <2>4, <2>5, <2>6 DEF Filed
<1>6. CASE pc[p] = "unlink"
  <2>1. Unlink(p)
      BY <1>6 DEF Access, Glob, Scan, Load, Observe, SaveClaim, SaveInbound, SaveMark, SaveBlocked,
                  SavePaused, SaveDone, Reload, Archive, StartHead, MarkPromoted, WriteBack
  <2>2. inflight' = [inflight EXCEPT ![on[p]] = "absent"] /\ archived' = archived
      BY <2>1 DEF Unlink, Saves
  <2>3. CASE on[p] = t
      BY <1>0, <1>2, <2>2, <2>3 DEF Filed
  <2>4. CASE on[p] # t
    <3>1. inflight'[t] = inflight[t]
        BY <1>0, <2>2, <2>4
    <3>2. /\ \A q \in Proc : pc[q] \in {"reload", "archive", "unlink"} /\ on[q] = t =>
                  pc'[q] \in {"reload", "archive", "unlink"} /\ on'[q] = on[q]
          /\ \A q \in Proc : pc[q] = "unlink" /\ on[q] = t => pc'[q] = "unlink" /\ on'[q] = on[q]
        BY <1>1, <2>4
    <3> QED
        BY <2>2, <3>1, <3>2 DEF Filed
  <2> QED
      BY <2>3, <2>4
<1> QED
    BY <1>3, <1>4, <1>5, <1>6

\* A new hook touches no file and only a process that is free.
LEMMA BeginLeaves ==
    ASSUME TypeOK, NEW p \in Proc, Begin(p)
    PROVE  /\ UNCHANGED <<inflight, archived, crashes, raced>>
           /\ pc[p] = "idle"
BY DEF Begin, BeginRegister, BeginClaim, BeginResume, BeginFollowup, BeginFinish, BeginBlock,
       BeginMark, BeginEscalate, Begins

\* No access kills a process.
LEMMA AccessKillsNobody ==
    ASSUME NEW p \in Proc, Access(p)
    PROVE  crashes' = crashes
BY DEF Access, Glob, Scan, Load, Observe, SaveClaim, SaveInbound, SaveMark, SaveBlocked, SavePaused,
       SaveDone, Reload, Archive, Unlink, StartHead, MarkPromoted, WriteBack, Aborts, counts

\* When no hook is at work every task is in one directory, and the archive
\* holds what is done, unless a process was killed or acted on a stale reading.
THEOREM RecordsAgreeAtRest == Spec => []RecordsAgree
<1>1. Init => Agreed
    BY DEF Init, Agreed, Filed
<1>2. TypeOK /\ Kept /\ Agreed /\ [Next]_vars => Agreed'
  <2> SUFFICES ASSUME TypeOK, Kept, Agreed, [Next]_vars, ~ raced', crashes' = 0, NEW t \in Task
               PROVE  Filed(t)'
      BY DEF Agreed
  <2>0. crashes \in Nat /\ raced \in BOOLEAN
      BY BoundAssumption DEF TypeOK
  <2>1. ASSUME NEW p \in Proc, Access(p) PROVE Filed(t)'
    <3>1. ~ raced /\ crashes = 0
        BY <2>0, <2>1, RacedStays, AccessKillsNobody
    <3> QED
        BY <2>1, <3>1, AccessFiles DEF Agreed
  <2>2. ASSUME NEW p \in Proc, Begin(p) PROVE Filed(t)'
    <3>1. /\ inflight' = inflight /\ archived' = archived /\ crashes' = crashes /\ raced' = raced
          /\ pc[p] = "idle"
        BY <2>2, BeginLeaves
    <3>2. \A q \in Proc : pc[q] \in {"reload", "archive", "unlink"} => pc'[q] = pc[q] /\ on'[q] = on[q]
        BY <2>2, <3>1, OthersStand
    <3> QED
        BY <3>1, <3>2 DEF Agreed, Filed
  <2>3. ASSUME NEW p \in Proc, Crash(p) PROVE Filed(t)'
      BY <2>0, <2>3 DEF Crash
  <2>4. CASE UNCHANGED vars
      BY <2>4 DEF vars, memory, counts, Agreed, Filed
  <2> QED
      BY <2>1, <2>2, <2>3, <2>4 DEF Next
<1>3. TypeOK /\ Agreed => RecordsAgree
  <2> SUFFICES ASSUME TypeOK, \A t \in Task : Filed(t), AtRest, NEW t \in Task
               PROVE  \/ archived[t] = "absent" /\ inflight[t] # "done"
                      \/ archived[t] = "done" /\ inflight[t] = "absent"
      BY DEF Agreed, RecordsAgree
  <2> QED
      BY DEF AtRest, Filed
<1> QED
    BY <1>1, <1>2, <1>3, TypeCorrect, AlwaysKept, PTL DEF Spec

-----------------------------------------------------------------------------
\* The queue is served.

\* A process that will still give the slot away: its scan is to come, or found
\* whom to start, or comes after the file it is about to archive.  A scan that
\* will fail does not count.
OnDuty(p) ==
    \/ pc[p] = "promote-glob"
    \/ pc[p] = "promote-scan" /\ names[p] \subseteq With(Status)
    \/ pc[p] = "start" /\ ~ busy[p] /\ head[p] # NoTask
    \/ pc[p] \in {"reload", "archive", "unlink"} /\ inflight[on[p]] # "absent"

Served == \/ raced \/ crashes # 0
          \/ Queued = {} \/ Running # {} \/ \E p \in Proc : OnDuty(p)

\* A registration saves the task it has just made.
Fresh == \A p \in Proc : /\ hook[p] = "register" => pc[p] # "load"
                         /\ hook[p] = "register" /\ pc[p] = "save" => mine[p] = "received"

LEMMA AlwaysFresh == Spec => []Fresh
<1>1. Init => Fresh
    BY DEF Init, Fresh
<1>2. TypeOK /\ Fresh /\ [Next]_vars => Fresh'
  <2> SUFFICES ASSUME TypeOK, Fresh, [Next]_vars PROVE Fresh'
      OBVIOUS
  <2>0. /\ pc \in [Proc -> Step \cup {"idle"}] /\ hook \in [Proc -> Hook \cup {"none"}]
        /\ mine \in [Proc -> Status \cup {"absent"}]
      BY DEF TypeOK
  <2>1. ASSUME NEW p \in Proc, Access(p) \/ Begin(p),
               /\ hook'[p] = "register" => pc'[p] # "load"
               /\ hook'[p] = "register" /\ pc'[p] = "save" => mine'[p] = "received"
        PROVE  Fresh'
      BY <2>1, OthersStand DEF Fresh
  <2>2. ASSUME NEW p \in Proc, Access(p) PROVE Fresh'
    <3>1. CASE Ends(p)
        BY <2>0, <2>1, <2>2, <3>1 DEF Ends, Goes
    <3>2. CASE Observe(p)
      <4>1. hook' = hook /\ pc' = [pc EXCEPT ![p] = "save"]
            /\ (hook[p] = "register" => mine' = [mine EXCEPT ![p] = "received"])
          BY <3>2 DEF Observe, Goes
      <4> QED
          BY <2>0, <2>1, <2>2, <4>1
    <3>3. CASE ~ Ends(p) /\ ~ Observe(p)
      <4>1. hook' = hook
          BY <2>2, <3>3 DEF Access, Glob, Scan, Load, SaveClaim, SaveInbound, SaveMark, SaveBlocked,
                  SavePaused, SaveDone, Reload, Archive, Unlink, StartHead, MarkPromoted, WriteBack,
                  AfterPromotion, Aborts, Continues, memory
      <4>2. \E next : Goes(p, next) /\ next # "idle"
                      /\ (hook[p] = "register" => next \notin {"load", "save"})
        <5>1. CASE Glob(p)
            BY <5>1 DEF Glob
        <5>2. CASE Scan(p)
          <6>1. \/ Goes(p, "start") \/ Goes(p, "observe")
                \/ Goes(p, "load") /\ hook[p] # "register"
              BY <3>3, <5>2 DEF Scan, Aborts
          <6> QED
              BY <6>1
        <5>3. CASE Load(p) \/ SaveInbound(p) \/ Reload(p)
          <6>1. \/ Goes(p, "write-back") \/ Goes(p, "archive")
                \/ pc[p] = "load" /\ (Goes(p, "observe") \/ Goes(p, "save"))
              BY <3>3, <5>3 DEF Load, SaveInbound, Reload, Aborts
          <6> QED
              BY <6>1 DEF Fresh
        <5>4. CASE ~ (Glob(p) \/ Scan(p) \/ Load(p) \/ SaveInbound(p) \/ Reload(p))
            BY <2>2, <3>3, <5>4 DEF Access, SaveClaim, SaveMark, SaveBlocked, SavePaused, SaveDone,
                  Archive, Unlink, StartHead, MarkPromoted, WriteBack, AfterPromotion, Continues
        <5> QED
            BY <5>1, <5>2, <5>3, <5>4
      <4> QED
          BY <2>0, <2>1, <2>2, <4>1, <4>2 DEF Goes
    <3> QED
        BY <3>1, <3>2, <3>3
  <2>3. ASSUME NEW p \in Proc, Begin(p) PROVE Fresh'
    <3>1. PICK h, t, next : Begins(p, h, t, next) /\ next # "save" /\ (h = "register" => next # "load")
        BY <2>3 DEF Begin, BeginRegister, BeginClaim, BeginResume, BeginFollowup, BeginFinish,
                    BeginBlock, BeginMark, BeginEscalate
    <3> QED
        BY <2>0, <2>1, <2>3, <3>1 DEF Begins, Goes
  <2>4. ASSUME NEW p \in Proc, Crash(p) PROVE Fresh'
      BY <2>0, <2>4 DEF Crash, Ends, Goes, Fresh
  <2>5. CASE UNCHANGED vars
      BY <2>5 DEF vars, memory, Fresh
  <2> QED
      BY <2>2, <2>3, <2>4, <2>5 DEF Next
<1> QED
    BY <1>1, <1>2, TypeCorrect, PTL DEF Spec

\* An access that gives nobody the slot and makes nobody wait for a slot that
\* falls free: the files that were there are there, and whoever waits did.
LEMMA WaitsAsBefore ==
    ASSUME TypeOK, Kept, Fresh, NEW p \in Proc, Access(p), ~ raced',
           Queued' # {}, Running' = {},
           ~ (SaveBlocked(p) \/ SavePaused(p) \/ SaveDone(p) \/ Unlink(p))
    PROVE  /\ Queued # {} /\ Running = {}
           /\ \A t \in Task : inflight[t] # "absent" => inflight'[t] # "absent"
           /\ pc[p] = "start" => busy[p] \/ head[p] = NoTask
<1>0. /\ inflight \in [Task -> Status \cup {"absent"}]
      /\ on \in [Proc -> Task \cup {NoTask}] /\ head \in [Proc -> Task \cup {NoTask}]
      /\ pc[p] \in PastLoad => mine[p] # "absent" /\ on[p] \in Task
    BY TaskAssumption DEF TypeOK, Kept, PastLoad, NoTask
<1>1. ASSUME \A t \in Task : \/ inflight'[t] = inflight[t]
                             \/ inflight[t] = "absent" /\ inflight'[t] = "received"
      PROVE  /\ Queued # {} /\ Running = {}
             /\ \A t \in Task : inflight[t] # "absent" => inflight'[t] # "absent"
    BY <1>0, <1>1 DEF Queued, Running, With
<1>2. ASSUME NEW t \in Task, Saves(t, "running") PROVE FALSE
    BY <1>0, <1>2 DEF Saves, Running, With
<1>3. ASSUME NEW t \in Task, Saves(t, "queued"), Running # {}, inflight[t] # "running" PROVE FALSE
  <2>1. PICK u \in Task : inflight[u] = "running"
      BY <1>3 DEF Running, With
  <2>2. u # t
      BY <1>3, <2>1
  <2> QED
      BY <1>0, <1>3, <2>1, <2>2 DEF Saves, Running, With
<1>4. CASE Glob(p) \/ Scan(p) \/ Load(p) \/ Reload(p) \/ Archive(p)
  <2>1. inflight' = inflight /\ pc[p] # "start"
      BY <1>4 DEF Glob, Scan, Load, Reload, Archive, Aborts
  <2> QED
      BY <1>1, <2>1
<1>5. CASE Observe(p)
  <2>1. PICK t \in Task : IsNext(t) /\ Saves(t, "received")
      BY <1>5 DEF Observe
  <2>2. inflight[t] = "absent" /\ pc[p] # "start"
      BY <1>5, <2>1 DEF Observe, IsNext, Used, Stored
  <2>3. \A u \in Task : inflight'[u] = inflight[u] \/ (inflight[u] = "absent" /\ inflight'[u] = "received")
      BY <1>0, <2>1, <2>2 DEF Saves
  <2> QED
      BY <1>1, <2>2, <2>3
<1>6. CASE SaveClaim(p)
  <2>1. \/ inflight' = inflight
        \/ /\ mine[p] # "running" /\ mine[p] = inflight[on[p]]
           /\ \/ Saves(on[p], "running")
              \/ Saves(on[p], "queued") /\ Running # {}
      BY <1>6 DEF SaveClaim, ActsOn
  <2>2. on[p] \in Task /\ pc[p] # "start"
      BY <1>0, <1>6 DEF SaveClaim, PastLoad
  <2>3. inflight' = inflight
      BY <1>2, <1>3, <2>1, <2>2
  <2> QED
      BY <1>1, <2>2, <2>3
<1>7. CASE SaveInbound(p)
  <2>1. /\ mine[p] # "running" /\ mine[p] = inflight[on[p]]
        /\ \/ Saves(on[p], "running")
           \/ Saves(on[p], "queued") /\ Running # {}
      BY <1>7 DEF SaveInbound, ActsOn, Fresh
  <2>2. on[p] \in Task
      BY <1>0, <1>7 DEF SaveInbound, PastLoad
  <2> QED
      BY <1>2, <1>3, <2>1, <2>2
<1>8. CASE SaveMark(p) \/ WriteBack(p) \/ MarkPromoted(p)
  <2>1. PICK u, v : Saves(u, v) /\ inflight[u] = v /\ pc[p] # "start"
      BY <1>8 DEF SaveMark, WriteBack, MarkPromoted, ActsOn
  <2>2. \A t \in Task : inflight'[t] = inflight[t]
      BY <1>0, <2>1 DEF Saves
  <2> QED
      BY <1>1, <2>1, <2>2
<1>9. CASE StartHead(p)
  <2>1. CASE busy[p] \/ head[p] = NoTask
      BY <1>1, <1>9, <2>1 DEF StartHead
  <2>2. CASE ~ (busy[p] \/ head[p] = NoTask)
    <3>1. Saves(head[p], "running") /\ head[p] \in Task
        BY <1>0, <1>9, <2>2 DEF StartHead
    <3> QED
        BY <1>2, <3>1
  <2> QED
      BY <2>1, <2>2
<1> QED
    BY <1>4, <1>5, <1>6, <1>7, <1>8, <1>9 DEF Access

\* Whoever waits for a free slot has a process on duty.
LEMMA AccessServes ==
    ASSUME TypeOK, Kept, Fresh, Queued = {} \/ Running # {} \/ \E q \in Proc : OnDuty(q),
           NEW p \in Proc, Access(p), ~ raced', Queued' # {}, Running' = {}
    PROVE  \E q \in Proc : OnDuty(q)'
<1>0. /\ inflight \in [Task -> Status \cup {"absent"}] /\ pc \in [Proc -> Step \cup {"idle"}]
      /\ on \in [Proc -> Task \cup {NoTask}] /\ names \in [Proc -> SUBSET Task]
      /\ busy \in [Proc -> BOOLEAN] /\ head \in [Proc -> Task \cup {NoTask}]
      /\ \A q \in Proc : pc[q] \in PastLoad => mine[q] # "absent" /\ on[q] \in Task
    BY TaskAssumption DEF TypeOK, Kept, PastLoad, NoTask
<1>1. CASE SaveBlocked(p) \/ SavePaused(p) \/ Unlink(p)
  <2>1. pc'[p] = "promote-glob"
      BY <1>0, <1>1 DEF SaveBlocked, SavePaused, Unlink, Continues, Goes
  <2> QED
      BY <2>1 DEF OnDuty
<1>2. CASE SaveDone(p)
  <2>1. pc'[p] = "reload" /\ on'[p] = on[p] /\ on[p] \in Task /\ Saves(on[p], "done")
      BY <1>0, <1>2 DEF SaveDone, Continues, Goes, memory, PastLoad
  <2>2. inflight'[on'[p]] # "absent"
      BY <1>0, <2>1 DEF Saves
  <2> QED
      BY <2>1, <2>2 DEF OnDuty
<1>3. CASE ~ (SaveBlocked(p) \/ SavePaused(p) \/ SaveDone(p) \/ Unlink(p))
  <2>1. /\ Queued # {} /\ Running = {}
        /\ \A t \in Task : inflight[t] # "absent" => inflight'[t] # "absent"
        /\ pc[p] = "start" => busy[p] \/ head[p] = NoTask
      BY <1>3, WaitsAsBefore
  <2>2. PICK q \in Proc : OnDuty(q)
      BY <2>1
  <2>3. With(Status) \subseteq With(Status)'
    <3>1. \A t \in Task : inflight[t] \in Status => inflight'[t] \in Status
        BY <2>1, AccessType DEF TypeOK
    <3> QED
        BY <3>1 DEF With
  <2>4. CASE q # p
    <3>1. /\ pc'[q] = pc[q] /\ on'[q] = on[q] /\ names'[q] = names[q]
          /\ busy'[q] = busy[q] /\ head'[q] = head[q]
        BY <2>4, OthersStand
    <3>2. pc[q] \in {"reload", "archive", "unlink"} => on[q] \in Task
        BY <1>0 DEF PastLoad
    <3> QED
        BY <2>1, <2>2, <2>3, <3>1, <3>2 DEF OnDuty
  <2>5. CASE q = p
    <3>1. CASE pc[p] = "promote-glob"
      <4>1. Glob(p)
          BY <3>1 DEF Access, Scan, Load, Observe, SaveClaim, SaveInbound, SaveMark, SaveBlocked,
                  SavePaused, SaveDone, Reload, Archive, Unlink, StartHead, MarkPromoted, WriteBack
      <4>2. pc'[p] = "promote-scan" /\ names'[p] = With(Status)
          BY <1>0, <3>1, <4>1 DEF Glob, Goes
      <4> QED
          BY <2>3, <4>2 DEF OnDuty
    <3>2. CASE pc[p] = "promote-scan"
      <4>1. Scan(p) /\ names[p] \subseteq With(Status)
          BY <2>2, <2>5, <3>2 DEF OnDuty, Access, Glob, Load, Observe, SaveClaim, SaveInbound, SaveMark,
                  SaveBlocked, SavePaused, SaveDone, Reload, Archive, Unlink, StartHead, MarkPromoted,
                  WriteBack
      <4>2. pc'[p] = "start" /\ busy'[p] = FALSE /\ head'[p] = OldestQueued
          BY <1>0, <2>1, <3>2, <4>1 DEF Scan, Goes
      <4> QED
          BY <2>1, <4>2, OldestIsQueued DEF OnDuty
    <3>3. CASE pc[p] = "start"
        BY <2>1, <2>2, <2>5, <3>3 DEF OnDuty
    <3>4. CASE pc[p] = "reload"
      <4>1. Reload(p) /\ inflight[on[p]] # "absent" /\ on[p] \in Task
          BY <1>0, <2>2, <2>5, <3>4 DEF OnDuty, Access, Glob, Scan, Load, Observe, SaveClaim, SaveInbound,
                  SaveMark, SaveBlocked, SavePaused, SaveDone, Archive, Unlink, StartHead, MarkPromoted,
                  WriteBack, PastLoad
      <4>2. pc'[p] = "archive" /\ on' = on /\ inflight' = inflight
          BY <1>0, <4>1 DEF Reload, Goes
      <4> QED
          BY <4>1, <4>2 DEF OnDuty
    <3>5. CASE pc[p] = "archive"
      <4>1. Archive(p) /\ inflight[on[p]] # "absent"
          BY <2>2, <2>5, <3>5 DEF OnDuty, Access, Glob, Scan, Load, Observe, SaveClaim, SaveInbound,
                  SaveMark, SaveBlocked, SavePaused, SaveDone, Reload, Unlink, StartHead, MarkPromoted,
                  WriteBack
      <4>2. pc'[p] = "unlink" /\ on' = on /\ inflight' = inflight
          BY <1>0, <4>1 DEF Archive, Continues, Goes, memory
      <4> QED
          BY <4>1, <4>2 DEF OnDuty
    <3>6. pc[p] # "unlink"
        BY <1>3 DEF Access, Glob, Scan, Load, Observe, SaveClaim, SaveInbound, SaveMark, SaveBlocked,
                  SavePaused, SaveDone, Reload, Archive, StartHead, MarkPromoted, WriteBack
    <3> QED
        BY <2>2, <2>5, <3>1, <3>2, <3>3, <3>4, <3>5, <3>6 DEF OnDuty
  <2> QED
      BY <2>4, <2>5
<1> QED
    BY <1>1, <1>2, <1>3

\* When no hook is at work nobody waits for a slot that is free, however hooks
\* overlapped and whosever scans failed, unless a process was killed or acted
\* on a stale reading.
THEOREM QueueIsServed == Spec => []QueueServed
<1>1. Init => Served
    BY DEF Init, Served, Queued, With
<1>2. TypeOK /\ Kept /\ Fresh /\ Served /\ [Next]_vars => Served'
  <2> SUFFICES ASSUME TypeOK, Kept, Fresh, Served, [Next]_vars,
                      ~ raced', crashes' = 0, Queued' # {}, Running' = {}
               PROVE  \E q \in Proc : OnDuty(q)'
      BY DEF Served
  <2>0. crashes \in Nat /\ raced \in BOOLEAN
      BY BoundAssumption DEF TypeOK
  <2>1. ASSUME NEW p \in Proc, Access(p) PROVE \E q \in Proc : OnDuty(q)'
    <3>1. ~ raced /\ crashes = 0
        BY <2>0, <2>1, RacedStays, AccessKillsNobody
    <3> QED
        BY <2>1, <3>1, AccessServes DEF Served
  <2>2. ASSUME NEW p \in Proc, Begin(p) PROVE \E q \in Proc : OnDuty(q)'
    <3>1. inflight' = inflight /\ crashes' = crashes /\ raced' = raced /\ pc[p] = "idle"
        BY <2>2, BeginLeaves
    <3>2. PICK q \in Proc : OnDuty(q)
        BY <3>1 DEF Served, Queued, Running, With
    <3>3. /\ pc'[q] = pc[q] /\ on'[q] = on[q] /\ names'[q] = names[q]
          /\ busy'[q] = busy[q] /\ head'[q] = head[q]
        BY <2>2, <3>1, <3>2, OthersStand DEF OnDuty
    <3> QED
        BY <3>1, <3>2, <3>3 DEF OnDuty, With
  <2>3. ASSUME NEW p \in Proc, Crash(p) PROVE FALSE
      BY <2>0, <2>3 DEF Crash
  <2>4. CASE UNCHANGED vars
      BY <2>4 DEF vars, memory, found, counts, Served, Queued, Running, With, OnDuty
  <2> QED
      BY <2>1, <2>2, <2>3, <2>4 DEF Next
<1>3. Served => QueueServed
    BY DEF Served, QueueServed, AtRest, OnDuty
<1> QED
    BY <1>1, <1>2, <1>3, TypeCorrect, AlwaysKept, AlwaysFresh, PTL DEF Spec

=============================================================================
