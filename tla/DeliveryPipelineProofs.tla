----------------------- MODULE DeliveryPipelineProofs -----------------------
(***************************************************************************)
(* Proofs about DeliveryPipeline for any names, notifications, runners and *)
(* bounds: the directories hold what was written under their names, what   *)
(* counts as processed was delivered, a notification alone of its task is  *)
(* never lost, and none is sent twice without an excuse.                   *)
(***************************************************************************)
EXTENDS DeliveryPipeline, TLAPS

-----------------------------------------------------------------------------
\* Directories and processes.

\* A directory holds, under each name, a notification of W for that name.
Good(W, d) ==
    /\ d \in Directory
    /\ \A n \in Name : d[n] # Nothing => d[n] \in W /\ NameOf[d[n]] = n

\* A process that has an answer to act on has a file and a message; the message
\* it remembers is one of W for the name it remembers.
Fit(W, p) ==
    /\ p \in Doing
    /\ p.answer # "none" => p.name # Nothing /\ p.message # Nothing
    /\ p.message # Nothing => p.message \in W /\ NameOf[p.message] = p.name

AllFit(W, f) == f \in [Runner -> Doing] /\ \A r \in Runner : Fit(W, f[r])

\* Removing files, copying them over and writing one keep a directory good.
LEMMA WithoutGood ==
    ASSUME NEW W, NEW d, Good(W, d), NEW S
    PROVE  /\ Good(W, Without(d, S))
           /\ Files(Without(d, S)) \subseteq Files(d)
           /\ \A n \in Name : Without(d, S)[n] = IF n \in S THEN Nothing ELSE d[n]
BY DEF Good, Without, Directory, Files

LEMMA CopyGood ==
    ASSUME NEW W, NEW d, Good(W, d), NEW e, Good(W, e)
    PROVE  /\ Good(W, CopyOver(d, e))
           /\ Files(CopyOver(d, e)) = Files(d) \cup Files(e)
           /\ \A n \in Name : CopyOver(d, e)[n] \in {d[n], e[n]}
BY DEF Good, CopyOver, Directory, Files

LEMMA PutGood ==
    ASSUME NEW W, W \subseteq Message, NEW d, Good(W, d), NEW m \in W
    PROVE  Good(W, [d EXCEPT ![NameOf[m]] = m])
BY NothingAssumption, NamesAssumption DEF Good, Directory

LEMMA GoodGrows ==
    ASSUME NEW W, NEW V, W \subseteq V, NEW d, Good(W, d)
    PROVE  Good(V, d)
BY DEF Good

LEMMA FitGrows ==
    ASSUME NEW W, NEW V, W \subseteq V
    PROVE  /\ \A p : Fit(W, p) => Fit(V, p)
           /\ \A f : AllFit(W, f) => AllFit(V, f)
BY DEF Fit, AllFit

LEMMA IdleFit == ASSUME NEW W PROVE Fit(W, Idle)
BY DEF Fit, Idle, Doing, Answer

\* A runner that starts a loop, takes a file or has an answer stays fit.
LEMMA StartsFit ==
    ASSUME NEW W, AllFit(W, runner), NEW r \in Runner, NEW todo \in SUBSET Name,
           NEW stage \in {"idle", "consume", "dispatch", "execute", "retry"},
           Starts(r, stage, todo)
    PROVE  AllFit(W, runner')
<1>1. Fit(W, [Idle EXCEPT !.stage = stage, !.todo = todo])
    BY DEF Fit, Idle, Doing, Answer
<1> QED
    BY <1>1 DEF Starts, AllFit, Fit

LEMMA TakesFit ==
    ASSUME NEW W, W \subseteq Message, AllFit(W, runner), NEW r \in Runner, NEW n \in Name,
           NEW m, NEW answer \in Answer,
           m = Nothing \/ (m \in W /\ NameOf[m] = n),
           answer # "none" => m # Nothing,
           Takes(r, n, m, answer)
    PROVE  AllFit(W, runner')
<1> DEFINE p == [runner[r] EXCEPT !.todo = runner[r].todo \ {n}, !.name = n, !.message = m, !.answer = answer]
<1>1. Fit(W, runner[r]) /\ runner[r] \in Doing /\ n # Nothing
    BY NothingAssumption DEF AllFit
<1>2. /\ p.name = n /\ p.message = m /\ p.answer = answer
      /\ p \in Doing
    BY <1>1 DEF Doing
<1>3. Fit(W, p)
    BY <1>1, <1>2 DEF Fit
<1>4. runner' = [runner EXCEPT ![r] = p]
    BY DEF Takes
<1> HIDE DEF p
<1> QED
    BY <1>2, <1>3, <1>4 DEF AllFit

LEMMA AnswersFit ==
    ASSUME NEW W, AllFit(W, runner), NEW r \in Runner, runner[r].answer # "none",
           NEW answer \in Answer, Answers(r, answer)
    PROVE  AllFit(W, runner')
<1>1. /\ runner' = [runner EXCEPT ![r] = [runner[r] EXCEPT !.answer = answer]]
      /\ Fit(W, runner[r]) /\ runner \in [Runner -> Doing]
    BY DEF Answers, AllFit
<1>2. Fit(W, [runner[r] EXCEPT !.answer = answer])
    BY <1>1 DEF Fit, Doing
<1> QED
    BY <1>1, <1>2 DEF AllFit, Fit

-----------------------------------------------------------------------------
\* Type correctness.

\* Directories and processes hold only what was written, under its own name; the
\* notifications in the first three directories are those of <task_id>.json.
Stored ==
    /\ written \subseteq Message
    /\ Good(written, outbox) /\ Good(written, sent) /\ Good(written, ready)
    /\ Good(written, instr) /\ Good(written, processed)
    /\ Good(written, failed) /\ Good(written, resolved)
    /\ Files(outbox) \cup Files(sent) \cup Files(ready) \subseteq TaskName
    /\ mark \in [Name -> {"retryable", "final", "unsent"}]
Told ==
    /\ AllFit(written, runner) /\ Fit(written, host)
    /\ attempts \in [Message -> Nat] /\ excused \in [Message -> Nat]
    /\ delivered \subseteq written
    /\ crashes \in 0..MaxCrashes
    /\ \A m \in Message : attempts[m] > 0 => m \in written
Typed == Stored /\ Told

LEMMA TypedIsTypeOK == Typed => TypeOK
BY DEF Typed, Stored, Told, Good, Fit, AllFit, TypeOK

LEMMA StoredFacts ==
    ASSUME Stored
    PROVE  /\ \A n \in Name : /\ outbox[n] # Nothing => outbox[n] \in written /\ NameOf[outbox[n]] = n
                              /\ instr[n] # Nothing => instr[n] \in written /\ NameOf[instr[n]] = n
                              /\ failed[n] # Nothing => failed[n] \in written /\ NameOf[failed[n]] = n
           /\ Nothing \notin written
BY NothingAssumption DEF Stored, Good

\* The writers.
LEMMA WriterTyped ==
    ASSUME Typed, NEW m \in Message, WriteOutbox(m) \/ EnqueueSendInstruction(m)
    PROVE  Typed'
<1>0. /\ written \subseteq written' /\ m \in written' /\ written' \subseteq Message
      /\ NameOf[m] \in Name
    BY NamesAssumption DEF WriteOutbox, EnqueueSendInstruction, Typed, Stored
<1>1. /\ Good(written', outbox) /\ Good(written', sent) /\ Good(written', ready)
      /\ Good(written', instr) /\ Good(written', processed)
      /\ Good(written', failed) /\ Good(written', resolved)
    BY <1>0, GoodGrows DEF Typed, Stored
<1>2. AllFit(written', runner) /\ Fit(written', host)
    BY <1>0, FitGrows DEF Typed, Told
<1>3. CASE WriteOutbox(m)
  <2>1. Good(written', outbox') /\ Files(outbox') \subseteq TaskName
    <3>1. /\ outbox' = [outbox EXCEPT ![NameOf[m]] = m] /\ NameOf[m] \in TaskName
          /\ Files(outbox) \subseteq TaskName
        BY <1>3 DEF WriteOutbox, Typed, Stored
    <3>2. Good(written', outbox')
        BY <1>0, <1>1, <3>1, PutGood
    <3>3. Files(outbox') \subseteq Files(outbox) \cup {NameOf[m]}
        BY <1>0, <1>1, <3>1 DEF Good, Directory, Files
    <3> QED
        BY <3>1, <3>2, <3>3
  <2> QED
      BY <1>0, <1>1, <1>2, <1>3, <2>1 DEF WriteOutbox, Typed, Stored, Told, history
<1>4. CASE EnqueueSendInstruction(m)
  <2>1. Good(written', instr')
      BY <1>0, <1>1, <1>4, PutGood DEF EnqueueSendInstruction
  <2> QED
      BY <1>0, <1>1, <1>2, <1>4, <2>1 DEF EnqueueSendInstruction, Typed, Stored, Told, history
<1> QED
    BY <1>3, <1>4

\* A step that leaves what is written, counted and told alone keeps the type when
\* it keeps the directories good and the runners fit.
LEMMA TypedIf ==
    ASSUME Typed, UNCHANGED <<written, host, history>>, Stored', AllFit(written, runner')
    PROVE  Typed'
BY DEF Typed, Told, history

\* A runner's step, whichever file it is about.
LEMMA RunnerTyped ==
    ASSUME Typed, NEW r \in Runner, RunnerStep(r) \/ DryRun(r) \/ Repair(r)
    PROVE  Typed'
<1>0. /\ Stored /\ AllFit(written, runner) /\ Fit(written, runner[r])
      /\ runner[r].todo \subseteq Name /\ written \subseteq Message /\ Nothing \notin written
      /\ Good(written, outbox) /\ Good(written, sent) /\ Good(written, ready)
      /\ Good(written, instr) /\ Good(written, processed)
      /\ Good(written, failed) /\ Good(written, resolved)
    BY StoredFacts DEF Typed, Told, Stored, AllFit, Fit, Doing
<1>1. /\ \A n \in Name : /\ outbox[n] # Nothing => outbox[n] \in written /\ NameOf[outbox[n]] = n
                         /\ instr[n] # Nothing => instr[n] \in written /\ NameOf[instr[n]] = n
                         /\ failed[n] # Nothing => failed[n] \in written /\ NameOf[failed[n]] = n
      /\ runner[r].answer # "none" => /\ runner[r].message \in written
                                      /\ runner[r].name \in Name
                                      /\ NameOf[runner[r].message] = runner[r].name
    BY <1>0, StoredFacts DEF Fit, Doing
<1>2. \A d : Files(d) \subseteq Name
    BY DEF Files
<1>3. ASSUME BeginCycle(r) PROVE Typed'
  <2>1. AllFit(written, runner')
      BY <1>0, <1>2, <1>3, StartsFit DEF BeginCycle
  <2> QED
      BY <1>0, <1>3, <2>1, TypedIf DEF BeginCycle, directories, Stored
<1>4. ASSUME NEW n \in Name, ConsumeCopy(r, n) PROVE Typed'
  <2>1. AllFit(written, runner')
      BY <1>0, <1>1, <1>4, TakesFit DEF ConsumeCopy, Answer
  <2>2. outbox[n] \in written /\ NameOf[outbox[n]] = n
      BY <1>1, <1>4 DEF ConsumeCopy
  <2>3. Good(written, sent')
      BY <1>0, <1>4, <2>2, PutGood DEF ConsumeCopy
  <2>4. Files(sent') \subseteq TaskName
      BY <1>0, <1>4 DEF ConsumeCopy, Files, Stored, Good, Directory
  <2> QED
      BY <1>0, <1>4, <2>1, <2>3, <2>4, TypedIf DEF ConsumeCopy, Stored
<1>5. ASSUME ConsumeUnlink(r) PROVE Typed'
  <2>1. runner[r].name \in Name
      BY <1>1, <1>5 DEF ConsumeUnlink
  <2>2. AllFit(written, runner')
      BY <1>0, <1>5, <2>1, TakesFit DEF ConsumeUnlink, GoesOn, Answer
  <2>3. Good(written, outbox') /\ Files(outbox') \subseteq Files(outbox)
      BY <1>0, <1>5, WithoutGood DEF ConsumeUnlink
  <2> QED
      BY <1>0, <1>5, <2>2, <2>3, TypedIf DEF ConsumeUnlink, Stored
<1>6. ASSUME PrepareAll(r) PROVE Typed'
  <2>1. AllFit(written, runner')
      BY <1>0, <1>6, StartsFit DEF PrepareAll
  <2>2. Good(written, ready') /\ Files(ready') = Files(sent) \cup Files(ready)
      BY <1>0, <1>6, CopyGood DEF PrepareAll
  <2> QED
      BY <1>0, <1>6, <2>1, <2>2, TypedIf DEF PrepareAll, Stored
<1>7. ASSUME DispatchAll(r) PROVE Typed'
  <2>1. AllFit(written, runner')
      BY <1>0, <1>2, <1>7, StartsFit DEF DispatchAll
  <2>2. Good(written, instr')
      BY <1>0, <1>7, CopyGood DEF DispatchAll
  <2> QED
      BY <1>0, <1>7, <2>1, <2>2, TypedIf DEF DispatchAll, Stored
<1>8. ASSUME NEW n \in Name, ExecuteTake(r, n) PROVE Typed'
  <2>1. AllFit(written, runner')
      BY <1>0, <1>1, <1>8, TakesFit DEF ExecuteTake, Answer
  <2> QED
      BY <1>0, <1>8, <2>1, TypedIf DEF ExecuteTake, directories, Stored
<1>9. ASSUME DryRun(r) PROVE Typed'
  <2>1. AllFit(written, runner')
      BY <1>0, <1>9, StartsFit DEF DryRun
  <2> QED
      BY <1>0, <1>9, <2>1, TypedIf DEF DryRun, directories, Stored
<1>10. ASSUME NEW answer \in {"ok", "retryable", "final"}, Send(r, answer) PROVE Typed'
  <2>1. /\ AllFit(written, runner') /\ runner[r].message \in Message
        /\ runner[r].message \in written
      BY <1>0, <1>1, <1>10, AnswersFit DEF Send, Answer
  <2>2. Stored'
      BY <1>0, <1>10 DEF Send, directories, Stored
  <2>3. /\ attempts' \in [Message -> Nat] /\ excused' \in [Message -> Nat]
        /\ delivered' \subseteq written
        /\ \A m \in Message : attempts'[m] > 0 => m \in written
      BY <1>10, <2>1 DEF Send, Typed, Told
  <2> QED
      BY <1>10, <2>1, <2>2, <2>3 DEF Send, Typed, Told
<1>11. ASSUME ArchiveWrite(r) PROVE Typed'
  <2> DEFINE n == runner[r].name
             m == runner[r].message
  <2>1. m \in written /\ n \in Name /\ NameOf[m] = n /\ runner[r].answer # "none"
      BY <1>1, <1>11 DEF ArchiveWrite
  <2>2. AllFit(written, runner')
      BY <1>0, <1>11, <2>1, AnswersFit DEF ArchiveWrite, Answer
  <2>3. /\ Good(written, [processed EXCEPT ![n] = m])
        /\ Good(written, [failed EXCEPT ![n] = m])
      BY <1>0, <2>1, PutGood
  <2>4. /\ Good(written, processed') /\ Good(written, failed')
        /\ mark' \in [Name -> {"retryable", "final", "unsent"}]
      BY <1>0, <1>11, <2>1, <2>3 DEF ArchiveWrite, Succeeded, Stored
  <2> QED
      BY <1>0, <1>11, <2>2, <2>4, TypedIf DEF ArchiveWrite, Stored
<1>12. ASSUME ArchiveSweep(r) PROVE Typed'
  <2>1. runner[r].name \in Name
      BY <1>1, <1>12 DEF ArchiveSweep
  <2>2. AllFit(written, runner')
      BY <1>0, <1>12, <2>1, TakesFit DEF ArchiveSweep, GoesOn, Answer
  <2>3. /\ Good(written, outbox') /\ Files(outbox') \subseteq Files(outbox)
        /\ Good(written, sent') /\ Files(sent') \subseteq Files(sent)
        /\ Good(written, ready') /\ Files(ready') \subseteq Files(ready)
        /\ Good(written, instr')
      BY <1>0, <1>12, WithoutGood DEF ArchiveSweep
  <2> QED
      BY <1>0, <1>12, <2>2, <2>3, TypedIf DEF ArchiveSweep, Stored
<1>13. ASSUME EndExecute(r) PROVE Typed'
  <2>1. AllFit(written, runner')
      BY <1>0, <1>2, <1>13, StartsFit DEF EndExecute
  <2> QED
      BY <1>0, <1>13, <2>1, TypedIf DEF EndExecute, directories, Stored
<1>14. ASSUME NEW n \in Name, RetryTake(r, n) PROVE Typed'
  <2>1. AllFit(written, runner')
      BY <1>0, <1>1, <1>14, TakesFit DEF RetryTake, Answer
  <2>2. failed[n] \in written /\ NameOf[failed[n]] = n
      BY <1>1, <1>14 DEF RetryTake
  <2>3. Good(written, instr') /\ Good(written, failed')
      BY <1>0, <1>14, <2>2, PutGood, WithoutGood DEF RetryTake, RemoveFailed
  <2> QED
      BY <1>0, <1>14, <2>1, <2>3, TypedIf DEF RetryTake, RemoveFailed, Stored
<1>15. ASSUME NEW n \in Name, RetrySkip(r, n) PROVE Typed'
  <2>1. AllFit(written, runner')
      BY <1>0, <1>15, TakesFit DEF RetrySkip, GoesOn, Answer
  <2> QED
      BY <1>0, <1>15, <2>1, TypedIf DEF RetrySkip, directories, Stored
<1>16. ASSUME EndRetry(r) PROVE Typed'
  <2>1. AllFit(written, runner')
      BY <1>0, <1>16, StartsFit DEF EndRetry
  <2> QED
      BY <1>0, <1>16, <2>1, TypedIf DEF EndRetry, directories, Stored
<1>17. ASSUME NEW n \in Name, FileIsGone(r, n) PROVE Typed'
  <2>1. AllFit(written, runner')
      BY <1>0, <1>17, StartsFit DEF FileIsGone, Raises
  <2> QED
      BY <1>0, <1>17, <2>1, TypedIf DEF FileIsGone, directories, Stored
<1>18. ASSUME Repair(r) PROVE Typed'
  <2>1. AllFit(written, runner')
      BY <1>0, <1>2, <1>18, StartsFit DEF Repair
  <2>2. /\ Good(written, outbox') /\ Files(outbox') \subseteq Files(outbox)
        /\ Good(written, sent') /\ Files(sent') \subseteq Files(sent)
        /\ Good(written, ready') /\ Files(ready') \subseteq Files(ready)
        /\ Good(written, instr')
      BY <1>0, <1>18, WithoutGood DEF Repair, ReconcileAll
  <2> QED
      BY <1>0, <1>18, <2>1, <2>2, TypedIf DEF Repair, ReconcileAll, Stored
<1> QED
    BY <1>3, <1>4, <1>5, <1>6, <1>7, <1>8, <1>9, <1>10, <1>11, <1>12, <1>13, <1>14, <1>15,
       <1>16, <1>17, <1>18 DEF RunnerStep

\* A crash, and what an operator does.
LEMMA OperatorTyped ==
    ASSUME Typed, \/ \E r \in Runner : Crash(r)
                  \/ Reconcile
                  \/ \E n \in Name : ResolveFailed(n)
    PROVE  Typed'
<1>0. /\ Stored /\ AllFit(written, runner) /\ written \subseteq Message
      /\ Good(written, outbox) /\ Good(written, sent) /\ Good(written, ready)
      /\ Good(written, instr) /\ Good(written, failed) /\ Good(written, resolved)
    BY DEF Typed, Told, Stored
<1>1. ASSUME NEW r \in Runner, Crash(r) PROVE Typed'
  <2>1. AllFit(written, runner')
      BY <1>0, <1>1, StartsFit DEF Crash, Raises
  <2>2. Stored'
      BY <1>0, <1>1 DEF Crash, directories, Stored
  <2>3. crashes' \in 0..MaxCrashes
      BY <1>1, BoundAssumption DEF Crash, Typed, Told
  <2> QED
      BY <1>1, <2>1, <2>2, <2>3 DEF Crash, Typed, Told
<1>2. ASSUME Reconcile PROVE Typed'
  <2>2. /\ Good(written, outbox') /\ Files(outbox') \subseteq Files(outbox)
        /\ Good(written, sent') /\ Files(sent') \subseteq Files(sent)
        /\ Good(written, ready') /\ Files(ready') \subseteq Files(ready)
        /\ Good(written, instr')
      BY <1>0, <1>2, WithoutGood DEF Reconcile, ReconcileAll
  <2> QED
      BY <1>0, <1>2, <2>2, TypedIf DEF Reconcile, ReconcileAll, Stored
<1>3. ASSUME NEW n \in Name, ResolveFailed(n) PROVE Typed'
  <2>1. failed[n] \in written /\ NameOf[failed[n]] = n
      BY <1>0, <1>3, StoredFacts DEF ResolveFailed
  <2>2. Good(written, resolved') /\ Good(written, failed')
      BY <1>0, <1>3, <2>1, PutGood, WithoutGood DEF ResolveFailed, RemoveFailed
  <2> QED
      BY <1>0, <1>3, <2>2, TypedIf DEF ResolveFailed, RemoveFailed, Stored
<1> QED
    BY <1>1, <1>2, <1>3

\* The plugin's poll.
LEMMA HostTyped ==
    ASSUME Typed, HostStep
    PROVE  Typed'
<1>0. /\ Stored /\ Fit(written, host) /\ written \subseteq Message /\ host.todo \subseteq Name
      /\ Good(written, instr) /\ Good(written, processed) /\ Good(written, failed)
      /\ host.answer # "none" => /\ host.message \in written /\ host.name \in Name
                                 /\ NameOf[host.message] = host.name
    BY StoredFacts DEF Typed, Told, Stored, Fit, Doing
<1>1. ASSUME NEW todo \in SUBSET Name, HostIdles(todo) PROVE Fit(written, host')
    BY <1>1, IdleFit DEF HostIdles, Fit, Idle, Doing, Answer
<1>2. ASSUME UNCHANGED <<written, runner, history>>, Stored', Fit(written, host') PROVE Typed'
    BY <1>2 DEF Typed, Told, history
<1>3. ASSUME HostBegin PROVE Typed'
  <2>1. Fit(written, host')
      BY <1>3 DEF HostBegin, Fit, Idle, Doing, Answer, Files
  <2> QED
      BY <1>0, <1>2, <1>3, <2>1 DEF HostBegin, directories, Stored
<1>4. ASSUME NEW n \in Name, HostTake(n) PROVE Typed'
  <2>1. Fit(written, host')
    <3>1. CASE instr[n] = Nothing
        BY <1>0, <1>1, <1>4, <3>1 DEF HostTake
    <3>2. CASE instr[n] # Nothing
      <4>1. instr[n] \in written /\ NameOf[instr[n]] = n /\ n # Nothing /\ instr[n] \in Message
          BY <1>0, <3>2, StoredFacts, NothingAssumption
      <4>2. host' = [host EXCEPT !.todo = @ \ {n}, !.name = n, !.message = instr[n], !.answer = "pending"]
          BY <1>4, <3>2 DEF HostTake
      <4>3. host \in Doing /\ "pending" \in Answer
          BY <1>0 DEF Fit, Answer
      <4>4. /\ host' \in Doing /\ host'.name = n /\ host'.message = instr[n]
          BY <4>1, <4>2, <4>3 DEF Doing
      <4> QED
          BY <3>2, <4>1, <4>4 DEF Fit
    <3> QED
        BY <3>1, <3>2
  <2> QED
      BY <1>0, <1>2, <1>4, <2>1 DEF HostTake, directories, Stored
<1>5. ASSUME NEW answer \in {"ok", "final", "unsent"}, HostSend(answer) PROVE Typed'
  <2>1. /\ host' \in Doing /\ host'.name = host.name /\ host'.message = host.message
        /\ host.answer # "none"
      BY <1>0, <1>5 DEF HostSend, Fit, Doing, Answer
  <2>2. Fit(written, host')
      BY <1>0, <2>1 DEF Fit
  <2>3. delivered' \subseteq written
      BY <1>0, <1>5, <2>1 DEF HostSend, Typed, Told
  <2> QED
      BY <1>0, <1>5, <2>2, <2>3 DEF HostSend, Typed, Told, Stored, directories
<1>6. ASSUME HostArchive PROVE Typed'
  <2> DEFINE n == host.name
  <2>1. n \in Name
      BY <1>0, <1>6 DEF HostArchive
  <2>2. Fit(written, host')
      BY <1>0, <1>1, <1>6 DEF HostArchive
  <2>3. CASE instr[n] = Nothing
      BY <1>0, <1>2, <1>6, <2>2, <2>3 DEF HostArchive, Stored
  <2>4. CASE instr[n] # Nothing
    <3>1. instr[n] \in written /\ NameOf[instr[n]] = n
        BY <1>0, <2>1, <2>4, StoredFacts
    <3>2. /\ Good(written, [processed EXCEPT ![n] = instr[n]])
          /\ Good(written, [failed EXCEPT ![n] = instr[n]])
          /\ Good(written, Without(instr, {n}))
        BY <1>0, <3>1, PutGood, WithoutGood
    <3>3. /\ Good(written, processed') /\ Good(written, failed') /\ Good(written, instr')
          /\ mark' \in [Name -> {"retryable", "final", "unsent"}]
        BY <1>0, <1>6, <2>4, <3>2 DEF HostArchive, Stored
    <3> QED
        BY <1>0, <1>2, <1>6, <2>2, <3>3 DEF HostArchive, Stored
  <2> QED
      BY <2>3, <2>4
<1> QED
    BY <1>3, <1>4, <1>5, <1>6 DEF HostStep

LEMMA TypedHolds == Spec => []Typed
<1>1. Init => Typed
    BY BoundAssumption, NothingAssumption DEF Init, Empty, Idle, Typed, Stored, Told, Good, Fit, AllFit,
       Directory, Doing, Answer, Files
<1>2. Typed /\ [Next]_vars => Typed'
  <2>1. ASSUME Typed, Next PROVE Typed'
      BY <2>1, WriterTyped, RunnerTyped, OperatorTyped, HostTyped DEF Next
  <2>2. ASSUME Typed, UNCHANGED vars PROVE Typed'
      BY <2>2 DEF vars, directories, history, Typed, Stored, Told
  <2> QED
      BY <2>1, <2>2
<1> QED
    BY <1>1, <1>2, PTL DEF Spec

\* Whatever dies or overtakes whatever, the directories hold messages, and a
\* process with an answer to act on has the file and the message it is about.
THEOREM TypeCorrect == Spec => []TypeOK
BY TypedHolds, TypedIsTypeOK, PTL

-----------------------------------------------------------------------------
\* What counts as processed was delivered.

\* What a runner remembers after it starts a loop, takes a file or answers; the
\* other runners remember what they did.
LEMMA RunnerValue ==
    ASSUME Typed, NEW r \in Runner
    PROVE  /\ \A stage, todo : Starts(r, stage, todo) =>
                 /\ runner'[r].answer = "none" /\ runner'[r].message = Nothing
                 /\ \A q \in Runner \ {r} : runner'[q] = runner[q]
           /\ \A n, m, answer : Takes(r, n, m, answer) =>
                 /\ runner'[r].answer = answer /\ runner'[r].message = m /\ runner'[r].name = n
                 /\ runner'[r].stage = runner[r].stage
                 /\ \A q \in Runner \ {r} : runner'[q] = runner[q]
           /\ \A answer : Answers(r, answer) =>
                 /\ runner'[r].answer = answer /\ runner'[r].message = runner[r].message
                 /\ runner'[r].name = runner[r].name /\ runner'[r].stage = runner[r].stage
                 /\ \A q \in Runner \ {r} : runner'[q] = runner[q]
<1>1. runner \in [Runner -> Doing] /\ runner[r] \in Doing
    BY DEF Typed, Told, AllFit
<1>2. ASSUME NEW stage, NEW todo, Starts(r, stage, todo)
      PROVE  /\ runner'[r].answer = "none" /\ runner'[r].message = Nothing
             /\ \A q \in Runner \ {r} : runner'[q] = runner[q]
    BY <1>1, <1>2 DEF Starts, Idle
<1>3. ASSUME NEW n, NEW m, NEW answer, Takes(r, n, m, answer)
      PROVE  /\ runner'[r].answer = answer /\ runner'[r].message = m /\ runner'[r].name = n
             /\ runner'[r].stage = runner[r].stage
             /\ \A q \in Runner \ {r} : runner'[q] = runner[q]
  <2> DEFINE p == [runner[r] EXCEPT !.todo = runner[r].todo \ {n}, !.name = n,
                                    !.message = m, !.answer = answer]
  <2>1. p.name = n /\ p.message = m /\ p.answer = answer /\ p.stage = runner[r].stage
      BY <1>1 DEF Doing
  <2>2. runner' = [runner EXCEPT ![r] = p]
      BY <1>3 DEF Takes
  <2> HIDE DEF p
  <2> QED
      BY <1>1, <2>1, <2>2
<1>4. ASSUME NEW answer, Answers(r, answer)
      PROVE  /\ runner'[r].answer = answer /\ runner'[r].message = runner[r].message
             /\ runner'[r].name = runner[r].name /\ runner'[r].stage = runner[r].stage
             /\ \A q \in Runner \ {r} : runner'[q] = runner[q]
    BY <1>1, <1>4 DEF Answers, Doing
<1> QED
    BY <1>2, <1>3, <1>4

\* A runner that says "ok" has had the channel accept its message, and skips only
\* what the command line has no channel for; one between two cycles has nothing in
\* hand; the host deals with feishu alone.
Answered ==
    /\ \A r \in Runner : /\ runner[r].answer = "ok" => runner[r].message \in delivered
                         /\ runner[r].answer = "skipped" => ChannelOf[runner[r].name] # "direct"
                         /\ runner[r].stage = "idle" => runner[r].answer = "none"
    /\ \A n \in host.todo : ChannelOf[n] = "feishu"
    /\ host.answer # "none" => ChannelOf[host.name] = "feishu"
    /\ ProcessedWasDelivered

\* A runner's step that archives nothing keeps that, whatever it remembers next.
LEMMA AnsweredIf ==
    ASSUME Answered, NEW r \in Runner, UNCHANGED <<processed, host>>, delivered \subseteq delivered',
           \A q \in Runner \ {r} : runner'[q] = runner[q],
           runner'[r].answer = "ok" => runner'[r].message \in delivered',
           runner'[r].answer = "skipped" => ChannelOf[runner'[r].name] # "direct",
           runner'[r].stage = "idle" => runner'[r].answer = "none"
    PROVE  Answered'
BY DEF Answered, ProcessedWasDelivered, Files

LEMMA RunnerAnswered ==
    ASSUME Typed, Answered, NEW r \in Runner, RunnerStep(r) \/ DryRun(r) \/ Repair(r) \/ Crash(r)
    PROVE  Answered'
<1>0. \A q \in Runner : /\ runner[q].answer = "ok" => runner[q].message \in delivered
                        /\ runner[q].answer = "skipped" => ChannelOf[runner[q].name] # "direct"
                        /\ runner[q].stage = "idle" => runner[q].answer = "none"
    BY DEF Answered
<1>1. ASSUME NEW stage, NEW todo, Starts(r, stage, todo), UNCHANGED <<processed, host, delivered>>
      PROVE  Answered'
    BY <1>1, RunnerValue, AnsweredIf
<1>2. ASSUME NEW n, NEW m, NEW answer, Takes(r, n, m, answer),
             answer # "ok", answer = "skipped" => ~ Sends(n),
             runner[r].stage # "idle", UNCHANGED <<processed, host, delivered>>
      PROVE  Answered'
    BY <1>2, RunnerValue, AnsweredIf DEF Sends
<1>3. ASSUME BeginCycle(r) \/ PrepareAll(r) \/ DispatchAll(r) \/ DryRun(r) \/ EndExecute(r)
             \/ EndRetry(r) \/ Repair(r) \/ Crash(r) \/ \E n \in Name : FileIsGone(r, n)
      PROVE  Answered'
    BY <1>1, <1>3 DEF BeginCycle, PrepareAll, DispatchAll, DryRun, EndExecute, EndRetry, Repair,
       ReconcileAll, Crash, FileIsGone, Raises, directories, history
<1>4. ASSUME ConsumeUnlink(r) \/ ArchiveSweep(r)
             \/ \E n \in Name : \/ ConsumeCopy(r, n) \/ ExecuteTake(r, n)
                                \/ RetryTake(r, n) \/ RetrySkip(r, n)
      PROVE  Answered'
    BY <1>0, <1>2, <1>4 DEF ConsumeUnlink, ArchiveSweep, ConsumeCopy, ExecuteTake, RetryTake, RetrySkip,
       GoesOn, Looks, directories, history
<1>5. ASSUME NEW answer \in {"ok", "retryable", "final"}, Send(r, answer) PROVE Answered'
  <2>1. Answers(r, answer) /\ UNCHANGED <<processed, host>> /\ delivered \subseteq delivered'
      BY <1>5 DEF Send, directories
  <2>2. /\ answer = "ok" => runner[r].message \in delivered'
        /\ runner[r].stage # "idle"
      BY <1>0, <1>5 DEF Send
  <2> QED
      BY <2>1, <2>2, RunnerValue, AnsweredIf
<1>6. ASSUME ArchiveWrite(r) PROVE Answered'
  <2>1. Answers(r, "archived") /\ UNCHANGED <<host, delivered>>
      BY <1>6 DEF ArchiveWrite, history
  <2>2. /\ \A q \in Runner \ {r} : runner'[q] = runner[q]
        /\ runner'[r].answer = "archived" /\ runner'[r].stage # "idle"
      BY <1>0, <1>6, <2>1, RunnerValue DEF ArchiveWrite
  <2>3. \/ processed' = processed
        \/ /\ processed' = [processed EXCEPT ![runner[r].name] = runner[r].message]
           /\ runner[r].answer \in {"ok", "skipped"}
      BY <1>6 DEF ArchiveWrite, Succeeded
  <2>4. processed \in Directory
      BY DEF Typed, Stored, Good
  <2>5. ProcessedWasDelivered'
      BY <1>0, <2>1, <2>3, <2>4 DEF ProcessedWasDelivered, Files, Directory, Answered
  <2> QED
      BY <1>0, <2>1, <2>2, <2>5 DEF Answered
<1> QED
    BY <1>3, <1>4, <1>5, <1>6 DEF RunnerStep

LEMMA HostAnswered ==
    ASSUME Typed, Answered, HostStep
    PROVE  Answered'
<1>0. /\ \A n \in host.todo : ChannelOf[n] = "feishu"
      /\ host.answer # "none" => ChannelOf[host.name] = "feishu"
      /\ host \in Doing /\ processed \in Directory
    BY DEF Answered, Typed, Told, Stored, Fit, Good
<1>1. ASSUME UNCHANGED <<processed, runner>>, delivered \subseteq delivered',
             \A n \in host'.todo : ChannelOf[n] = "feishu",
             host'.answer # "none" => ChannelOf[host'.name] = "feishu"
      PROVE  Answered'
    BY <1>1 DEF Answered, ProcessedWasDelivered, Files
<1>2. ASSUME NEW todo, todo \subseteq host.todo, HostIdles(todo)
      PROVE  /\ \A n \in host'.todo : ChannelOf[n] = "feishu"
             /\ host'.answer = "none"
    BY <1>0, <1>2 DEF HostIdles, Idle
<1>3. ASSUME HostBegin PROVE Answered'
    BY <1>1, <1>3 DEF HostBegin, Idle, directories, history
<1>4. ASSUME NEW n \in Name, HostTake(n) PROVE Answered'
  <2>1. CASE instr[n] = Nothing
      BY <1>1, <1>2, <1>4, <2>1 DEF HostTake, directories, history
  <2>2. CASE instr[n] # Nothing
    <3>1. host' = [host EXCEPT !.todo = @ \ {n}, !.name = n, !.message = instr[n], !.answer = "pending"]
        BY <1>4, <2>2 DEF HostTake
    <3>2. host'.todo \subseteq host.todo /\ host'.name = n
        BY <1>0, <3>1 DEF Doing
    <3> QED
        BY <1>0, <1>1, <1>4, <3>2 DEF HostTake, directories, history
  <2> QED
      BY <2>1, <2>2
<1>5. ASSUME NEW answer \in {"ok", "final", "unsent"}, HostSend(answer) PROVE Answered'
  <2>1. host'.todo = host.todo /\ host'.name = host.name /\ host.answer # "none"
      BY <1>0, <1>5 DEF HostSend, Doing
  <2> QED
      BY <1>0, <1>1, <1>5, <2>1 DEF HostSend, directories
<1>6. ASSUME HostArchive PROVE Answered'
  <2>1. \/ processed' = processed
        \/ processed' = [processed EXCEPT ![host.name] = instr[host.name]]
      BY <1>6 DEF HostArchive
  <2>2. host.answer # "none" /\ UNCHANGED <<runner, delivered>>
      BY <1>6 DEF HostArchive, history
  <2>3. ProcessedWasDelivered'
      BY <1>0, <2>1, <2>2 DEF ProcessedWasDelivered, Files, Directory, Answered
  <2>4. (\A n \in host'.todo : ChannelOf[n] = "feishu") /\ host'.answer = "none"
      BY <1>2, <1>6 DEF HostArchive
  <2> QED
      BY <2>2, <2>3, <2>4 DEF Answered
<1> QED
    BY <1>3, <1>4, <1>5, <1>6 DEF HostStep

LEMMA AnsweredHolds == Spec => []Answered
<1>1. Init => Answered
    BY DEF Init, Empty, Idle, Answered, ProcessedWasDelivered, Files
<1>2. Typed /\ Answered /\ [Next]_vars => Answered'
  <2>1. ASSUME Answered, UNCHANGED <<processed, host, runner, delivered>> PROVE Answered'
      BY <2>1 DEF Answered, ProcessedWasDelivered, Files
  <2>2. ASSUME NEW m \in Message, WriteOutbox(m) \/ EnqueueSendInstruction(m)
        PROVE  UNCHANGED <<processed, host, runner, delivered>>
      BY <2>2 DEF WriteOutbox, EnqueueSendInstruction, history
  <2>3. Reconcile \/ (\E n \in Name : ResolveFailed(n)) \/ UNCHANGED vars
        => UNCHANGED <<processed, host, runner, delivered>>
      BY DEF Reconcile, ReconcileAll, ResolveFailed, vars, directories, history
  <2> QED
      BY <2>1, <2>2, <2>3, RunnerAnswered, HostAnswered DEF Next
<1> QED
    BY <1>1, <1>2, TypedHolds, PTL DEF Spec

\* "Processed" means processed: whichever processes overlap or die, an archived
\* instruction of a channel of the command line was accepted by that channel.
THEOREM ProcessedIsDelivered == Spec => []ProcessedWasDelivered
<1>1. Answered => ProcessedWasDelivered
    BY DEF Answered
<1> QED
    BY <1>1, AnsweredHolds, PTL

-----------------------------------------------------------------------------
\* A notification alone of its task.

Lone(m) == m \in written /\ Siblings(m) = {m}

\* Where it is: past execution, ...
Final(m) == \/ processed[NameOf[m]] = m \/ failed[NameOf[m]] = m \/ resolved[NameOf[m]] = m
\* ... or in any directory, ...
Somewhere(m) == \/ outbox[NameOf[m]] = m \/ sent[NameOf[m]] = m \/ ready[NameOf[m]] = m
                \/ instr[NameOf[m]] = m \/ Final(m)
\* ... or with a runner.
Has(r, m, S) == runner[r].message = m /\ runner[r].answer \in S
InHand       == {"pending", "ok", "skipped", "retryable", "final"}

\* No other notification goes under a name of its task.
LEMMA LoneFacts ==
    ASSUME Typed, NEW m \in Message, Lone(m)
    PROVE  /\ NameOf[m] \in Name /\ m # Nothing
           /\ \A x \in written : TaskOf[NameOf[x]] = TaskOf[NameOf[m]] => x = m
           /\ \A d \in {outbox, sent, ready, instr, processed, failed, resolved} :
                 d \in Directory /\ d[NameOf[m]] \in {m, Nothing}
           /\ \A r \in Runner : runner[r].answer # "none" =>
                 /\ runner[r].name \in Name /\ runner[r].message \in written
                 /\ NameOf[runner[r].message] = runner[r].name
                 /\ TaskOf[runner[r].name] = TaskOf[NameOf[m]] => runner[r].message = m
<1>1. NameOf[m] \in Name /\ m # Nothing
    BY NamesAssumption, NothingAssumption
<1>2. \A x \in written : TaskOf[NameOf[x]] = TaskOf[NameOf[m]] => x = m
    BY DEF Lone, Siblings
<1>3. ASSUME NEW d, Good(written, d) PROVE d \in Directory /\ d[NameOf[m]] \in {m, Nothing}
    BY <1>1, <1>2, <1>3 DEF Good
<1>4. \A d \in {outbox, sent, ready, instr, processed, failed, resolved} :
         d \in Directory /\ d[NameOf[m]] \in {m, Nothing}
    BY <1>3 DEF Typed, Stored
<1>5. \A r \in Runner : runner[r].answer # "none" =>
                 /\ runner[r].name \in Name /\ runner[r].message \in written
                 /\ NameOf[runner[r].message] = runner[r].name
    BY DEF Typed, Told, AllFit, Fit, Doing
<1> QED
    BY <1>1, <1>2, <1>4, <1>5

\* What a step may do to it: leave it where it is, with whoever works on it, ...
Left(m) ==
    /\ Somewhere(m) => Somewhere(m)'
    /\ Final(m) => Final(m)'
    /\ sent[NameOf[m]] = m => sent'[NameOf[m]] = m
    /\ \A q \in Runner :
          /\ Has(q, m, InHand) => Has(q, m, InHand)'
          /\ Has(q, m, {"archived"})' => Has(q, m, {"archived"})
          /\ Has(q, m, {"copied"})' => Has(q, m, {"copied"}) \/ sent'[NameOf[m]] = m
OthersKeep(r) == \A q \in Runner \ {r} : runner'[q] = runner[q]
\* ... clean up after the runner that archived it, ...
SweptBy(r, m) ==
    /\ Has(r, m, {"archived"}) /\ (Final(m) => Final(m)')
    /\ runner'[r].answer = "none" /\ OthersKeep(r)
\* ... unlink it from the outbox once it is copied, ...
UnlinkedBy(r, m) ==
    /\ Has(r, m, {"copied"}) /\ (Final(m) => Final(m)')
    /\ sent[NameOf[m]] = m => sent'[NameOf[m]] = m
    /\ runner'[r].answer = "none" /\ OthersKeep(r)
\* ... take it up again after a failure, ...
RetriedBy(r, m) ==
    /\ instr'[NameOf[m]] = m /\ Has(r, m, InHand)' /\ ~ Has(r, m, {"archived", "copied"})'
    /\ OthersKeep(r)
\* ... or end the runner that works on it.
DiesWith(r, m) ==
    /\ Crash(r) /\ runner'[r].answer = "none" /\ OthersKeep(r)
    /\ (Somewhere(m) => Somewhere(m)') /\ (Final(m) => Final(m)')
    /\ sent[NameOf[m]] = m => sent'[NameOf[m]] = m

\* The operator's and the host's steps.
LEMMA LoneElsewhere ==
    ASSUME Typed, NEW m \in Message, Lone(m), Lone(m)',
           \/ \E x \in Message : WriteOutbox(x) \/ EnqueueSendInstruction(x)
           \/ Reconcile \/ HostStep \/ UNCHANGED vars
           \/ \E n \in Name : ResolveFailed(n)
    PROVE  Left(m) \/ Final(m)'
<1> DEFINE n == NameOf[m]
<1>0. /\ n \in Name /\ m # Nothing
      /\ outbox \in Directory /\ instr \in Directory /\ processed \in Directory
      /\ failed \in Directory /\ resolved \in Directory
      /\ instr[n] \in {m, Nothing} /\ failed[n] \in {m, Nothing} /\ processed[n] \in {m, Nothing}
    BY LoneFacts
<1>1. ASSUME NEW x \in Message, WriteOutbox(x) \/ EnqueueSendInstruction(x) PROVE Left(m)
  <2>1. x # m /\ TaskOf[NameOf[x]] # TaskOf[NameOf[m]]
      BY <1>1 DEF Lone, Siblings, WriteOutbox, EnqueueSendInstruction
  <2>2. NameOf[x] # NameOf[m]
      BY <2>1
  <2> QED
      BY <1>0, <1>1, <2>2 DEF WriteOutbox, EnqueueSendInstruction, Left, Somewhere, Final, Has, Directory
<1>2. CASE Reconcile
  <2>1. CASE Final(m)
      BY <1>2, <2>1 DEF Reconcile, ReconcileAll, Final
  <2>2. CASE ~ Final(m)
    <3>1. n \notin Finalized
        BY <1>0, <2>2 DEF Finalized, Files, Final
    <3> QED
        BY <1>0, <1>2, <2>2, <3>1
           DEF Reconcile, ReconcileAll, Without, Left, Somewhere, Final, Has
  <2> QED
      BY <2>1, <2>2
<1>3. ASSUME NEW k \in Name, ResolveFailed(k) PROVE Left(m)
  <2>1. k # n => failed'[n] = failed[n] /\ resolved'[n] = resolved[n]
      BY <1>0, <1>3 DEF ResolveFailed, RemoveFailed, Without, Directory
  <2>2. k = n => resolved'[n] = m
      BY <1>0, <1>3 DEF ResolveFailed, Directory
  <2> QED
      BY <1>3, <2>1, <2>2 DEF ResolveFailed, Left, Somewhere, Final, Has
<1>4. ASSUME HostBegin \/ (\E k \in Name : HostTake(k))
             \/ \E answer \in {"ok", "final", "unsent"} : HostSend(answer)
      PROVE  Left(m)
    BY <1>4 DEF HostBegin, HostTake, HostSend, directories, Left, Somewhere, Final, Has
<1>5. CASE HostArchive
  <2>1. CASE host.name # n
    <3>1. /\ instr'[n] = instr[n] /\ processed'[n] = processed[n] /\ failed'[n] = failed[n]
          /\ UNCHANGED <<outbox, sent, ready, resolved, runner>>
        BY <1>0, <1>5, <2>1 DEF HostArchive, Without, Directory
    <3> QED
        BY <3>1 DEF Left, Somewhere, Final, Has
  <2>2. CASE host.name = n /\ instr[n] = Nothing
    <3>1. UNCHANGED <<outbox, sent, ready, instr, processed, failed, resolved, runner>>
        BY <1>5, <2>2 DEF HostArchive
    <3> QED
        BY <3>1 DEF Left, Somewhere, Final, Has
  <2>3. CASE host.name = n /\ instr[n] # Nothing
      BY <1>0, <1>5, <2>3 DEF HostArchive, Final, Directory
  <2> QED
      BY <2>1, <2>2, <2>3
<1>6. CASE UNCHANGED vars
    BY <1>6 DEF vars, directories, Left, Somewhere, Final, Has
<1> QED
    BY <1>1, <1>2, <1>3, <1>4, <1>5, <1>6 DEF HostStep

\* The runners' steps.
LEMMA LoneRunner ==
    ASSUME Typed, Answered, NEW m \in Message, Lone(m), NEW r \in Runner,
           RunnerStep(r) \/ DryRun(r) \/ Repair(r) \/ Crash(r)
    PROVE  \/ Left(m) \/ Final(m)' \/ SweptBy(r, m) \/ UnlinkedBy(r, m)
           \/ RetriedBy(r, m) \/ DiesWith(r, m)
<1> DEFINE n == NameOf[m]
<1>0. /\ n \in Name /\ m # Nothing
      /\ outbox \in Directory /\ sent \in Directory /\ ready \in Directory
      /\ instr \in Directory /\ processed \in Directory
      /\ failed \in Directory /\ resolved \in Directory
      /\ outbox[n] \in {m, Nothing} /\ sent[n] \in {m, Nothing} /\ ready[n] \in {m, Nothing}
      /\ instr[n] \in {m, Nothing} /\ processed[n] \in {m, Nothing} /\ failed[n] \in {m, Nothing}
      /\ runner[r].answer # "none" =>
            /\ runner[r].name \in Name
            /\ NameOf[runner[r].message] = runner[r].name
            /\ TaskOf[runner[r].name] = TaskOf[n] => runner[r].message = m
      /\ runner[r].stage = "idle" => runner[r].answer = "none"
    BY LoneFacts DEF Answered
<1>1. ASSUME NEW stage, NEW todo, Starts(r, stage, todo), runner[r].answer = "none",
             UNCHANGED <<sent, processed, failed, resolved>>,
             Somewhere(m) => Somewhere(m)'
      PROVE  Left(m)
  <2>1. /\ runner'[r].answer = "none"
        /\ \A q \in Runner \ {r} : runner'[q] = runner[q]
      BY <1>1, RunnerValue
  <2> QED
      BY <1>1, <2>1 DEF Left, Has, Final, InHand
<1>2. ASSUME BeginCycle(r) \/ DryRun(r) \/ EndExecute(r) \/ EndRetry(r) \/ \E k \in Name : FileIsGone(r, k)
      PROVE  Left(m)
  <2>1. UNCHANGED directories /\ \E stage, todo : Starts(r, stage, todo)
      BY <1>2 DEF BeginCycle, DryRun, EndExecute, EndRetry, FileIsGone, Raises
  <2>2. runner[r].answer = "none"
      BY <1>0, <1>2 DEF BeginCycle, DryRun, EndExecute, EndRetry, FileIsGone, LoopEnds, Looks
  <2>3. Somewhere(m) => Somewhere(m)'
      BY <2>1 DEF directories, Somewhere, Final
  <2> QED
      BY <1>1, <2>1, <2>2, <2>3 DEF directories
<1>3. ASSUME PrepareAll(r) PROVE Left(m)
  <2>1. ready[n] = m \/ sent[n] = m => ready'[n] = m
      BY <1>0, <1>3 DEF PrepareAll, CopyOver
  <2>2. Somewhere(m) => Somewhere(m)'
      BY <1>3, <2>1 DEF PrepareAll, Somewhere, Final
  <2> QED
      BY <1>1, <1>3, <2>2 DEF PrepareAll, LoopEnds, Looks
<1>4. ASSUME DispatchAll(r) PROVE Left(m)
  <2>1. instr[n] = m => instr'[n] = m
      BY <1>0, <1>4 DEF DispatchAll, CopyOver
  <2>2. Somewhere(m) => Somewhere(m)'
      BY <1>4, <2>1 DEF DispatchAll, Somewhere, Final
  <2> QED
      BY <1>1, <1>4, <2>2 DEF DispatchAll, LoopEnds, Looks
<1>5. ASSUME Repair(r) PROVE Left(m) \/ Final(m)'
  <2>1. CASE Final(m)
      BY <1>5, <2>1 DEF Repair, ReconcileAll, Final
  <2>2. CASE ~ Final(m)
    <3>1. n \notin Finalized
        BY <1>0, <2>2 DEF Finalized, Files, Final
    <3>2. /\ outbox'[n] = outbox[n] /\ sent'[n] = sent[n] /\ ready'[n] = ready[n] /\ instr'[n] = instr[n]
          /\ UNCHANGED <<processed, failed, resolved>>
        BY <1>0, <1>5, <3>1 DEF Repair, ReconcileAll, Without
    <3>3. /\ runner'[r].answer = "none" /\ runner[r].answer = "none"
          /\ \A q \in Runner \ {r} : runner'[q] = runner[q]
        BY <1>0, <1>5, RunnerValue DEF Repair
    <3> QED
        BY <3>2, <3>3 DEF Left, Somewhere, Final, Has, InHand
  <2> QED
      BY <2>1, <2>2
<1>6. ASSUME Crash(r) PROVE DiesWith(r, m)
  <2>1. /\ runner'[r].answer = "none"
        /\ \A q \in Runner \ {r} : runner'[q] = runner[q]
      BY <1>6, RunnerValue DEF Crash, Raises
  <2> QED
      BY <1>6, <2>1 DEF DiesWith, OthersKeep, Crash, directories, Somewhere, Final
<1>7. ASSUME NEW k \in Name, ConsumeCopy(r, k) PROVE Left(m)
  <2>1. /\ runner'[r].message = outbox[k] /\ runner'[r].answer = "copied"
        /\ runner[r].answer = "none"
        /\ \A q \in Runner \ {r} : runner'[q] = runner[q]
        /\ UNCHANGED <<outbox, ready, instr, processed, failed, resolved>>
      BY <1>7, RunnerValue DEF ConsumeCopy, Looks
  <2>2. /\ k = n => sent'[n] = m
        /\ k # n => sent'[n] = sent[n]
      BY <1>0, <1>7 DEF ConsumeCopy, Directory
  <2>3. outbox[k] = m => k = n
      BY <1>7, StoredFacts DEF ConsumeCopy, Typed
  <2> QED
      BY <2>1, <2>2, <2>3 DEF Left, Somewhere, Final, Has, InHand
<1>8. ASSUME ConsumeUnlink(r) PROVE Left(m) \/ UnlinkedBy(r, m)
  <2>1. /\ runner'[r].answer = "none" /\ runner[r].answer = "copied"
        /\ \A q \in Runner \ {r} : runner'[q] = runner[q]
        /\ UNCHANGED <<sent, ready, instr, processed, failed, resolved>>
      BY <1>8, RunnerValue DEF ConsumeUnlink, GoesOn
  <2>2. CASE runner[r].name = n
      BY <1>0, <2>1, <2>2 DEF UnlinkedBy, OthersKeep, Final, Has
  <2>3. CASE runner[r].name # n
    <3>1. outbox'[n] = outbox[n]
        BY <1>0, <1>8, <2>3 DEF ConsumeUnlink, Without
    <3> QED
        BY <2>1, <3>1 DEF Left, Somewhere, Final, Has, InHand
  <2> QED
      BY <2>2, <2>3
<1>9. ASSUME NEW k \in Name, ExecuteTake(r, k) \/ RetrySkip(r, k) PROVE Left(m)
  <2>1. /\ runner'[r].answer \in {"none", "pending", "skipped"} /\ runner[r].answer = "none"
        /\ \A q \in Runner \ {r} : runner'[q] = runner[q]
        /\ UNCHANGED directories
      BY <1>9, RunnerValue DEF ExecuteTake, RetrySkip, GoesOn, Looks
  <2> QED
      BY <2>1 DEF directories, Left, Somewhere, Final, Has, InHand
<1>10. ASSUME NEW answer \in {"ok", "retryable", "final"}, Send(r, answer) PROVE Left(m)
  <2>1. /\ runner'[r].answer = answer /\ runner'[r].message = runner[r].message
        /\ \A q \in Runner \ {r} : runner'[q] = runner[q]
        /\ UNCHANGED directories
      BY <1>10, RunnerValue DEF Send
  <2> QED
      BY <2>1 DEF directories, Left, Somewhere, Final, Has, InHand
<1>11. ASSUME ArchiveWrite(r) PROVE Left(m) \/ Final(m)'
  <2>1. /\ runner'[r].answer = "archived" /\ runner'[r].message = runner[r].message
        /\ runner[r].answer # "none"
        /\ \A q \in Runner \ {r} : runner'[q] = runner[q]
        /\ UNCHANGED <<outbox, sent, ready, instr, resolved>>
      BY <1>11, RunnerValue DEF ArchiveWrite
  <2>2. CASE runner[r].message = m
      BY <1>0, <1>11, <2>1, <2>2 DEF ArchiveWrite, Final, Directory
  <2>3. CASE runner[r].message # m
    <3>1. runner[r].name # n
        BY <1>0, <2>1, <2>3
    <3>2. processed'[n] = processed[n] /\ failed'[n] = failed[n]
        BY <1>0, <1>11, <3>1 DEF ArchiveWrite, Directory
    <3> QED
        BY <2>1, <2>3, <3>2 DEF Left, Somewhere, Final, Has
  <2> QED
      BY <2>2, <2>3
<1>12. ASSUME ArchiveSweep(r) PROVE Left(m) \/ SweptBy(r, m)
  <2> DEFINE task == TaskOf[runner[r].name]
  <2>1. /\ runner'[r].answer = "none" /\ runner[r].answer = "archived"
        /\ \A q \in Runner \ {r} : runner'[q] = runner[q]
        /\ UNCHANGED <<processed, failed, resolved>>
      BY <1>12, RunnerValue DEF ArchiveSweep, GoesOn
  <2>2. CASE task = TaskOf[n]
      BY <1>0, <2>1, <2>2 DEF SweptBy, OthersKeep, Has, Final
  <2>3. CASE task # TaskOf[n]
    <3>1. n # runner[r].name /\ n # task
        BY <1>0, <2>1, <2>3, NamesAssumption
    <3>2. outbox'[n] = outbox[n] /\ sent'[n] = sent[n] /\ ready'[n] = ready[n] /\ instr'[n] = instr[n]
        BY <1>0, <1>12, <3>1 DEF ArchiveSweep, Without
    <3> QED
        BY <2>1, <3>2 DEF Left, Somewhere, Final, Has, InHand
  <2> QED
      BY <2>2, <2>3
<1>13. ASSUME NEW k \in Name, RetryTake(r, k) PROVE Left(m) \/ RetriedBy(r, m)
  <2>1. /\ runner'[r].message = failed[k] /\ runner'[r].answer \in {"pending", "skipped"}
        /\ runner[r].answer = "none"
        /\ \A q \in Runner \ {r} : runner'[q] = runner[q]
        /\ UNCHANGED <<outbox, sent, ready, processed, resolved>>
      BY <1>13, RunnerValue DEF RetryTake, Looks
  <2>2. CASE k = n
    <3>1. failed[k] = m /\ instr'[n] = m
        BY <1>0, <1>13, <2>2 DEF RetryTake, Directory
    <3> QED
        BY <2>1, <3>1 DEF RetriedBy, OthersKeep, Has, InHand
  <2>3. CASE k # n
    <3>1. instr'[n] = instr[n] /\ failed'[n] = failed[n]
        BY <1>0, <1>13, <2>3 DEF RetryTake, RemoveFailed, Without, Directory
    <3> QED
        BY <2>1, <3>1 DEF Left, Somewhere, Final, Has, InHand
  <2> QED
      BY <2>2, <2>3
<1> QED
    BY <1>2, <1>3, <1>4, <1>5, <1>6, <1>7, <1>8, <1>9, <1>10, <1>11, <1>12, <1>13 DEF RunnerStep

LEMMA LoneStep ==
    ASSUME Typed, Answered, NEW m \in Message, Lone(m), Lone(m)', [Next]_vars
    PROVE  \/ Left(m) \/ Final(m)'
           \/ \E r \in Runner : \/ SweptBy(r, m) \/ UnlinkedBy(r, m)
                                \/ RetriedBy(r, m) \/ DiesWith(r, m)
<1>1. ASSUME NEW r \in Runner, RunnerStep(r) \/ DryRun(r) \/ Repair(r) \/ Crash(r)
      PROVE  \/ Left(m) \/ Final(m)' \/ SweptBy(r, m) \/ UnlinkedBy(r, m)
             \/ RetriedBy(r, m) \/ DiesWith(r, m)
    BY <1>1, LoneRunner
<1>2. ASSUME \/ \E x \in Message : WriteOutbox(x) \/ EnqueueSendInstruction(x)
             \/ Reconcile \/ HostStep \/ UNCHANGED vars
             \/ \E n \in Name : ResolveFailed(n)
      PROVE  Left(m) \/ Final(m)'
    BY <1>2, LoneElsewhere
<1> QED
    BY <1>1, <1>2 DEF Next

\* Only the writers write.
LEMMA WrittenGrows ==
    ASSUME [Next]_vars
    PROVE  \/ written' = written
           \/ \E x \in Message : /\ WriteOutbox(x) \/ EnqueueSendInstruction(x)
                               /\ written' = written \cup {x}
<1>1. ASSUME NEW r \in Runner, RunnerStep(r) \/ DryRun(r) \/ Crash(r) \/ Repair(r)
      PROVE  written' = written
    BY <1>1 DEF RunnerStep, BeginCycle, ConsumeCopy, ExecuteTake, RetryTake, RetrySkip, FileIsGone,
       ConsumeUnlink, PrepareAll, DispatchAll, Send, ArchiveWrite, ArchiveSweep, EndExecute,
       EndRetry, DryRun, Crash, Repair
<1>2. HostStep \/ Reconcile \/ (\E n \in Name : ResolveFailed(n)) \/ UNCHANGED vars => written' = written
    BY DEF HostStep, HostBegin, HostTake, HostSend, HostArchive, Reconcile, ResolveFailed, vars
<1>3. \A x \in Message : WriteOutbox(x) \/ EnqueueSendInstruction(x) => written' = written \cup {x}
    BY DEF WriteOutbox, EnqueueSendInstruction
<1> QED
    BY <1>1, <1>2, <1>3 DEF Next

\* A notification that is alone of its task after a step was so before it, or has
\* just been written and is in no runner's hands.
LEMMA LoneBefore ==
    ASSUME Typed, NEW m \in Message, Lone(m)', [Next]_vars
    PROVE  \/ Lone(m)
           \/ Somewhere(m)' /\ \A r \in Runner : runner'[r].message # m
<1>1. CASE m \in written
  <2>1. Siblings(m) \subseteq Siblings(m)'
      BY WrittenGrows DEF Siblings
  <2>2. m \in Siblings(m)
      BY <1>1 DEF Siblings
  <2> QED
      BY <1>1, <2>1, <2>2 DEF Lone
<1>2. CASE m \notin written
  <2>1. WriteOutbox(m) \/ EnqueueSendInstruction(m)
      BY <1>2, WrittenGrows DEF Lone
  <2>2. NameOf[m] \in Name /\ m # Nothing /\ outbox \in Directory /\ instr \in Directory
      BY NamesAssumption, NothingAssumption DEF Typed, Stored, Good
  <2>3. Somewhere(m)' /\ runner' = runner
      BY <2>1, <2>2 DEF WriteOutbox, EnqueueSendInstruction, Somewhere, Directory
  <2>4. \A r \in Runner : runner[r].message # m
      BY <1>2, <2>2 DEF Typed, Told, AllFit, Fit
  <2> QED
      BY <2>3, <2>4
<1> QED
    BY <1>1, <1>2

\* One runner, which may die: what it archived is past execution until it takes
\* it up again, and what it unlinks from the outbox has its copy.
OneRunnerKeeps ==
    \A m \in Message : Lone(m) =>
        /\ Somewhere(m)
        /\ \A r \in Runner : /\ Has(r, m, {"archived"}) => Final(m)
                             /\ Has(r, m, {"copied"}) => Final(m) \/ sent[NameOf[m]] = m

\* Several runners, none of which dies: what was archived, or swept with what was,
\* is past execution or in the hands of the runner that took it up again.
RunnersKeep ==
    \A m \in Message : Lone(m) =>
        LET K == Final(m) \/ \E r \in Runner : Has(r, m, InHand)
        IN  /\ Somewhere(m) \/ K
            /\ \A r \in Runner : /\ Has(r, m, {"archived"}) => K
                                 /\ Has(r, m, {"copied"}) => K \/ sent[NameOf[m]] = m

\* A notification that is the only one of its task is never lost as long as one
\* runner works at a time, wherever it dies, whatever the plugin's poll and the
\* operator do in between: each file operation leaves it in another directory.
THEOREM LoneMessagesAreKept ==
    ASSUME \A q, r \in Runner : q = r
    PROVE  Spec => []LoneMessageKept
<1>1. Init => OneRunnerKeeps
    BY DEF Init, OneRunnerKeeps, Lone
<1>2. ASSUME Typed, Answered, OneRunnerKeeps, [Next]_vars PROVE OneRunnerKeeps'
  <2> SUFFICES ASSUME NEW m \in Message, Lone(m)'
               PROVE  /\ Somewhere(m)'
                      /\ \A r \in Runner : /\ Has(r, m, {"archived"})' => Final(m)'
                                           /\ Has(r, m, {"copied"})' => (Final(m) \/ sent[NameOf[m]] = m)'
      BY DEF OneRunnerKeeps
  <2>1. CASE ~ Lone(m)
      BY <1>2, <2>1, LoneBefore DEF Has
  <2>2. CASE Lone(m)
    <3>0. /\ Somewhere(m)
          /\ \A r \in Runner : /\ Has(r, m, {"archived"}) => Final(m)
                               /\ Has(r, m, {"copied"}) => Final(m) \/ sent[NameOf[m]] = m
        BY <1>2, <2>2 DEF OneRunnerKeeps
    <3>1. CASE Left(m)
        BY <3>0, <3>1 DEF Left
    <3>2. CASE Final(m)'
        BY <3>2 DEF Somewhere
    <3>3. ASSUME NEW r \in Runner, SweptBy(r, m) \/ UnlinkedBy(r, m)
          PROVE  Somewhere(m)' /\ \A q \in Runner : runner'[q].answer = "none"
        BY <3>0, <3>3 DEF SweptBy, UnlinkedBy, Somewhere
    <3>4. ASSUME NEW r \in Runner, RetriedBy(r, m)
          PROVE  Somewhere(m)' /\ \A q \in Runner : ~ Has(q, m, {"archived", "copied"})'
        BY <3>4 DEF RetriedBy, Somewhere
    <3>5. ASSUME NEW r \in Runner, DiesWith(r, m)
          PROVE  Somewhere(m)' /\ \A q \in Runner : runner'[q].answer = "none"
        BY <3>0, <3>5 DEF DiesWith
    <3> QED
        BY <1>2, <2>2, <3>1, <3>2, <3>3, <3>4, <3>5, LoneStep DEF Has
  <2> QED
      BY <2>1, <2>2
<1>3. Typed /\ OneRunnerKeeps => LoneMessageKept
  <2> SUFFICES ASSUME Typed, OneRunnerKeeps, NEW m \in written, Siblings(m) = {m} PROVE Holds(m) # {}
      BY DEF LoneMessageKept
  <2>1. m \in Message /\ Lone(m)
      BY DEF Lone, Typed, Stored
  <2>2. Somewhere(m)
      BY <2>1 DEF OneRunnerKeeps
  <2> QED
      BY <2>2 DEF Somewhere, Final, Holds
<1> QED
    BY <1>1, <1>2, <1>3, TypedHolds, AnsweredHolds, PTL DEF Spec

\* With several runners at once, one may sweep what another has just taken up
\* again; as long as none dies that one still has it in hand, and archives it.
THEOREM LoneMessagesAreAlive ==
    ASSUME MaxCrashes = 0
    PROVE  Spec => []LoneMessageAlive
<1>1. Init => RunnersKeep
    BY DEF Init, RunnersKeep, Lone
<1>2. ASSUME Typed, Answered, RunnersKeep, [Next]_vars PROVE RunnersKeep'
  <2> SUFFICES ASSUME NEW m \in Message, Lone(m)'
               PROVE  /\ Somewhere(m)' \/ Final(m)' \/ \E r \in Runner : Has(r, m, InHand)'
                      /\ \A r \in Runner :
                            /\ Has(r, m, {"archived"})' =>
                                  Final(m)' \/ \E q \in Runner : Has(q, m, InHand)'
                            /\ Has(r, m, {"copied"})' =>
                                  \/ Final(m)' \/ \E q \in Runner : Has(q, m, InHand)'
                                  \/ sent'[NameOf[m]] = m
      BY DEF RunnersKeep
  <2>1. CASE ~ Lone(m)
      BY <1>2, <2>1, LoneBefore DEF Has
  <2>2. CASE Lone(m)
    <3>0. /\ Somewhere(m) \/ Final(m) \/ \E r \in Runner : Has(r, m, InHand)
          /\ \A r \in Runner : /\ Has(r, m, {"archived"}) =>
                                     Final(m) \/ \E q \in Runner : Has(q, m, InHand)
                               /\ Has(r, m, {"copied"}) =>
                                     \/ Final(m) \/ \E q \in Runner : Has(q, m, InHand)
                                     \/ sent[NameOf[m]] = m
        BY <1>2, <2>2 DEF RunnersKeep
    <3>1. CASE Left(m)
        BY <3>0, <3>1 DEF Left
    <3>2. CASE Final(m)'
        BY <3>2 DEF Somewhere
    <3>3. ASSUME NEW r \in Runner, SweptBy(r, m)
          PROVE  Final(m)' \/ \E q \in Runner : Has(q, m, InHand)'
      <4>1. ~ Has(r, m, InHand)
          BY <3>3 DEF SweptBy, Has, InHand
      <4>2. \A q \in Runner : Has(q, m, InHand) => Has(q, m, InHand)'
          BY <3>3, <4>1 DEF SweptBy, OthersKeep, Has
      <4>3. (Final(m) => Final(m)') /\ Has(r, m, {"archived"})
          BY <3>3 DEF SweptBy
      <4> QED
          BY <3>0, <4>2, <4>3
    <3>4. ASSUME NEW r \in Runner, UnlinkedBy(r, m)
          PROVE  \/ Final(m)' \/ \E q \in Runner : Has(q, m, InHand)'
                 \/ sent'[NameOf[m]] = m /\ \A q \in Runner : ~ Has(q, m, {"archived"})'
      <4>1. ~ Has(r, m, InHand) /\ ~ Has(r, m, InHand \cup {"archived"})'
          BY <3>4 DEF UnlinkedBy, Has, InHand
      <4>2. \A q \in Runner : /\ Has(q, m, InHand) => Has(q, m, InHand)'
                              /\ Has(q, m, {"archived"})' => Has(q, m, {"archived"})
          BY <3>4, <4>1 DEF UnlinkedBy, OthersKeep, Has
      <4>3. /\ (Final(m) => Final(m)') /\ Has(r, m, {"copied"})
            /\ sent[NameOf[m]] = m => sent'[NameOf[m]] = m
          BY <3>4 DEF UnlinkedBy
      <4> QED
          BY <3>0, <4>2, <4>3
    <3>5. ASSUME NEW r \in Runner, RetriedBy(r, m) PROVE Has(r, m, InHand)'
        BY <3>5 DEF RetriedBy
    <3>6. ASSUME NEW r \in Runner PROVE ~ DiesWith(r, m)
        BY <1>2 DEF DiesWith, Crash, Typed, Told
    <3> QED
        BY <1>2, <2>2, <3>1, <3>2, <3>3, <3>4, <3>5, <3>6, LoneStep DEF Somewhere
  <2> QED
      BY <2>1, <2>2
<1>3. Typed /\ RunnersKeep => LoneMessageAlive
  <2> SUFFICES ASSUME Typed, RunnersKeep, NEW m \in written, Siblings(m) = {m}
               PROVE  Holds(m) # {} \/ \E r \in Runner : runner[r].message = m
      BY DEF LoneMessageAlive
  <2>1. m \in Message /\ Lone(m)
      BY DEF Lone, Typed, Stored
  <2>2. Somewhere(m) \/ Final(m) \/ \E r \in Runner : Has(r, m, InHand)
      BY <2>1 DEF RunnersKeep
  <2> QED
      BY <2>2 DEF Somewhere, Final, Holds, Has
<1> QED
    BY <1>1, <1>2, <1>3, TypedHolds, AnsweredHolds, PTL DEF Spec

-----------------------------------------------------------------------------
\* What is sent once.

\* The runner is done with m, and will sweep it; otherwise it will be sent again,
\* from a directory or the runner's hands, ...
Spent(m)    == \E r \in Runner : Has(r, m, {"ok", "final", "archived"})
Ahead(m)    == outbox[NameOf[m]] = m \/ sent[NameOf[m]] = m \/ ready[NameOf[m]] = m \/ instr[NameOf[m]] = m
Sendable(m) == ~ Spent(m) /\ (Ahead(m) \/ \E r \in Runner : Has(r, m, {"pending", "retryable"}))
\* ... or after a failure that may be retried.
Retriable(m) == failed[NameOf[m]] = m /\ mark[NameOf[m]] # "final"

\* Each send made, and each one still to come without a new excuse, is the first
\* one, follows a retryable failure, or follows the death of a runner.
Credited(m) ==
    attempts[m] + (IF Sendable(m) THEN 1 ELSE 0) + (IF Retriable(m) THEN 1 ELSE 0)
        <= 1 + excused[m] + crashes

Direct(m) == m \in Message /\ ChannelOf[NameOf[m]] = "direct"

LEMMA CreditedIf ==
    ASSUME Typed, NEW m \in Message, Credited(m),
           attempts'[m] = attempts[m], excused'[m] = excused[m], crashes' = crashes,
           Sendable(m)' => Sendable(m), Retriable(m)' => Retriable(m)
    PROVE  Credited(m)'
<1>1. attempts[m] \in Nat /\ excused[m] \in Nat /\ crashes \in Nat
    BY BoundAssumption DEF Typed, Told
<1> QED
    BY <1>1 DEF Credited

\* The writers', the operator's and the host's steps.
LEMMA CreditedElsewhere ==
    ASSUME Typed, Answered, NEW m, Direct(m), Credited(m),
           \/ \E x \in Message : WriteOutbox(x) \/ EnqueueSendInstruction(x)
           \/ Reconcile \/ HostStep \/ UNCHANGED vars
           \/ \E n \in Name : ResolveFailed(n)
    PROVE  Credited(m)'
<1> DEFINE n == NameOf[m]
<1>0. /\ m \in Message /\ n \in Name /\ m # Nothing /\ ChannelOf[n] = "direct"
      /\ outbox \in Directory /\ instr \in Directory /\ processed \in Directory
      /\ failed \in Directory /\ resolved \in Directory
    BY NamesAssumption, NothingAssumption DEF Direct, Typed, Stored, Good
<1>1. ASSUME NEW x \in Message, WriteOutbox(x) \/ EnqueueSendInstruction(x), x # m PROVE Credited(m)'
  <2>1. /\ outbox'[n] = m => outbox[n] = m
        /\ instr'[n] = m => instr[n] = m
        /\ UNCHANGED <<sent, ready, failed, mark, runner, history>>
      BY <1>0, <1>1 DEF WriteOutbox, EnqueueSendInstruction, Directory
  <2>2. Sendable(m)' => Sendable(m)
      BY <2>1 DEF Sendable, Spent, Ahead, Has
  <2> QED
      BY <1>0, <2>1, <2>2, CreditedIf DEF history, Retriable
<1>2. ASSUME WriteOutbox(m) \/ EnqueueSendInstruction(m) PROVE Credited(m)'
  <2>1. m \notin written /\ UNCHANGED <<failed, mark, runner, history>>
      BY <1>2 DEF WriteOutbox, EnqueueSendInstruction
  <2>2. attempts[m] = 0 /\ failed[n] # m /\ excused[m] \in Nat /\ crashes \in Nat
      BY <1>0, <2>1, BoundAssumption DEF Typed, Told, Stored, Good
  <2> QED
      BY <2>1, <2>2 DEF history, Credited, Retriable
<1>3. ASSUME Reconcile PROVE Credited(m)'
  <2>1. /\ outbox'[n] = m => outbox[n] = m
        /\ sent'[n] = m => sent[n] = m
        /\ ready'[n] = m => ready[n] = m
        /\ instr'[n] = m => instr[n] = m
        /\ UNCHANGED <<failed, mark, runner, history>>
      BY <1>0, <1>3 DEF Reconcile, ReconcileAll, Without
  <2>2. Sendable(m)' => Sendable(m)
      BY <2>1 DEF Sendable, Spent, Ahead, Has
  <2> QED
      BY <1>0, <2>1, <2>2, CreditedIf DEF history, Retriable
<1>4. ASSUME NEW k \in Name, ResolveFailed(k) PROVE Credited(m)'
  <2>1. failed'[n] = m => failed[n] = m /\ mark'[n] = mark[n]
    <3>1. k = n => failed'[n] # m
        BY <1>0, <1>4 DEF ResolveFailed, RemoveFailed, Without
    <3>2. k # n => failed'[n] = failed[n] /\ mark'[n] = mark[n]
        BY <1>0, <1>4 DEF ResolveFailed, RemoveFailed, Without, Typed, Stored
    <3> QED
        BY <3>1, <3>2
  <2>2. UNCHANGED <<outbox, sent, ready, instr, runner, history>>
      BY <1>4 DEF ResolveFailed
  <2>3. Sendable(m)' => Sendable(m)
      BY <2>2 DEF Sendable, Spent, Ahead, Has
  <2> QED
      BY <1>0, <2>1, <2>2, <2>3, CreditedIf DEF history, Retriable
<1>5. ASSUME HostStep PROVE Credited(m)'
  <2>1. /\ instr'[n] = m => instr[n] = m
        /\ failed'[n] = failed[n] /\ mark'[n] = mark[n]
        /\ UNCHANGED <<outbox, sent, ready, runner, attempts, excused, crashes>>
    <3>1. CASE HostBegin \/ (\E k \in Name : HostTake(k))
               \/ \E answer \in {"ok", "final", "unsent"} : HostSend(answer)
        BY <3>1 DEF HostBegin, HostTake, HostSend, directories, history
    <3>2. CASE HostArchive
      <4>1. host.name # n
          BY <1>0, <3>2 DEF HostArchive, Answered
      <4> QED
          BY <1>0, <3>2, <4>1 DEF HostArchive, Without, Directory, Typed, Stored, history
    <3> QED
        BY <1>5, <3>1, <3>2 DEF HostStep
  <2>2. Sendable(m)' => Sendable(m)
      BY <2>1 DEF Sendable, Spent, Ahead, Has
  <2> QED
      BY <1>0, <2>1, <2>2, CreditedIf DEF Retriable
<1>6. ASSUME UNCHANGED vars PROVE Credited(m)'
    BY <1>6 DEF vars, directories, history, Credited, Sendable, Retriable, Spent, Ahead, Has
<1> QED
    BY <1>1, <1>2, <1>3, <1>4, <1>5, <1>6

\* The steps of the one runner.
LEMMA CreditedRunner ==
    ASSUME Typed, Answered, NEW m, Direct(m), Credited(m), NEW r \in Runner,
           \A q \in Runner : q = r,
           RunnerStep(r) \/ DryRun(r) \/ Repair(r) \/ Crash(r)
    PROVE  Credited(m)'
<1> DEFINE n == NameOf[m]
<1>0. /\ m \in Message /\ n \in Name /\ m # Nothing
      /\ outbox \in Directory /\ sent \in Directory /\ ready \in Directory
      /\ instr \in Directory /\ failed \in Directory
      /\ attempts \in [Message -> Nat] /\ excused \in [Message -> Nat] /\ crashes \in Nat
      /\ mark \in [Name -> {"retryable", "final", "unsent"}]
      /\ runner[r].answer # "none" => /\ runner[r].name \in Name
                                      /\ runner[r].message \in Message
                                      /\ NameOf[runner[r].message] = runner[r].name
      /\ runner[r].stage = "idle" => runner[r].answer = "none"
    BY NamesAssumption, NothingAssumption, BoundAssumption
       DEF Direct, Typed, Stored, Told, Good, AllFit, Fit, Doing, Answered
<1>1. /\ Spent(m) <=> Has(r, m, {"ok", "final", "archived"})
      /\ Spent(m)' <=> Has(r, m, {"ok", "final", "archived"})'
      /\ Sendable(m) <=> ~ Spent(m) /\ (Ahead(m) \/ Has(r, m, {"pending", "retryable"}))
      /\ Sendable(m)' <=> ~ Spent(m)' /\ (Ahead(m)' \/ Has(r, m, {"pending", "retryable"})')
    BY DEF Spent, Sendable
<1>2. ASSUME runner[r].answer \in {"none", "copied"}, runner'[r].answer \in {"none", "copied"},
             Ahead(m)' => Ahead(m), UNCHANGED <<failed, mark, attempts, excused, crashes>>
      PROVE  Credited(m)'
  <2>1. Sendable(m)' => Sendable(m)
      BY <1>1, <1>2 DEF Has
  <2> QED
      BY <1>0, <1>2, <2>1, CreditedIf DEF Retriable
<1>3. ASSUME BeginCycle(r) \/ PrepareAll(r) \/ DispatchAll(r) \/ DryRun(r) \/ EndExecute(r)
             \/ EndRetry(r) \/ Repair(r) \/ \E k \in Name : FileIsGone(r, k)
      PROVE  Credited(m)'
  <2>1. runner[r].answer = "none"
      BY <1>0, <1>3 DEF BeginCycle, PrepareAll, DispatchAll, DryRun, EndExecute, EndRetry, Repair,
         FileIsGone, LoopEnds, Looks
  <2>2. runner'[r].answer = "none"
      BY <1>3, RunnerValue DEF BeginCycle, PrepareAll, DispatchAll, DryRun, EndExecute, EndRetry, Repair,
         FileIsGone, Raises
  <2>3. Ahead(m)' => Ahead(m)
    <3>1. CASE PrepareAll(r)
        BY <1>0, <3>1 DEF PrepareAll, CopyOver, Ahead
    <3>2. CASE DispatchAll(r)
        BY <1>0, <3>2 DEF DispatchAll, CopyOver, Ahead
    <3>3. CASE Repair(r)
        BY <1>0, <3>3 DEF Repair, ReconcileAll, Without, Ahead
    <3>4. CASE UNCHANGED directories
        BY <3>4 DEF directories, Ahead
    <3> QED
        BY <1>3, <3>1, <3>2, <3>3, <3>4 DEF BeginCycle, DryRun, EndExecute, EndRetry, FileIsGone
  <2>4. UNCHANGED <<failed, mark, attempts, excused, crashes>>
      BY <1>3 DEF BeginCycle, PrepareAll, DispatchAll, DryRun, EndExecute, EndRetry, Repair, ReconcileAll,
         FileIsGone, directories, history
  <2> QED
      BY <1>2, <2>1, <2>2, <2>3, <2>4
<1>4. ASSUME NEW k \in Name, ConsumeCopy(r, k) PROVE Credited(m)'
  <2>1. runner[r].answer = "none" /\ runner'[r].answer = "copied"
      BY <1>4, RunnerValue DEF ConsumeCopy, Looks
  <2>2. Ahead(m)' => Ahead(m)
      BY <1>0, <1>4 DEF ConsumeCopy, Ahead, Directory
  <2> QED
      BY <1>2, <1>4, <2>1, <2>2 DEF ConsumeCopy, history
<1>5. ASSUME ConsumeUnlink(r) PROVE Credited(m)'
  <2>1. runner[r].answer = "copied" /\ runner'[r].answer = "none"
      BY <1>5, RunnerValue DEF ConsumeUnlink, GoesOn
  <2>2. Ahead(m)' => Ahead(m)
      BY <1>0, <1>5 DEF ConsumeUnlink, Without, Ahead
  <2> QED
      BY <1>2, <1>5, <2>1, <2>2 DEF ConsumeUnlink, history
<1>6. ASSUME NEW k \in Name, ExecuteTake(r, k) \/ RetrySkip(r, k) PROVE Credited(m)'
  <2>1. /\ runner[r].answer = "none" /\ UNCHANGED <<directories, history>>
        /\ \/ runner'[r].answer = "none"
           \/ runner'[r].message = instr[k] /\ runner'[r].answer \in {"pending", "skipped"}
      BY <1>6, RunnerValue DEF ExecuteTake, RetrySkip, GoesOn, Looks
  <2>2. instr[k] = m => k = n
      BY <1>0, StoredFacts DEF Typed
  <2>3. Sendable(m)' => Sendable(m)
      BY <1>1, <2>1, <2>2 DEF Has, Ahead, directories
  <2> QED
      BY <1>0, <2>1, <2>3, CreditedIf DEF Retriable, directories, history
<1>7. ASSUME NEW answer \in {"ok", "retryable", "final"}, Send(r, answer) PROVE Credited(m)'
  <2>1. /\ runner[r].answer = "pending" /\ runner'[r].answer = answer
        /\ runner'[r].message = runner[r].message
        /\ UNCHANGED <<outbox, sent, ready, instr, failed, mark, crashes>>
      BY <1>7, RunnerValue DEF Send, directories
  <2>2. CASE runner[r].message # m
    <3>1. attempts'[m] = attempts[m] /\ excused'[m] = excused[m]
        BY <1>0, <1>7, <2>2 DEF Send
    <3>2. Sendable(m)' => Sendable(m)
        BY <1>1, <2>1, <2>2 DEF Has, Ahead
    <3> QED
        BY <1>0, <2>1, <3>1, <3>2, CreditedIf DEF Retriable
  <2>3. CASE runner[r].message = m
    <3>1. Sendable(m) /\ (Retriable(m)' <=> Retriable(m))
        BY <1>1, <2>1, <2>3 DEF Has, Retriable
    <3>2. attempts'[m] = attempts[m] + 1
        BY <1>0, <1>7, <2>3 DEF Send
    <3>3. CASE answer = "retryable"
      <4>1. excused'[m] = excused[m] + 1
          BY <1>0, <1>7, <2>3, <3>3 DEF Send
      <4> QED
          BY <1>0, <2>1, <3>1, <3>2, <4>1 DEF Credited
    <3>4. CASE answer # "retryable"
      <4>1. excused' = excused /\ ~ Sendable(m)'
          BY <1>1, <1>7, <2>1, <2>3, <3>4 DEF Send, Has
      <4> QED
          BY <1>0, <2>1, <3>1, <3>2, <4>1 DEF Credited
    <3> QED
        BY <3>3, <3>4
  <2> QED
      BY <2>2, <2>3
<1>8. ASSUME ArchiveWrite(r) PROVE Credited(m)'
  <2>1. /\ runner[r].answer \in {"ok", "skipped", "retryable", "final"} /\ runner'[r].answer = "archived"
        /\ runner'[r].message = runner[r].message
        /\ UNCHANGED <<outbox, sent, ready, instr, attempts, excused, crashes>>
      BY <1>8, RunnerValue DEF ArchiveWrite, history
  <2>2. CASE runner[r].message # m
    <3>1. Sendable(m)' => Sendable(m)
        BY <1>1, <2>1, <2>2 DEF Has, Ahead
    <3>2. Retriable(m)' => Retriable(m)
        BY <1>0, <1>8, <2>2 DEF ArchiveWrite, Retriable, Directory
    <3> QED
        BY <1>0, <2>1, <3>1, <3>2, CreditedIf
  <2>3. CASE runner[r].message = m
    <3>1. ~ Sendable(m)'
        BY <1>1, <2>1, <2>3 DEF Has
    <3>2. CASE runner[r].answer = "retryable"
      <4>1. Sendable(m)
          BY <1>1, <2>3, <3>2 DEF Has
      <4> QED
          BY <1>0, <2>1, <3>1, <4>1 DEF Credited
    <3>3. CASE runner[r].answer # "retryable"
      <4>1. Retriable(m)' => Retriable(m)
          BY <1>0, <1>8, <2>1, <2>3, <3>3 DEF ArchiveWrite, Retriable, Succeeded, Directory
      <4> QED
          BY <1>0, <2>1, <3>1, <4>1, CreditedIf
    <3> QED
        BY <3>2, <3>3
  <2> QED
      BY <2>2, <2>3
<1>9. ASSUME ArchiveSweep(r) PROVE Credited(m)'
  <2>1. /\ runner[r].answer = "archived" /\ runner'[r].answer = "none"
        /\ UNCHANGED <<failed, mark, attempts, excused, crashes>>
      BY <1>9, RunnerValue DEF ArchiveSweep, GoesOn, history
  <2>2. CASE runner[r].message # m
    <3>1. Ahead(m)' => Ahead(m)
        BY <1>0, <1>9 DEF ArchiveSweep, Without, Ahead
    <3>2. Sendable(m)' => Sendable(m)
        BY <1>1, <2>1, <2>2, <3>1 DEF Has
    <3> QED
        BY <1>0, <2>1, <3>2, CreditedIf DEF Retriable
  <2>3. CASE runner[r].message = m
    <3>1. runner[r].name = n
        BY <1>0, <2>1, <2>3
    <3>2. \/ TaskOf[n] = n
          \/ outbox[n] = Nothing /\ sent[n] = Nothing /\ ready[n] = Nothing
        BY <1>0, NamesAssumption DEF Typed, Stored, Files
    <3>3. ~ Ahead(m)'
        BY <1>0, <1>9, <3>1, <3>2 DEF ArchiveSweep, Without, Ahead
    <3>4. ~ Sendable(m)'
        BY <1>1, <2>1, <3>3 DEF Has
    <3> QED
        BY <1>0, <2>1, <3>4, CreditedIf DEF Retriable
  <2> QED
      BY <2>2, <2>3
<1>10. ASSUME NEW k \in Name, RetryTake(r, k) PROVE Credited(m)'
  <2>1. /\ runner[r].answer = "none" /\ runner'[r].message = failed[k]
        /\ runner'[r].answer \in {"pending", "skipped"}
        /\ UNCHANGED <<outbox, sent, ready, attempts, excused, crashes>>
      BY <1>10, RunnerValue DEF RetryTake, Looks, history
  <2>2. failed[k] = m => k = n
      BY <1>0, StoredFacts DEF Typed
  <2>3. Retriable(m)' => Retriable(m)
      BY <1>0, <1>10 DEF RetryTake, RemoveFailed, Without, Retriable
  <2>4. CASE failed[k] # m
    <3>1. Ahead(m)' => Ahead(m)
        BY <1>0, <1>10, <2>1, <2>4 DEF RetryTake, Ahead, Directory
    <3>2. Sendable(m)' => Sendable(m)
        BY <1>1, <2>1, <2>4, <3>1 DEF Has
    <3> QED
        BY <1>0, <2>1, <2>3, <3>2, CreditedIf
  <2>5. CASE failed[k] = m
    <3>1. Retriable(m) /\ ~ Retriable(m)'
        BY <1>0, <1>10, <2>2, <2>5 DEF RetryTake, RemoveFailed, Without, Retriable
    <3> QED
        BY <1>0, <2>1, <3>1 DEF Credited
  <2> QED
      BY <2>4, <2>5
<1>11. ASSUME Crash(r) PROVE Credited(m)'
  <2>1. crashes' = crashes + 1 /\ UNCHANGED <<failed, mark, attempts, excused>>
      BY <1>11 DEF Crash, directories
  <2>2. Retriable(m)' <=> Retriable(m)
      BY <2>1 DEF Retriable
  <2> QED
      BY <1>0, <2>1, <2>2 DEF Credited
<1> QED
    BY <1>3, <1>4, <1>5, <1>6, <1>7, <1>8, <1>9, <1>10, <1>11 DEF RunnerStep

\* One runner at a time sends a notification to a channel of the command line
\* once, and once more for each retryable failure and each death of the runner:
\* the sweep after the archive leaves no copy in the directories before it.
THEOREM SendsAreExcused ==
    ASSUME \A q, r \in Runner : q = r
    PROVE  Spec => []SentOncePerExcuse
<1> DEFINE Credit == \A m \in Message : Direct(m) => Credited(m)
<1>1. Init => Credit
    BY NothingAssumption, NamesAssumption DEF Init, Empty, Idle, Credited, Retriable, Sendable, Ahead, Has
<1>2. Typed /\ Answered /\ Credit /\ [Next]_vars => Credit'
  <2> SUFFICES ASSUME Typed, Answered, [Next]_vars, NEW m \in Message, Direct(m), Credited(m)
               PROVE  Credited(m)'
      BY DEF Direct
  <2>1. ASSUME NEW r \in Runner, RunnerStep(r) \/ DryRun(r) \/ Repair(r) \/ Crash(r) PROVE Credited(m)'
      BY <2>1, CreditedRunner
  <2> QED
      BY <2>1, CreditedElsewhere DEF Next
<1>3. Typed /\ Credit => SentOncePerExcuse
    BY BoundAssumption DEF Credited, Direct, SentOncePerExcuse, Typed, Told
<1> HIDE DEF Credit
<1> QED
    BY <1>1, <1>2, <1>3, TypedHolds, AnsweredHolds, PTL DEF Spec

=============================================================================
