------------------------- MODULE MCDeliveryPipeline -------------------------
(***************************************************************************)
(* Small instances of DeliveryPipeline: a task with two notifications on a *)
(* channel of the command line, a task on feishu, and a retry the plugin   *)
(* enqueued for the feishu task.                                           *)
(***************************************************************************)
EXTENDS DeliveryPipeline, TLC

CONSTANTS direct, feishu, retry, d1, d2, f1, r1, runner1, runner2

MCTaskName  == {direct, feishu}
MCName      == {direct, feishu, retry}
MCTaskOf    == direct :> direct @@ feishu :> feishu @@ retry :> feishu
MCChannelOf == direct :> "direct" @@ feishu :> "feishu" @@ retry :> "feishu"
MCMessage   == {d1, d2, r1}
MCNameOf    == d1 :> direct @@ d2 :> direct @@ r1 :> retry
MCRunner    == {runner1}

\* A notification of a feishu task.
MCFeishuMessage == {f1}
MCFeishuNameOf  == f1 :> feishu

\* Two runners, on the plain channel.
MCDirectName      == {direct}
MCDirectTaskOf    == direct :> direct
MCDirectChannelOf == direct :> "direct"
MCDirectMessage   == {d1, d2}
MCDirectNameOf    == d1 :> direct @@ d2 :> direct
MCTwoRunners      == {runner1, runner2}

=============================================================================
