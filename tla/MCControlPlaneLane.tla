------------------------- MODULE MCControlPlaneLane -------------------------
(***************************************************************************)
(* Small instances of ControlPlaneLane: one task that plans and a command  *)
(* of one chat, or a second task with them.                                *)
(***************************************************************************)
EXTENDS ControlPlaneLane

CONSTANTS chat, t1, t2, command

MCChat      == {chat}
MCTask      == {t1, t2}
MCOneTask   == {t1}
MCCommand   == {command}
MCPlanner   == {t1}
MCTwoChatOf == [x \in {t1, t2, command} |-> chat]
MCOneChatOf == [x \in {t1, command} |-> chat]

=============================================================================
