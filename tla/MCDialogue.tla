------------------------------ MODULE MCDialogue ------------------------------
(***************************************************************************)
(* Instance of Dialogue for TLC: answers that are complete, that leave      *)
(* something out, that contradict themselves, and that end the dialogue.    *)
(***************************************************************************)
EXTENDS Dialogue, TLC

CONSTANTS l1, l2, t1, t2

FullRequest ==
  [fields |-> RequiredFields, scope |-> "NONE", lines |-> {l1}, types |-> {}, kpi |-> TRUE,
   set |-> FALSE, priority |-> FALSE, config |-> FALSE, envs |-> 0, mode |-> FALSE]

Ready == [state |-> "READY_FOR_REVIEW", turn |-> "TASK_REQUEST", request |-> FullRequest, missing |-> {}]

MCAnswers ==
  {Ready,
   [Ready EXCEPT !.turn = None, !.request.kpi = FALSE],
   [Ready EXCEPT !.request.lines = {}, !.request.config = TRUE, !.request.envs = 2],
   [Ready EXCEPT !.state = "UNKNOWN", !.request.fields = {"intent_text"},
                 !.missing = {"operator_id", "reason"}],
   [Ready EXCEPT !.turn = "APPROVAL_DECISION"],
   [Ready EXCEPT !.state = "CANCELLED", !.turn = None]}

PriorityQuestion ==
  [origin |-> 1, question |-> "PRIORITY", scope |-> "NONE", lines |-> {}, mentioned |-> {l2},
   all |-> FALSE]

MCPuts ==
  {[IdleSession EXCEPT !.state = "WAITING_FOR_CLARIFICATION", !.pending = PriorityQuestion],
   [IdleSession EXCEPT !.state = "WAITING_FOR_CLARIFICATION",
                       !.pending = [PriorityQuestion EXCEPT !.scope = "ALL_LINES"]],
   [IdleSession EXCEPT !.state = "WAITING_FOR_M12_TEST_APPROVAL"]}

MCSummaries == {[next |-> "ASK_DEPLOY_APPROVAL"], [next |-> "WAIT"], [next |-> "POST_EVIDENCE_DECISION"]}

RobotReply == [lines |-> {}, all |-> FALSE, robot |-> TRUE, production |-> FALSE, plain |-> TRUE,
          model |-> None, changes |-> {}]
MCReplies ==
  {RobotReply, [RobotReply EXCEPT !.lines = {l1}],
   [RobotReply EXCEPT !.production = TRUE],
   [RobotReply EXCEPT !.robot = FALSE, !.model = "ROBOT_REQUIRED_FIRST"],
   [RobotReply EXCEPT !.robot = FALSE, !.changes = {"SETTINGS"}],
   [RobotReply EXCEPT !.robot = FALSE, !.changes = {"PICKING"}]}

Symmetric == Permutations({t1, t2})
===============================================================================
