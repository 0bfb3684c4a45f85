----------------------------- MODULE Governance -----------------------------
(***************************************************************************)
(* The pure part of supervision: the policy on capabilities, the verdict   *)
(* a supervision status stands for, and the capability each checkpoint     *)
(* asks for.  Every table falls back to its most restrictive entry.        *)
(***************************************************************************)
EXTENDS Domain

CONSTANTS NoVerdict       \* applied_verdict IS NULL

(***************************************************************************)
(* Slice0Policy.decide.                                                    *)
(***************************************************************************)
AllowedCapabilities ==
  {"read_repo", "create_worktree", "edit_task_worktree", "commit_task_branch",
   "trusted_verification", "push_task_branch", "open_pr"}
HumanCapabilities == {"merge", "deploy_production", "production_migration"}
\* with one the table does not list
Capabilities == AllowedCapabilities \cup HumanCapabilities \cup {"force_push"}

Decide(capability) ==
  CASE capability \in AllowedCapabilities -> "ALLOW"
    [] capability \in HumanCapabilities   -> "HUMAN"
    [] OTHER                              -> "DENY"

(***************************************************************************)
(* SupervisionVerdict and verdict_for_status.                              *)
(***************************************************************************)
TerminalVerdicts == {"CONTINUE", "HUMAN_RESUME", "HUMAN_BLOCK"}
Verdict == TerminalVerdicts \cup {"HUMAN_REQUIRED"}    \* those that are claimed

\* mutant: the table keeps HUMAN_DECIDED for a status of that name
VerdictForStatusUnmapped(status, resumeAllowed) ==
  IF status = "CONTINUE" THEN "CONTINUE"
  ELSE IF status = "HUMAN_REJECTED" THEN "HUMAN_BLOCK"
  ELSE IF status = "PENDING" THEN "PENDING" ELSE status

VerdictForStatus(status, resumeAllowed) ==
  CASE status \in {"PENDING", "PUBLISHED", "DECIDED"} -> "PENDING"
    [] status = "CONTINUE"                            -> "CONTINUE"
    [] status = "HUMAN_REJECTED"                      -> "HUMAN_BLOCK"
    [] status = "HUMAN_DECIDED" ->
         IF resumeAllowed THEN "HUMAN_RESUME" ELSE "HUMAN_BLOCK"
    [] OTHER                                          -> "HUMAN_REQUIRED"

(***************************************************************************)
(* Answers; a human's ANSWERED is treated as APPROVED.                     *)
(***************************************************************************)
HumanKinds == {"APPROVED", "REJECTED"}
SupervisorKinds == {"CONTINUE_AUTONOMOUSLY", "REQUEST_HUMAN_ACTION"}

(***************************************************************************)
(* Checkpoints.  synthetic_denied_action is opened through the port by a   *)
(* caller, not by the manager (tests/test_supervision_public.py:49).       *)
(***************************************************************************)
Capability ==
  [provider_unavailable    |-> "edit_task_worktree",
   gates_blocked           |-> "edit_task_worktree",
   candidate_ready         |-> "merge",
   synthetic_denied_action |-> "force_push"]
Checkpoint == DOMAIN Capability

\* the capability policy leaves to a supervisor, or to a human
SupervisorMayGrant(checkpoint) == Decide(Capability[checkpoint]) = "ALLOW"
HumanMayGrant(checkpoint) == Decide(Capability[checkpoint]) # "DENY"
=============================================================================
