--------------------------- MODULE MCAgentSession ---------------------------
(* Instances of AgentSession for TLC. *)
EXTENDS AgentSession, TLC

CONSTANTS r1, r2, c1, a1, o1, p1

HooksOnly == Hooks
OneObject == [r \in Requests |-> o1]
MCRulesOf == [p \in Policies |-> [o \in Objects |-> "touchid"]]
MCBaseRules == [o \in Objects |-> "prompt"]
=============================================================================
