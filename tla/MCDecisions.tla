---------------------------- MODULE MCDecisions ----------------------------
(***************************************************************************)
(* Instances of SocketAgent, PromptPresenter and DaemonState for TLC.  The *)
(* three are checked side by side: a behaviour belongs to one of them, its *)
(* subject, and leaves the variables of the others as they were.           *)
(***************************************************************************)
EXTENDS SocketAgent, PromptPresenter, DaemonState, TLC

CONSTANTS r1, r2, a1, o1, p1, p2, m1, m2, m3, m4, k1

VARIABLE subject

decisionVars == <<vars, presenterVars, daemonVars, subject>>

(* All requests ask for one object: they are interchangeable. *)
OneObject == [r \in Requests |-> o1]

(* The configured rules and p1 ask, p2 wants a fingerprint: grants and     *)
(* flights of one object then have two keys.                               *)
MCRulesOf == [p \in Policies |-> [o \in Objects |-> IF p = p1 THEN "prompt" ELSE "touchid"]]
MCBaseRules == [o \in Objects |-> "prompt"]

DecisionsInit ==
  /\ subject \in {"agent", "presenter", "state"}
  /\ Init /\ PresenterInit /\ DaemonInit
  /\ subject # "state" => credential = "none"

DecisionsNext ==
  \/ subject = "agent" /\ Next /\ UNCHANGED <<presenterVars, daemonVars, subject>>
  \/ subject = "presenter" /\ PresenterNext /\ UNCHANGED <<vars, daemonVars, subject>>
  \/ subject = "state" /\ DaemonNext /\ UNCHANGED <<vars, presenterVars, subject>>

(* Some worker thread of the agent runs while one can, some timer of the   *)
(* presenter fires when one is due, and a save of the state that was begun *)
(* goes on.  The components ask it of every thread and every timer; each   *)
(* of these has a bounded number of steps, so that this is enough.         *)
DecisionsFairness ==
  /\ WF_vars(subject = "agent" /\ \E r \in Requests : RequestStep(r))
  /\ WF_presenterVars(subject = "presenter" /\ \E m \in Msgs : TimerStep(m))
  /\ WF_daemonVars(subject = "state" /\ PersistStep)

DecisionsSpec == DecisionsInit /\ [][DecisionsNext]_decisionVars /\ DecisionsFairness

(* Every call of the agent ends with a decision. *)
EveryAgentRequestDecided == subject = "agent" => EveryRequestDecided

(* Once calls stop failing, a cache that is memory-only becomes durable    *)
(* with its next save.                                                     *)
PersistenceRecovers ==
  (running /\ job["grants"] # NoState /\ faults = MaxStateFaults) ~> ~degraded

(* Nothing stays undecided or unsaved for ever: calls of the agent, the    *)
(* prompts of the app, and the grants of the daemon.                       *)
DecisionsProceed == EveryAgentRequestDecided /\ EveryPromptDecided /\ PersistenceRecovers
=============================================================================
