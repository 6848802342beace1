---------------------------- MODULE AgentSession ----------------------------
(***************************************************************************)
(* The agent with its socket server: perform_prompt() runs                 *)
(* prompt_and_wait() of the server, and the reader threads of the server   *)
(* run the agent's session hook, revoke_lock_bound_grants().               *)
(*                                                                         *)
(* A request is the prompt it leads.  A connection runs the hook once for  *)
(* a session_inactive message (a bound) and once when it disconnects; each *)
(* of the two runs is an admin of SocketAgent.                             *)
(***************************************************************************)
EXTENDS SocketAgent

CONSTANTS Conns, NoResult, NoApp, Timeout

Hooks == Conns \X {"inactive", "disconnected"}
ASSUME HooksAssumption == Hooks \subseteq Admins
ASSUME AppAssumption ==
  /\ {NoResult, NoApp, Timeout} \cap Answers = {}
  /\ NoResult # NoApp /\ NoResult # Timeout /\ NoApp # Timeout

VARIABLES conn, connGen, nextReq, pending, chan, cpc, cgen, routed, ppc, req, res, received

Server == INSTANCE SocketServer WITH Prompts <- Requests, Decisions <- Answers

serverVars == <<conn, connGen, nextReq, pending, chan, cpc, cgen, routed, ppc, req, res, received>>
sessionVars == <<vars, serverVars>>

SessionInit == Init /\ Server!Init

(* A worker thread inside prompt_and_wait(). *)
Prompting(r) == pc[r] = "prompt" /\ Server!PromptStep(r) /\ UNCHANGED vars

(* Mutant: without an app the access goes through. *)
AnswerOpen(r) ==
  IF res[r] \in Answers THEN res[r] ELSE [kind |-> "answer", allow |-> TRUE, scope |-> "once"]

(* What perform_prompt() makes of the result: no app and a timeout are     *)
(* failures.                                                               *)
Answer(r) == IF res[r] \in Answers THEN res[r] ELSE Failure

(* Mutant: a prompt without an answer does not return. *)
PromptedAnswer(r) == res[r] \in Answers /\ PromptReturns(r, Answer(r)) /\ UNCHANGED serverVars

Prompted(r) == ppc[r] = "done" /\ PromptReturns(r, Answer(r)) /\ UNCHANGED serverVars

(* A worker thread outside prompt_and_wait(). *)
Authorizing(r) == pc[r] # "prompt" /\ RequestStep(r) /\ UNCHANGED serverVars

(* The hook of a connection starts, goes on and returns to the reader. *)
HookStep(c) ==
  /\ cpc[c] \in {"inactive", "disconnected"}
  /\ ClearUntilLock(<<c, cpc[c]>>) \/ BumpAfter(<<c, cpc[c]>>)
  /\ UNCHANGED serverVars

HookEnds(c) ==
  /\ cpc[c] \in {"inactive", "disconnected"}
  /\ apc[<<c, cpc[c]>>] = "done"
  /\ Server!Invalidate(c)
  /\ UNCHANGED vars

(* The app decides a prompt that it was sent, once (PromptPresenter). *)
AppDecides(id) ==
  /\ \A m \in received : m[1] # id
  /\ \E r \in Requests : req[r] = id /\ ppc[r] \in {"wait", "expired", "done"}

Reading(c) ==
  /\ Server!ReaderStep(c)
  /\ \A m \in received' \ received : AppDecides(m[1])
  /\ cpc'[c] = "inactive" => apc[<<c, "inactive">>] = "idle"
  /\ UNCHANGED vars

(* authorize() ends by streaming the decision to the app. *)
EventFails == (\E r \in Requests : pc[r] = "done") /\ Server!SendEventFails /\ UNCHANGED vars

WorkerStep(r) == Prompting(r) \/ Prompted(r) \/ Authorizing(r)

SessionNext ==
  \/ \E r \in Requests : WorkerStep(r)
  \/ \E c \in Conns : Reading(c) \/ HookStep(c) \/ HookEnds(c)
  \/ EventFails
  \/ \E a \in Admins \ Hooks : AdminStep(a) /\ UNCHANGED serverVars
  \/ Environment /\ UNCHANGED serverVars

SessionSpec == SessionInit /\ [][SessionNext]_sessionVars

(* Only the worker threads are fair: nothing is assumed of the app or of   *)
(* the threads that read from it.                                          *)
FairSession == SessionSpec /\ \A r \in Requests : WF_sessionVars(WorkerStep(r))

---------------------------------------------------------------------------
(* Properties. *)

(* The answer that allowed an interactive access came over a connection,   *)
(* for the request id of a prompt for that access's key.                   *)
AllowsCameFromTheApp ==
  \A r \in Requests :
    decision[r] = "allow" /\ enf[r] # "allow" =>
      \E l \in Requests, d \in Answers :
        d.allow /\ Key(l) = Key(r) /\ <<req[l], d>> \in received

(* The agent with its socket server behaves as the agent alone does, where *)
(* a prompt is a single step that always ends.                             *)
ImplementsAgent == FairSpec
=============================================================================
