--------------------------- MODULE PromptSession ---------------------------
(***************************************************************************)
(* The socket server of the daemon and the prompt presenter of the app,    *)
(* joined by the app's client (AgentClient.swift): a prompt written to a   *)
(* connection is read by the app, and a decision is written to whatever    *)
(* connection the client has at that time.  The daemon may restart, which  *)
(* the app outlives.                                                       *)
(***************************************************************************)
EXTENDS Naturals, Sequences

CONSTANTS
  Prompts, Conns, TouchId, Scopes,
  NoResult, NoApp, Timeout,
  MaxRestarts    \* bound on the restarts of the daemon

VARIABLES
  conn, connGen, nextReq, pending, chan, cpc, cgen, routed, ppc, req, res, received,
  reqId, queue, active, settling, auth, late, sent, chosen, passed,
  wire,          \* prompts written to a connection and not shown by the app
  out,           \* how many of the decisions sent have left the client
  restarts

Decisions == [allow : BOOLEAN, scope : Scopes \cup {"none"}]
ASSUME SessionAssumption == {NoResult, NoApp, Timeout} \cap Decisions = {}

Server == INSTANCE SocketServer
App == INSTANCE PromptPresenter WITH Msgs <- Prompts

serverVars == <<conn, connGen, nextReq, pending, chan, cpc, cgen, routed, ppc, req, res, received>>
appVars == <<reqId, queue, active, settling, auth, late, sent, chosen, passed>>
linkVars == <<wire, out, restarts>>
sessionVars == <<serverVars, appVars, linkVars>>

Init == Server!Init /\ App!PresenterInit /\ wire = {} /\ out = 0 /\ restarts = 0

---------------------------------------------------------------------------
(* prompt_and_wait(): what send() wrote is on the wire. *)
Prompting(q) ==
  /\ Server!PromptStep(q)
  /\ wire' = IF ppc[q] = "send" /\ ppc'[q] = "wait" THEN wire \cup {q} ELSE wire
  /\ UNCHANGED <<appVars, out, restarts>>

(* Connection threads, except that decisions come from the client and that *)
(* session_inactive, which touches no prompt, is left out.                 *)
Connecting(c) ==
  /\ \/ Server!Handshake(c) \/ Server!TakeGeneration(c) \/ Server!Register(c)
     \/ Server!Deliver(c) \/ Server!ReadEnds(c) \/ Server!Cleanup(c) \/ Server!Invalidate(c)
  /\ UNCHANGED <<appVars, linkVars>>

(* dispatch() of the client hands a prompt to the main queue, which may    *)
(* show it after the connection has ended.                                 *)
AppReads(q) ==
  /\ q \in wire
  /\ wire' = wire \ {q}
  /\ App!Show(q, req[q])
  /\ UNCHANGED <<serverVars, out, restarts>>

(* Mutant: a decision carries the id of the prompt that is shown now. *)
AppSendsActive ==
  /\ out < Len(sent)
  /\ LET v == sent[out + 1]
         m == IF active = {} THEN v.msg ELSE CHOOSE x \in active : TRUE
     IN  \/ \E c \in Conns :
              Server!ReadDecision(c, reqId[m], [allow |-> v.allow, scope |-> v.scope])
         \/ UNCHANGED serverVars
  /\ out' = out + 1
  /\ UNCHANGED <<appVars, wire, restarts>>

(* The client's send(): without a connection the decision is dropped. *)
AppSends ==
  /\ out < Len(sent)
  /\ LET v == sent[out + 1]
     IN  \/ \E c \in Conns :
              Server!ReadDecision(c, reqId[v.msg], [allow |-> v.allow, scope |-> v.scope])
         \/ UNCHANGED serverVars
  /\ out' = out + 1
  /\ UNCHANGED <<appVars, wire, restarts>>

AppActs ==
  /\ App!UserStep \/ App!CallbackStep \/ \E q \in Prompts : App!TimerStep(q)
  /\ UNCHANGED <<serverVars, linkVars>>

(* The daemon ends, with every call and connection in it, and starts anew. *)
Restart ==
  /\ restarts < MaxRestarts
  /\ restarts' = restarts + 1
  /\ conn' = {} /\ connGen' = 1 /\ nextReq' = 1
  /\ pending' = [i \in {} |-> i]
  /\ chan' = [q \in Prompts |-> {}]
  /\ cpc' = [c \in Conns |-> IF cpc[c] = "accept" THEN "accept" ELSE "gone"]
  /\ routed' = [c \in Conns |-> {}]
  /\ ppc' = [q \in Prompts |-> IF ppc[q] = "start" THEN "start" ELSE "done"]
  /\ UNCHANGED <<cgen, req, res, received, appVars, wire, out>>

Next ==
  \/ \E q \in Prompts : Prompting(q) \/ AppReads(q)
  \/ \E c \in Conns : Connecting(c)
  \/ AppSends
  \/ AppActs
  \/ Restart

Spec == Init /\ [][Next]_sessionVars

---------------------------------------------------------------------------
(* Properties. *)

(* A call of prompt_and_wait() that returns a decision returns one that    *)
(* the app made for a prompt with its request id, whatever restarts in     *)
(* between, and within one run of the daemon the one it made for that very *)
(* prompt, over whatever connections prompt and answer travelled.          *)
AnswersFindTheirCall ==
  \A q \in Prompts :
    res[q] \in Decisions =>
      \E i \in DOMAIN sent :
        /\ reqId[sent[i].msg] = req[q]
        /\ res[q] = [allow |-> sent[i].allow, scope |-> sent[i].scope]
        /\ restarts = 0 => sent[i].msg = q
=============================================================================
