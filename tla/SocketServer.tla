---------------------------- MODULE SocketServer ----------------------------
(***************************************************************************)
(* The socket server of the authorization agent (floria-agent/src/         *)
(* socket.rs).  Each accepted connection has a thread that registers the   *)
(* connection as the writer and reads the app's messages; worker threads   *)
(* send a prompt through the writer and wait for the reply that the reader *)
(* thread routes to them by request id.                                    *)
(*                                                                         *)
(* A prompt is one call of prompt_and_wait(), a connection one accepted    *)
(* stream of a verified peer.                                              *)
(***************************************************************************)
EXTENDS Naturals, Functions

CONSTANTS
  Prompts,       \* calls of prompt_and_wait()
  Conns,         \* accepted streams
  Decisions      \* ClientDecision values

CONSTANTS NoResult, NoApp, Timeout
ASSUME ResultsAssumption ==
  /\ {NoResult, NoApp, Timeout} \cap Decisions = {}
  /\ NoResult # NoApp /\ NoResult # Timeout /\ NoApp # Timeout

VARIABLES
  conn,          \* SocketServer.conn: {} is None, {g} the writer of generation g
  connGen,       \* conn_gen
  nextReq,       \* next_req
  pending,       \* pending: request id -> the prompt that holds the receiver
  chan,          \* what has been sent on the channel of each prompt
  cpc, cgen,     \* a connection thread: its program counter and generation
  routed,        \* the sender a reader took out of pending, with its decision
  ppc, req, res, \* a prompt: its program counter, request id and result
  received       \* the decisions read off the connections

connVars == <<conn, connGen, cpc, cgen>>
promptVars == <<nextReq, ppc, req, res>>
socketVars == <<connVars, promptVars, pending, chan, routed, received>>

Init ==
  /\ conn = {}
  /\ connGen = 1
  /\ nextReq = 1
  /\ pending = [i \in {} |-> i]
  /\ chan = [q \in Prompts |-> {}]
  /\ cpc = [c \in Conns |-> "accept"]
  /\ cgen = [c \in Conns |-> 0]
  /\ routed = [c \in Conns |-> {}]
  /\ ppc = [q \in Prompts |-> "start"]
  /\ req = [q \in Prompts |-> 0]
  /\ res = [q \in Prompts |-> NoResult]
  /\ received = {}

---------------------------------------------------------------------------
(* The thread of a connection. *)

ConnGoTo(c, l) == cpc' = [cpc EXCEPT ![c] = l]

(* A peer that is not verified, a stream that cannot be prepared or a      *)
(* handshake without the right version ends the connection unseen.         *)
Handshake(c) ==
  /\ cpc[c] = "accept"
  /\ \E l \in {"number", "gone"} : ConnGoTo(c, l)
  /\ UNCHANGED <<conn, connGen, cgen, promptVars, pending, chan, routed, received>>

TakeGeneration(c) ==
  /\ cpc[c] = "number"
  /\ cgen' = [cgen EXCEPT ![c] = connGen]
  /\ connGen' = connGen + 1
  /\ ConnGoTo(c, "register")
  /\ UNCHANGED <<conn, promptVars, pending, chan, routed, received>>

Register(c) ==
  /\ cpc[c] = "register"
  /\ conn' = {cgen[c]}
  /\ ConnGoTo(c, "read")
  /\ UNCHANGED <<connGen, cgen, promptVars, pending, chan, routed, received>>

(* read_loop() reads a decision: the first one for a request id that still *)
(* waits takes its sender out of pending.                                  *)
ReadDecision(c, id, d) ==
  /\ cpc[c] = "read"
  /\ received' = received \cup {<<id, d>>}
  /\ IF id \in DOMAIN pending
       THEN /\ routed' = [routed EXCEPT ![c] = {<<pending[id], d>>}]
            /\ pending' = Restrict(pending, DOMAIN pending \ {id})
            /\ ConnGoTo(c, "deliver")
       ELSE UNCHANGED <<routed, pending, cpc>>
  /\ UNCHANGED <<conn, connGen, cgen, promptVars, chan>>

(* tx.send(): a receiver that has given up never looks at its channel.     *)
Deliver(c) ==
  /\ cpc[c] = "deliver"
  /\ chan' = [q \in Prompts |-> chan[q] \cup {m[2] : m \in {x \in routed[c] : x[1] = q}}]
  /\ routed' = [routed EXCEPT ![c] = {}]
  /\ ConnGoTo(c, "read")
  /\ UNCHANGED <<conn, connGen, cgen, promptVars, pending, received>>

(* The app says that the login session resigns: invalidate_session() runs  *)
(* on the reader thread before the next message.                           *)
ReadSessionInactive(c) ==
  /\ cpc[c] = "read"
  /\ ConnGoTo(c, "inactive")
  /\ UNCHANGED <<conn, connGen, cgen, promptVars, pending, chan, routed, received>>

(* End of file or a message that cannot be read. *)
ReadEnds(c) ==
  /\ cpc[c] = "read"
  /\ ConnGoTo(c, "cleanup")
  /\ UNCHANGED <<conn, connGen, cgen, promptVars, pending, chan, routed, received>>

(* Mutant: whatever writer is registered goes when a connection ends. *)
CleanupAny(c) ==
  /\ cpc[c] = "cleanup"
  /\ conn' = {}
  /\ ConnGoTo(c, "disconnected")
  /\ UNCHANGED <<connGen, cgen, promptVars, pending, chan, routed, received>>

(* The writer is cleared only if it is still this connection's. *)
Cleanup(c) ==
  /\ cpc[c] = "cleanup"
  /\ conn' = conn \ {cgen[c]}
  /\ ConnGoTo(c, IF conn = {cgen[c]} THEN "disconnected" ELSE "gone")
  /\ UNCHANGED <<connGen, cgen, promptVars, pending, chan, routed, received>>

(* invalidate_session() calls the hook and returns to the caller. *)
Invalidate(c) ==
  /\ cpc[c] \in {"inactive", "disconnected"}
  /\ ConnGoTo(c, IF cpc[c] = "inactive" THEN "read" ELSE "gone")
  /\ UNCHANGED <<conn, connGen, cgen, promptVars, pending, chan, routed, received>>

---------------------------------------------------------------------------
(* prompt_and_wait() on a worker thread. *)

PromptGoTo(q, l) == ppc' = [ppc EXCEPT ![q] = l]
Return(q, r) == PromptGoTo(q, "done") /\ res' = [res EXCEPT ![q] = r]

TakeRequestId(q) ==
  /\ ppc[q] = "start"
  /\ req' = [req EXCEPT ![q] = nextReq]
  /\ nextReq' = nextReq + 1
  /\ PromptGoTo(q, "insert")
  /\ UNCHANGED <<connVars, res, pending, chan, routed, received>>

InsertPending(q) ==
  /\ ppc[q] = "insert"
  /\ pending' = [i \in DOMAIN pending \cup {req[q]} |-> IF i = req[q] THEN q ELSE pending[i]]
  /\ PromptGoTo(q, "send")
  /\ UNCHANGED <<connVars, nextReq, req, res, chan, routed, received>>

(* send(): without a writer it fails; a write that fails or times out      *)
(* drops the writer.  A write may also succeed into a socket that nobody   *)
(* reads any more.                                                         *)
SendPrompt(q) ==
  /\ ppc[q] = "send"
  /\ \/ conn = {} /\ PromptGoTo(q, "unsent") /\ UNCHANGED conn
     \/ conn # {} /\ PromptGoTo(q, "unsent") /\ conn' = {}
     \/ conn # {} /\ PromptGoTo(q, "wait") /\ UNCHANGED conn
  /\ UNCHANGED <<connGen, cpc, cgen, nextReq, req, res, pending, chan, routed, received>>

GiveUpUnsent(q) ==
  /\ ppc[q] = "unsent"
  /\ pending' = Restrict(pending, DOMAIN pending \ {req[q]})
  /\ Return(q, NoApp)
  /\ UNCHANGED <<connVars, nextReq, req, chan, routed, received>>

(* recv_timeout() returns a decision, or nothing when the time is up. *)
ReceiveDecision(q) ==
  /\ ppc[q] = "wait"
  /\ \E d \in chan[q] : Return(q, d)
  /\ UNCHANGED <<connVars, nextReq, req, pending, chan, routed, received>>

TimeOut(q) ==
  /\ ppc[q] = "wait"
  /\ chan[q] = {}
  /\ PromptGoTo(q, "expired")
  /\ UNCHANGED <<connVars, nextReq, req, res, pending, chan, routed, received>>

GiveUpExpired(q) ==
  /\ ppc[q] = "expired"
  /\ pending' = Restrict(pending, DOMAIN pending \ {req[q]})
  /\ Return(q, Timeout)
  /\ UNCHANGED <<connVars, nextReq, req, chan, routed, received>>

(* send_event() of an access event: only a failed write has an effect. *)
SendEventFails ==
  /\ conn # {}
  /\ conn' = {}
  /\ UNCHANGED <<connGen, cpc, cgen, promptVars, pending, chan, routed, received>>

---------------------------------------------------------------------------
(* The steps of a connection thread outside the session hook. *)
ReaderStep(c) ==
  \/ Handshake(c) \/ TakeGeneration(c) \/ Register(c)
  \/ \E id \in 1 .. nextReq, d \in Decisions : ReadDecision(c, id, d)
  \/ Deliver(c) \/ ReadSessionInactive(c) \/ ReadEnds(c) \/ Cleanup(c)

ConnStep(c) == ReaderStep(c) \/ Invalidate(c)

PromptStep(q) ==
  \/ TakeRequestId(q) \/ InsertPending(q) \/ SendPrompt(q) \/ GiveUpUnsent(q)
  \/ ReceiveDecision(q) \/ TimeOut(q) \/ GiveUpExpired(q)

Next ==
  \/ \E c \in Conns : ConnStep(c)
  \/ \E q \in Prompts : PromptStep(q)
  \/ SendEventFails

Spec == Init /\ [][Next]_socketVars

---------------------------------------------------------------------------
(* Properties. *)

ConnLabels == {"accept", "number", "register", "read", "deliver", "inactive", "cleanup",
               "disconnected", "gone"}
PromptLabels == {"start", "insert", "send", "unsent", "wait", "expired", "done"}

(* Every variable keeps its type; there is one writer at most. *)
TypeOK ==
  /\ conn \in SUBSET Nat
  /\ \A g, h \in conn : g = h
  /\ connGen \in Nat
  /\ nextReq \in Nat
  /\ DOMAIN pending \in SUBSET Nat
  /\ pending \in [DOMAIN pending -> Prompts]
  /\ chan \in [Prompts -> SUBSET Decisions]
  /\ cpc \in [Conns -> ConnLabels]
  /\ cgen \in [Conns -> Nat]
  /\ routed \in [Conns -> SUBSET (Prompts \X Decisions)]
  /\ ppc \in [Prompts -> PromptLabels]
  /\ req \in [Prompts -> Nat]
  /\ res \in [Prompts -> Decisions \cup {NoResult, NoApp, Timeout}]
  /\ received \in SUBSET (Nat \X Decisions)

(* A prompt that returns a decision returns one the app sent for its own   *)
(* request id; no other prompt has that id, and its channel carries one    *)
(* decision at most, because the reader that takes a sender out of pending *)
(* has it alone.                                                           *)
AnswersReachTheirPrompt ==
  \A q \in Prompts :
    /\ \A d, e \in chan[q] : d = e
    /\ res[q] \in Decisions => <<req[q], res[q]>> \in received
    /\ \A p \in Prompts : req[p] = req[q] /\ req[q] # 0 => p = q

(* "pending must not leak": an entry of pending belongs to a prompt that   *)
(* has not returned, and a prompt that waits is in pending, or its sender  *)
(* is on its way, or its answer has arrived.                               *)
PendingMatchesWaiting ==
  /\ \A i \in DOMAIN pending :
       /\ req[pending[i]] = i
       /\ ppc[pending[i]] \in {"send", "unsent", "wait", "expired"}
  /\ \A q \in Prompts :
       ppc[q] = "wait" =>
         \/ req[q] \in DOMAIN pending /\ pending[req[q]] = q
         \/ \E c \in Conns, d \in Decisions : <<q, d>> \in routed[c]
         \/ chan[q] # {}

(* Prompts are never written to a connection whose thread has gone: the    *)
(* writer belongs to a thread that will clear it.                          *)
WriterHasReader ==
  \A g \in conn :
    \E c \in Conns : cgen[c] = g /\ cpc[c] \in {"read", "deliver", "inactive", "cleanup"}

(* "a dying connection's cleanup never clears a newer one that already     *)
(* replaced it": the end of a connection takes away the writer only where  *)
(* the connection is the one prompts are sent to.                          *)
CleanupKeepsNewer ==
  [][\A c \in Conns, g \in conn :
       cpc[c] = "cleanup" /\ cpc'[c] # "cleanup" /\ cgen[c] # g => conn' = conn]_socketVars

(* Prompts, replies and connections that come and go are never taken for   *)
(* one another: a reply reaches its own prompt, the table of prompts does  *)
(* not leak, and the writer is that of a connection that still reads.      *)
PromptsAreMatched ==
  /\ [](TypeOK /\ AnswersReachTheirPrompt)
  /\ [](PendingMatchesWaiting /\ WriterHasReader)
  /\ CleanupKeepsNewer
=============================================================================
