------------------------- MODULE SocketServerProofs -------------------------
(* Proofs about SocketServer, for every number of prompts and connections. *)
EXTENDS SocketServer, TLAPS

(* The leaves are first-order steps; those with arithmetic or records cite SMT. *)
USE ZenonT(60)

(* Request ids are taken once each. *)
IdsInv ==
  /\ nextReq > 0
  /\ \A q \in Prompts : req[q] < nextReq /\ (req[q] = 0 => ppc[q] = "start")
  /\ \A q \in Prompts : ppc[q] = "start" => req[q] = 0
  /\ \A p, q \in Prompts : req[p] = req[q] /\ req[q] # 0 => p = q

(* The sender of a prompt is in pending, with one reader, or used. *)
PendingInv ==
  \A i \in DOMAIN pending :
    /\ i > 0
    /\ req[pending[i]] = i
    /\ ppc[pending[i]] \in {"send", "unsent", "wait", "expired"}

RoutedInv ==
  /\ \A c \in Conns : routed[c] # {} => cpc[c] = "deliver"
  /\ \A c \in Conns : \A m \in routed[c] :
       /\ ppc[m[1]] \notin {"start", "insert"}
       /\ req[m[1]] \notin DOMAIN pending
       /\ chan[m[1]] = {}
       /\ <<req[m[1]], m[2]>> \in received
  /\ \A c, e \in Conns : \A m \in routed[c], n \in routed[e] : m[1] = n[1] => c = e /\ m = n

ChanInv ==
  \A q \in Prompts :
    /\ \A d, e \in chan[q] : d = e
    /\ \A d \in chan[q] : <<req[q], d>> \in received
    /\ chan[q] # {} => ppc[q] \notin {"start", "insert"} /\ req[q] \notin DOMAIN pending

WaitInv ==
  \A q \in Prompts :
    ppc[q] \in {"send", "wait"} =>
      \/ req[q] \in DOMAIN pending /\ pending[req[q]] = q
      \/ \E c \in Conns, d \in Decisions : <<q, d>> \in routed[c]
      \/ chan[q] # {}

ResultInv ==
  \A q \in Prompts :
    /\ res[q] # NoResult => ppc[q] = "done"
    /\ res[q] \in Decisions => <<req[q], res[q]>> \in received

ReplyInv == IdsInv /\ PendingInv /\ RoutedInv /\ ChanInv /\ WaitInv /\ ResultInv

(* Generations are taken once each, and the writer is one of a thread that *)
(* has yet to clean up.                                                    *)
Numbered == {"register", "read", "deliver", "inactive", "cleanup"}

ConnInv ==
  /\ connGen > 0
  /\ \A c \in Conns : cgen[c] < connGen
  /\ \A c \in Conns : cpc[c] \in Numbered => cgen[c] > 0
  /\ \A c, e \in Conns : cgen[c] = cgen[e] /\ cgen[c] # 0 => c = e
  /\ WriterHasReader
  /\ \A g \in conn : g > 0

ServerInv == TypeOK /\ ReplyInv /\ ConnInv

---------------------------------------------------------------------------
USE DEF connVars, promptVars

LEMMA InitServer == Init => ServerInv
  BY ResultsAssumption, SMTT(30)
  DEF Init, ServerInv, TypeOK, ReplyInv, IdsInv, PendingInv, RoutedInv, ChanInv, WaitInv, ResultInv,
      ConnInv, WriterHasReader, Numbered, ConnLabels, PromptLabels

LEMMA NextType ==
  ASSUME TypeOK, Next
  PROVE  TypeOK'
<1> USE DEF TypeOK, ConnGoTo, PromptGoTo, Return, ConnLabels, PromptLabels
<1>1. ASSUME NEW c \in Conns, ConnStep(c) PROVE TypeOK'
  <2>1. CASE Handshake(c) \/ TakeGeneration(c) \/ Register(c)
    BY <2>1, SMTT(30) DEF Handshake, TakeGeneration, Register
  <2>2. ASSUME NEW id \in 1 .. nextReq, NEW d \in Decisions, ReadDecision(c, id, d) PROVE TypeOK'
    <3>1. received' \in SUBSET (Nat \X Decisions)
      BY <2>2, SMTT(30) DEF ReadDecision
    <3>2. CASE id \in DOMAIN pending
      BY <2>2, <3>1, <3>2, SMTT(30) DEF ReadDecision, Restrict
    <3>3. CASE id \notin DOMAIN pending
      BY <2>2, <3>1, <3>3 DEF ReadDecision
    <3> QED
      BY <3>2, <3>3
  <2>3. CASE Deliver(c)
    BY <2>3, SMTT(30) DEF Deliver
  <2>4. CASE ReadSessionInactive(c) \/ ReadEnds(c) \/ Cleanup(c) \/ Invalidate(c)
    BY <2>4 DEF ReadSessionInactive, ReadEnds, Cleanup, Invalidate
  <2> QED
    BY <1>1, <2>1, <2>2, <2>3, <2>4 DEF ConnStep, ReaderStep
<1>2. ASSUME NEW q \in Prompts, PromptStep(q) PROVE TypeOK'
  <2>1. CASE TakeRequestId(q) \/ InsertPending(q) \/ SendPrompt(q)
    BY <2>1, SMTT(30) DEF TakeRequestId, InsertPending, SendPrompt
  <2>2. CASE GiveUpUnsent(q) \/ GiveUpExpired(q)
    BY <2>2, SMTT(30) DEF GiveUpUnsent, GiveUpExpired, Restrict
  <2>3. CASE ReceiveDecision(q) \/ TimeOut(q)
    BY <2>3, SMTT(30) DEF ReceiveDecision, TimeOut
  <2> QED
    BY <1>2, <2>1, <2>2, <2>3 DEF PromptStep
<1>3. CASE SendEventFails
  BY <1>3 DEF SendEventFails
<1> QED
  BY <1>1, <1>2, <1>3 DEF Next

LEMMA NextConn ==
  ASSUME TypeOK, ConnInv, Next
  PROVE  ConnInv'
<1> USE DEF TypeOK, ConnInv, WriterHasReader, Numbered, ConnGoTo
<1>1. ASSUME NEW c \in Conns, ConnStep(c) PROVE ConnInv'
  <2>1. CASE Handshake(c)
    BY <2>1, SMTT(30) DEF Handshake
  <2>2. CASE TakeGeneration(c)
    BY <2>2, SMTT(30) DEF TakeGeneration
  <2>3. CASE Register(c)
    BY <2>3 DEF Register
  <2>4. ASSUME NEW id \in 1 .. nextReq, NEW d \in Decisions, ReadDecision(c, id, d) PROVE ConnInv'
    BY <2>4, SMTT(30) DEF ReadDecision
  <2>5. CASE Deliver(c)
    BY <2>5 DEF Deliver
  <2>6. CASE ReadSessionInactive(c)
    BY <2>6 DEF ReadSessionInactive
  <2>7. CASE ReadEnds(c)
    BY <2>7 DEF ReadEnds
  <2>8. CASE Cleanup(c)
    BY <2>8 DEF Cleanup
  <2>9. CASE Invalidate(c)
    BY <2>9 DEF Invalidate
  <2> QED
    BY <1>1, <2>1, <2>2, <2>3, <2>4, <2>5, <2>6, <2>7, <2>8, <2>9 DEF ConnStep, ReaderStep
<1>2. CASE (\E q \in Prompts : PromptStep(q)) \/ SendEventFails
  <2>1. conn' \in {conn, {}} /\ UNCHANGED <<connGen, cpc, cgen>>
    BY <1>2 DEF PromptStep, TakeRequestId, InsertPending, SendPrompt, GiveUpUnsent, ReceiveDecision,
       TimeOut, GiveUpExpired, SendEventFails
  <2> QED
    BY <2>1
<1> QED
  BY <1>1, <1>2 DEF Next

(* Connection steps that carry no reply leave everything about replies,    *)
(* as long as the reader is not about to deliver.                          *)
LEMMA QuietReply ==
  ASSUME TypeOK, ReplyInv, NEW c \in Conns, cpc[c] # "deliver",
         UNCHANGED <<promptVars, pending, chan, routed, received>>,
         NEW l, cpc' = [cpc EXCEPT ![c] = l]
  PROVE  ReplyInv'
<1> USE DEF TypeOK, ReplyInv
<1>1. IdsInv' /\ PendingInv' /\ ChanInv' /\ ResultInv'
  BY SMTT(30) DEF IdsInv, PendingInv, ChanInv, ResultInv
<1>2. RoutedInv'
  BY SMTT(30) DEF RoutedInv
<1>3. WaitInv'
  BY DEF WaitInv
<1> QED
  BY <1>1, <1>2, <1>3

LEMMA ReadReply ==
  ASSUME TypeOK, ReplyInv, NEW c \in Conns, NEW id \in 1 .. nextReq, NEW d \in Decisions,
         ReadDecision(c, id, d)
  PROVE  ReplyInv'
<1> USE DEF TypeOK, ReplyInv, ConnGoTo
<1>1. CASE id \notin DOMAIN pending
  <2>1. received \subseteq received' /\ UNCHANGED <<promptVars, pending, chan, routed, cpc>>
    BY <1>1 DEF ReadDecision
  <2>2. IdsInv' /\ PendingInv' /\ ChanInv' /\ ResultInv'
    BY <2>1, SMTT(30) DEF IdsInv, PendingInv, ChanInv, ResultInv
  <2>3. RoutedInv'
    BY <2>1, SMTT(30) DEF RoutedInv
  <2>4. WaitInv'
    BY <2>1 DEF WaitInv
  <2> QED
    BY <2>2, <2>3, <2>4
<1>2. CASE id \in DOMAIN pending
  <2> DEFINE p == pending[id]
  <2>1. /\ cpc[c] = "read" /\ routed[c] = {}
        /\ received' = received \cup {<<id, d>>}
        /\ routed' = [routed EXCEPT ![c] = {<<p, d>>}]
        /\ DOMAIN pending' = DOMAIN pending \ {id}
        /\ \A i \in DOMAIN pending' : pending'[i] = pending[i]
        /\ cpc' = [cpc EXCEPT ![c] = "deliver"]
        /\ UNCHANGED <<promptVars, chan>>
    BY <1>2, SMTT(30) DEF ReadDecision, Restrict, RoutedInv
  <2>2. /\ p \in Prompts /\ req[p] = id /\ id > 0
        /\ ppc[p] \in {"send", "unsent", "wait", "expired"}
    BY <1>2 DEF PendingInv
  <2>3. chan[p] = {} /\ \A e \in Conns : \A m \in routed[e] : m[1] # p
    <3>1. chan[p] = {}
      BY <1>2, <2>2, SMTT(30) DEF ChanInv
    <3>2. ASSUME NEW e \in Conns, NEW m \in routed[e] PROVE m[1] # p
      <4>1. req[p] \in DOMAIN pending
        BY <1>2, <2>2
      <4>2. req[m[1]] \notin DOMAIN pending
        BY <3>2 DEF RoutedInv
      <4> QED
        BY <4>1, <4>2
    <3> QED
      BY <3>1, <3>2
  <2> HIDE DEF p
  <2>4. IdsInv' /\ PendingInv' /\ ChanInv' /\ ResultInv'
    BY <2>1, SMTT(30) DEF IdsInv, PendingInv, ChanInv, ResultInv
  <2>5. RoutedInv'
    <3>1. \A e \in Conns : \A m \in routed'[e] :
            \/ e = c /\ m = <<p, d>>
            \/ e # c /\ m \in routed[e]
      BY <2>1
    <3>2. \A e \in Conns : routed'[e] # {} => cpc'[e] = "deliver"
      BY <2>1 DEF RoutedInv
    <3>3. ASSUME NEW e \in Conns, NEW m \in routed'[e]
          PROVE  /\ ppc'[m[1]] \notin {"start", "insert"}
                 /\ req'[m[1]] \notin DOMAIN pending'
                 /\ chan'[m[1]] = {}
                 /\ <<req'[m[1]], m[2]>> \in received'
      BY <2>1, <2>2, <2>3, <3>1, <3>3, SMTT(30) DEF RoutedInv
    <3>4. ASSUME NEW e \in Conns, NEW f \in Conns, NEW m \in routed'[e], NEW n \in routed'[f],
                 m[1] = n[1]
          PROVE  e = f /\ m = n
      BY <2>3, <3>1, <3>4, SMTT(30) DEF RoutedInv
    <3> QED
      BY <3>2, <3>3, <3>4 DEF RoutedInv
  <2>6. WaitInv'
    <3> SUFFICES ASSUME NEW q \in Prompts, ppc'[q] \in {"send", "wait"}
                 PROVE  \/ req'[q] \in DOMAIN pending' /\ pending'[req'[q]] = q
                        \/ \E e \in Conns, x \in Decisions : <<q, x>> \in routed'[e]
                        \/ chan'[q] # {}
      BY DEF WaitInv
    <3>1. CASE q = p
      BY <2>1, <3>1
    <3>2. CASE q # p
      <4>1. CASE req[q] \in DOMAIN pending /\ pending[req[q]] = q
        <5>1. req[q] # id
          BY <2>2, <3>2, <4>1 DEF IdsInv
        <5> QED
          BY <2>1, <4>1, <5>1
      <4>2. CASE \E e \in Conns, x \in Decisions : <<q, x>> \in routed[e]
        <5>1. PICK e \in Conns, x \in Decisions : <<q, x>> \in routed[e]
          BY <4>2
        <5>2. e # c
          BY <2>1, <5>1
        <5> QED
          BY <2>1, <5>1, <5>2
      <4>3. CASE chan[q] # {}
        BY <2>1, <4>3
      <4> QED
        BY <2>1, <4>1, <4>2, <4>3 DEF WaitInv
    <3> QED
      BY <3>1, <3>2
  <2> QED
    BY <2>4, <2>5, <2>6
<1> QED
  BY <1>1, <1>2

LEMMA DeliverReply ==
  ASSUME TypeOK, ReplyInv, NEW c \in Conns, Deliver(c)
  PROVE  ReplyInv'
<1> USE DEF TypeOK, ReplyInv, ConnGoTo
<1>1. /\ UNCHANGED <<promptVars, pending, received>>
      /\ routed' = [routed EXCEPT ![c] = {}]
      /\ cpc' = [cpc EXCEPT ![c] = "read"]
  BY DEF Deliver
<1>2. ASSUME NEW q \in Prompts
      PROVE  \/ chan'[q] = chan[q] /\ \A m \in routed[c] : m[1] # q
             \/ \E d \in Decisions : <<q, d>> \in routed[c] /\ chan'[q] = {d}
  <2>1. chan'[q] = chan[q] \cup {m[2] : m \in {x \in routed[c] : x[1] = q}}
    BY DEF Deliver
  <2>2. CASE \A m \in routed[c] : m[1] # q
    BY <2>1, <2>2
  <2>3. CASE \E m \in routed[c] : m[1] = q
    <3>1. PICK m \in routed[c] : m[1] = q
      BY <2>3
    <3>2. chan[q] = {} /\ \A n \in routed[c] : n[1] = q => n = m
      BY <3>1 DEF RoutedInv
    <3>3. m[2] \in Decisions /\ m = <<q, m[2]>>
      BY <3>1, SMTT(30)
    <3> QED
      BY <2>1, <3>1, <3>2, <3>3, SMTT(30)
  <2> QED
    BY <2>2, <2>3
<1>3. IdsInv' /\ PendingInv' /\ ResultInv'
  BY <1>1 DEF IdsInv, PendingInv, ResultInv
<1>4. RoutedInv'
  <2>1. \A e \in Conns : \A m \in routed'[e] : e # c /\ m \in routed[e]
    BY <1>1
  <2>2. \A e \in Conns : \A m \in routed'[e] : chan'[m[1]] = chan[m[1]]
    <3> SUFFICES ASSUME NEW e \in Conns, NEW m \in routed'[e]
                 PROVE  chan'[m[1]] = chan[m[1]]
      OBVIOUS
    <3>1. e # c /\ m \in routed[e] /\ m[1] \in Prompts
      BY <2>1, SMTT(30)
    <3>2. \A n \in routed[c] : n[1] # m[1]
      BY <3>1 DEF RoutedInv
    <3>3. ~\E d \in Decisions : <<m[1], d>> \in routed[c]
      BY <3>2
    <3> QED
      BY <1>2, <3>1, <3>3
  <2> QED
    BY <1>1, <2>1, <2>2, SMTT(30) DEF RoutedInv
<1>5. ChanInv'
  <2> SUFFICES ASSUME NEW q \in Prompts
               PROVE  /\ \A d, e \in chan'[q] : d = e
                      /\ \A d \in chan'[q] : <<req[q], d>> \in received
                      /\ chan'[q] # {} => /\ ppc[q] \notin {"start", "insert"}
                                          /\ req[q] \notin DOMAIN pending
    BY <1>1 DEF ChanInv
  <2>1. CASE chan'[q] = chan[q]
    BY <2>1 DEF ChanInv
  <2>2. ASSUME NEW d \in Decisions, <<q, d>> \in routed[c], chan'[q] = {d}
        PROVE  /\ <<req[q], d>> \in received
               /\ ppc[q] \notin {"start", "insert"}
               /\ req[q] \notin DOMAIN pending
    BY <2>2, SMTT(30) DEF RoutedInv
  <2> QED
    BY <1>2, <2>1, <2>2
<1>6. WaitInv'
  <2> SUFFICES ASSUME NEW q \in Prompts, ppc[q] \in {"send", "wait"}
               PROVE  \/ req[q] \in DOMAIN pending /\ pending[req[q]] = q
                      \/ \E e \in Conns, x \in Decisions : <<q, x>> \in routed'[e]
                      \/ chan'[q] # {}
    BY <1>1 DEF WaitInv
  <2>1. CASE \E e \in Conns, x \in Decisions : <<q, x>> \in routed[e]
    <3>1. PICK e \in Conns, x \in Decisions : <<q, x>> \in routed[e]
      BY <2>1
    <3>2. CASE e = c
      <4>1. ~\A m \in routed[c] : m[1] # q
        BY <3>1, <3>2
      <4> QED
        BY <1>2, <4>1
    <3>3. CASE e # c
      BY <1>1, <3>1, <3>3
    <3> QED
      BY <3>2, <3>3
  <2>2. CASE chan[q] # {}
    BY <1>2, <2>2
  <2> QED
    BY <2>1, <2>2 DEF WaitInv
<1> QED
  BY <1>3, <1>4, <1>5, <1>6

LEMMA PromptReply ==
  ASSUME TypeOK, ReplyInv, NEW q \in Prompts, PromptStep(q)
  PROVE  ReplyInv'
<1> USE DEF TypeOK, ReplyInv, PromptGoTo, Return
<1>1. CASE TakeRequestId(q)
  <2>1. /\ ppc[q] = "start" /\ req' = [req EXCEPT ![q] = nextReq] /\ nextReq' = nextReq + 1
        /\ ppc' = [ppc EXCEPT ![q] = "insert"]
        /\ UNCHANGED <<res, pending, chan, routed, received, cpc>>
    BY <1>1 DEF TakeRequestId
  <2>2. /\ \A i \in DOMAIN pending : pending[i] # q
        /\ \A c \in Conns : \A m \in routed[c] : m[1] # q
        /\ chan[q] = {}
        /\ res[q] = NoResult
    <3>1. \A i \in DOMAIN pending : pending[i] # q
      BY <2>1 DEF PendingInv
    <3>2. ASSUME NEW c \in Conns, NEW m \in routed[c] PROVE m[1] # q
      <4>1. ppc[m[1]] \notin {"start", "insert"}
        BY <3>2 DEF RoutedInv
      <4> QED
        BY <2>1, <4>1
    <3>3. chan[q] = {} /\ res[q] = NoResult
      BY <2>1 DEF ChanInv, ResultInv
    <3> QED
      BY <3>1, <3>2, <3>3
  <2>3. IdsInv'
    BY <2>1, SMTT(30) DEF IdsInv
  <2>4. PendingInv'
    BY <2>1, <2>2 DEF PendingInv
  <2>5. RoutedInv'
    BY <2>1, <2>2, SMTT(30) DEF RoutedInv
  <2>6. ChanInv' /\ ResultInv'
    BY <2>1, <2>2, ResultsAssumption, SMTT(30) DEF ChanInv, ResultInv
  <2>7. WaitInv'
    BY <2>1 DEF WaitInv
  <2> QED
    BY <2>3, <2>4, <2>5, <2>6, <2>7
<1>2. CASE InsertPending(q)
  <2>1. /\ ppc[q] = "insert" /\ ppc' = [ppc EXCEPT ![q] = "send"]
        /\ DOMAIN pending' = DOMAIN pending \cup {req[q]}
        /\ pending'[req[q]] = q
        /\ \A i \in DOMAIN pending : i # req[q] => pending'[i] = pending[i]
        /\ UNCHANGED <<nextReq, req, res, chan, routed, received, cpc>>
    BY <1>2 DEF InsertPending
  <2>2. req[q] > 0 /\ \A p \in Prompts : req[p] = req[q] => p = q
    BY <2>1, SMTT(30) DEF IdsInv
  <2>3. chan[q] = {} /\ \A c \in Conns : \A m \in routed[c] : m[1] # q
    <3>1. ASSUME NEW c \in Conns, NEW m \in routed[c] PROVE m[1] # q
      <4>1. ppc[m[1]] \notin {"start", "insert"}
        BY <3>1 DEF RoutedInv
      <4> QED
        BY <2>1, <4>1
    <3>2. chan[q] = {}
      BY <2>1 DEF ChanInv
    <3> QED
      BY <3>1, <3>2
  <2>4. IdsInv' /\ ResultInv'
    BY <2>1 DEF IdsInv, ResultInv
  <2>5. PendingInv'
    BY <2>1, <2>2, SMTT(30) DEF PendingInv
  <2>6. RoutedInv'
    BY <2>1, <2>2, <2>3, SMTT(30) DEF RoutedInv
  <2>7. ChanInv'
    BY <2>1, <2>2, <2>3 DEF ChanInv
  <2>8. WaitInv'
    BY <2>1, <2>2 DEF WaitInv
  <2> QED
    BY <2>4, <2>5, <2>6, <2>7, <2>8
<1>3. CASE SendPrompt(q) \/ TimeOut(q)
  <2>1. /\ ppc[q] \in {"send", "wait"}
        /\ \E l \in {"unsent", "wait", "expired"} :
             ppc' = [ppc EXCEPT ![q] = l] /\ (l = "wait" => ppc[q] = "send")
        /\ UNCHANGED <<nextReq, req, res, pending, chan, routed, received, cpc>>
    BY <1>3 DEF SendPrompt, TimeOut
  <2>2. IdsInv' /\ PendingInv' /\ ChanInv' /\ ResultInv'
    BY <2>1, SMTT(30) DEF IdsInv, PendingInv, ChanInv, ResultInv
  <2>3. RoutedInv'
    <3>1. ASSUME NEW p \in Prompts, ppc[p] \notin {"start", "insert"}
          PROVE  ppc'[p] \notin {"start", "insert"}
      BY <2>1, <3>1
    <3>2. ASSUME NEW c \in Conns, NEW m \in routed[c] PROVE ppc'[m[1]] \notin {"start", "insert"}
      <4>1. ppc[m[1]] \notin {"start", "insert"}
        BY <3>2 DEF RoutedInv
      <4>2. m \in Prompts \X Decisions
        BY <3>2
      <4> QED
        BY <3>1, <4>1, <4>2
    <3> QED
      BY <2>1, <3>2, SMTT(30) DEF RoutedInv
  <2>4. WaitInv'
    <3>1. ASSUME NEW p \in Prompts, ppc'[p] \in {"send", "wait"} PROVE ppc[p] \in {"send", "wait"}
      BY <2>1, <3>1
    <3> QED
      BY <2>1, <3>1 DEF WaitInv
  <2> QED
    BY <2>2, <2>3, <2>4
<1>4. CASE GiveUpUnsent(q) \/ GiveUpExpired(q)
  <2>1. /\ ppc[q] \in {"unsent", "expired"} /\ ppc' = [ppc EXCEPT ![q] = "done"]
        /\ \E r \in {NoApp, Timeout} : res' = [res EXCEPT ![q] = r]
        /\ DOMAIN pending' = DOMAIN pending \ {req[q]}
        /\ \A i \in DOMAIN pending' : pending'[i] = pending[i]
        /\ UNCHANGED <<nextReq, req, chan, routed, received, cpc>>
    BY <1>4 DEF GiveUpUnsent, GiveUpExpired, Restrict
  <2>2. IdsInv' /\ ChanInv' /\ ResultInv'
    BY <2>1, ResultsAssumption, SMTT(30) DEF IdsInv, ChanInv, ResultInv
  <2>3. PendingInv'
    BY <2>1, SMTT(30) DEF PendingInv
  <2>4. RoutedInv'
    BY <2>1, SMTT(30) DEF RoutedInv
  <2>5. WaitInv'
    <3>1. ASSUME NEW p \in Prompts, ppc'[p] \in {"send", "wait"} PROVE p # q /\ req[p] # req[q]
      BY <2>1, <3>1 DEF IdsInv
    <3> QED
      BY <2>1, <3>1 DEF WaitInv
  <2> QED
    BY <2>2, <2>3, <2>4, <2>5
<1>5. CASE ReceiveDecision(q)
  <2>1. PICK d \in chan[q] : ppc' = [ppc EXCEPT ![q] = "done"] /\ res' = [res EXCEPT ![q] = d]
    BY <1>5 DEF ReceiveDecision
  <2>2. ppc[q] = "wait" /\ UNCHANGED <<nextReq, req, pending, chan, routed, received, cpc>>
    BY <1>5 DEF ReceiveDecision
  <2>3. IdsInv' /\ ChanInv' /\ ResultInv'
    BY <2>1, <2>2, ResultsAssumption, SMTT(30) DEF IdsInv, ChanInv, ResultInv
  <2>4. PendingInv'
    <3>1. \A i \in DOMAIN pending : pending[i] # q
      BY <2>1, SMTT(30) DEF PendingInv, ChanInv
    <3> QED
      BY <2>1, <2>2, <3>1 DEF PendingInv
  <2>5. RoutedInv'
    BY <2>1, <2>2, SMTT(30) DEF RoutedInv
  <2>6. WaitInv'
    BY <2>1, <2>2 DEF WaitInv
  <2> QED
    BY <2>3, <2>4, <2>5, <2>6
<1> QED
  BY <1>1, <1>2, <1>3, <1>4, <1>5 DEF PromptStep

LEMMA NextReply ==
  ASSUME TypeOK, ReplyInv, Next
  PROVE  ReplyInv'
<1>1. CASE \E q \in Prompts : PromptStep(q)
  BY <1>1, PromptReply
<1>2. CASE SendEventFails
  <2>1. UNCHANGED <<cpc, nextReq, pending, chan, routed, ppc, req, res, received>>
    BY <1>2 DEF SendEventFails
  <2> QED
    BY <2>1, SMTT(30) DEF ReplyInv, IdsInv, PendingInv, RoutedInv, ChanInv, WaitInv, ResultInv
<1>3. ASSUME NEW c \in Conns, ConnStep(c) PROVE ReplyInv'
  <2>1. ASSUME NEW id \in 1 .. nextReq, NEW d \in Decisions, ReadDecision(c, id, d) PROVE ReplyInv'
    BY <2>1, ReadReply
  <2>2. CASE Deliver(c)
    BY <2>2, DeliverReply
  <2>3. CASE Handshake(c) \/ TakeGeneration(c) \/ Register(c) \/ ReadSessionInactive(c)
             \/ ReadEnds(c) \/ Cleanup(c) \/ Invalidate(c)
    <3>1. cpc[c] # "deliver" /\ UNCHANGED <<promptVars, pending, chan, routed, received>>
      BY <2>3 DEF Handshake, TakeGeneration, Register, ReadSessionInactive, ReadEnds, Cleanup, Invalidate
    <3>2. \E l : cpc' = [cpc EXCEPT ![c] = l]
      BY <2>3 DEF Handshake, TakeGeneration, Register, ReadSessionInactive, ReadEnds, Cleanup,
                  Invalidate, ConnGoTo
    <3> QED
      BY <3>1, <3>2, QuietReply
  <2> QED
    BY <1>3, <2>1, <2>2, <2>3 DEF ConnStep, ReaderStep
<1> QED
  BY <1>1, <1>2, <1>3 DEF Next

(* ServerInv is inductive: it holds in every reachable state of the socket *)
(* server, whatever the number of connections and of prompts.              *)
THEOREM ServerCorrect == Spec => []ServerInv
<1>1. ServerInv /\ [Next]_socketVars => ServerInv'
  <2>1. CASE Next
    BY <2>1, NextType, NextReply, NextConn DEF ServerInv
  <2>2. CASE UNCHANGED socketVars
    <3> USE <2>2 DEF socketVars
    <3>1. TypeOK => TypeOK'
      BY DEF TypeOK
    <3>2. ReplyInv => ReplyInv'
      BY SMTT(30) DEF ReplyInv, IdsInv, PendingInv, RoutedInv, ChanInv, WaitInv, ResultInv
    <3>3. ConnInv => ConnInv'
      BY DEF ConnInv, WriterHasReader
    <3> QED
      BY <3>1, <3>2, <3>3 DEF ServerInv
  <2> QED
    BY <2>1, <2>2
<1> QED
  BY InitServer, <1>1, PTL DEF Spec

(* Every variable of the socket server keeps its type, and conn holds one  *)
(* writer at most.                                                         *)
THEOREM TypeCorrect == Spec => []TypeOK
  BY ServerCorrect, PTL DEF ServerInv

(* The decision prompt_and_wait() returns was sent for its own request id, *)
(* however readers, workers and timeouts interleave.                       *)
THEOREM AnswersAreTheirOwn == Spec => []AnswersReachTheirPrompt
<1>1. ServerInv => AnswersReachTheirPrompt
  BY DEF ServerInv, ReplyInv, IdsInv, ChanInv, ResultInv, AnswersReachTheirPrompt
<1> QED
  BY <1>1, ServerCorrect, PTL

(* pending holds exactly the prompts that wait for a reader: it does not   *)
(* leak, and no prompt waits for a sender that has been lost.              *)
THEOREM PendingDoesNotLeak == Spec => []PendingMatchesWaiting
<1>1. ServerInv => PendingMatchesWaiting
  <2> SUFFICES ASSUME ServerInv PROVE PendingMatchesWaiting
    OBVIOUS
  <2> USE DEF ServerInv, ReplyInv
  <2>1. \A i \in DOMAIN pending :
          req[pending[i]] = i /\ ppc[pending[i]] \in {"send", "unsent", "wait", "expired"}
    BY DEF PendingInv
  <2> QED
    BY <2>1 DEF WaitInv, PendingMatchesWaiting
<1> QED
  BY <1>1, ServerCorrect, PTL

(* The writer accept_loop() registers belongs to a thread that has yet to  *)
(* clean up after itself.                                                  *)
THEOREM WriterIsServed == Spec => []WriterHasReader
<1>1. ServerInv => WriterHasReader
  BY DEF ServerInv, ConnInv
<1> QED
  BY <1>1, ServerCorrect, PTL

(* The end of a connection never takes the writer of another one away.     *)
THEOREM CleanupIsOwn == Spec => CleanupKeepsNewer
<1>1. ASSUME TypeOK, [Next]_socketVars, NEW c \in Conns, NEW g \in conn,
             cpc[c] = "cleanup", cpc'[c] # "cleanup", cgen[c] # g
      PROVE  conn' = conn
  <2> USE DEF TypeOK, ConnGoTo
  <2>1. Cleanup(c)
    <3>1. ASSUME NEW e \in Conns, ConnStep(e) PROVE e = c
      <4>1. cpc' = cpc \/ \E l : cpc' = [cpc EXCEPT ![e] = l]
        BY <3>1 DEF ConnStep, ReaderStep, Handshake, TakeGeneration, Register, ReadDecision,
           Deliver, ReadSessionInactive, ReadEnds, Cleanup, Invalidate
      <4> QED
        BY <1>1, <4>1
    <3>2. ASSUME NEW q \in Prompts, PromptStep(q) PROVE FALSE
      BY <1>1, <3>2 DEF PromptStep, TakeRequestId, InsertPending, SendPrompt, GiveUpUnsent,
         ReceiveDecision, TimeOut, GiveUpExpired
    <3>3. ~ SendEventFails /\ ~ UNCHANGED socketVars
      BY <1>1 DEF SendEventFails, socketVars
    <3>4. ConnStep(c)
      BY <1>1, <3>1, <3>2, <3>3 DEF Next
    <3> QED
      BY <1>1, <3>4 DEF ConnStep, ReaderStep, Handshake, TakeGeneration, Register, ReadDecision,
         Deliver, ReadSessionInactive, ReadEnds, Invalidate
  <2> QED
    BY <1>1, <2>1 DEF Cleanup
<1>2. TypeOK /\ [Next]_socketVars =>
        [\A c \in Conns, g \in conn :
           cpc[c] = "cleanup" /\ cpc'[c] # "cleanup" /\ cgen[c] # g => conn' = conn]_socketVars
  BY <1>1
<1> QED
  BY <1>2, TypeCorrect, PTL DEF Spec, CleanupKeepsNewer

(* All that the server promises about prompts and connections together.    *)
THEOREM ServerMatchesPrompts == Spec => PromptsAreMatched
  BY TypeCorrect, AnswersAreTheirOwn, PendingDoesNotLeak, WriterIsServed, CleanupIsOwn, PTL
     DEF PromptsAreMatched
=============================================================================
