------------------------ MODULE PromptSessionProofs ------------------------
(***************************************************************************)
(* Proofs about PromptSession, for any number of prompts, connections and  *)
(* restarts of the daemon: the decision that a call of prompt_and_wait()   *)
(* returns was made by the app for the call's request id, and without a    *)
(* restart for the call itself.                                            *)
(*                                                                         *)
(* The argument follows a decision from the window to the call.  A prompt  *)
(* is shown under the request id of its call, which neither changes any    *)
(* more; the sender that a decision finds in the table belongs to a call   *)
(* of the decision's id; and what is routed, in a channel or returned came *)
(* from such a find.  Ids are unique until the daemon restarts.            *)
(***************************************************************************)
EXTENDS PromptSession, SequenceTheorems, WellFoundedInduction, TLAPS

(* The leaves are first-order steps; those with arithmetic or records cite SMT. *)
USE ZenonT(60)

ShapeInv ==
  /\ DOMAIN chan = Prompts /\ DOMAIN routed = Conns /\ DOMAIN ppc = Prompts /\ DOMAIN res = Prompts
  /\ req \in [Prompts -> Nat] /\ reqId \in [Prompts -> Nat] /\ nextReq \in Nat \ {0}
  /\ queue \in Seq(Prompts) /\ active \subseteq Prompts /\ sent \in Seq(App!Verdicts)
  /\ wire \subseteq Prompts /\ out \in Nat /\ restarts \in Nat

\* The decision in the i-th verdict.
DecisionOf(v) == [allow |-> v.allow, scope |-> v.scope]

\* The app sent d for the request id of q and, within one run, for q.
Sent(q, d) ==
  \E i \in DOMAIN sent :
    reqId[sent[i].msg] = req[q] /\ d = DecisionOf(sent[i]) /\ (restarts = 0 => sent[i].msg = q)

\* A call that has its request id.
Started(q) == q \in Prompts /\ ppc[q] # "start"

(* Request ids are never 0, and are unique in the first run of the daemon. *)
IdInv ==
  /\ \A q \in Prompts : Started(q) => req[q] # 0
  /\ restarts = 0 =>
       /\ \A q \in Prompts : Started(q) => req[q] < nextReq
       /\ \A q, p \in Prompts : Started(q) /\ Started(p) /\ req[q] = req[p] => q = p

(* A prompt is on the wire or shown after its call took its id, and is     *)
(* shown under that id; what is queued, open or decided was shown.         *)
ShownInv ==
  /\ \A q \in wire : Started(q)
  /\ \A q \in Prompts : reqId[q] # 0 => Started(q) /\ reqId[q] = req[q]
  /\ \A q \in active : reqId[q] # 0
  /\ \A i \in DOMAIN queue : reqId[queue[i]] # 0
  /\ \A i \in DOMAIN sent : reqId[sent[i].msg] # 0

(* Who waits under an id has it. *)
PendingInv ==
  \A i \in DOMAIN pending : Started(pending[i]) /\ req[pending[i]] = i

(* Where a decision is on its way to the call. *)
ReplyInv ==
  /\ \A c \in Conns : \A m \in routed[c] : Started(m[1]) /\ Sent(m[1], m[2])
  /\ \A q \in Prompts : \A d \in chan[q] : Started(q) /\ Sent(q, d)
  /\ \A q \in Prompts : res[q] \in Decisions => Started(q) /\ Sent(q, res[q])

(* A biometric evaluation carries the scope that the user chose. *)
ScopeInv == \A a \in auth : a.scope \in Scopes

SessionInv == ShapeInv /\ IdInv /\ ShownInv /\ PendingInv /\ ReplyInv

---------------------------------------------------------------------------
(* What a step leaves as it was. *)

\* What was sent stays sent.
Extends(s, t) == \A i \in DOMAIN s : i \in DOMAIN t /\ t[i] = s[i]

LEMMA VerdictsName ==
  ASSUME NEW s \in Seq(App!Verdicts), NEW i \in DOMAIN s
  PROVE  s[i] \in App!Verdicts /\ s[i].msg \in Prompts
<1>1. s[i] \in App!Verdicts
  BY SMTT(30)
<1>2. \A v \in App!Verdicts : v.msg \in Prompts
  BY SMTT(30) DEF App!Verdicts
<1> QED
  BY <1>1, <1>2

LEMMA SentKept ==
  ASSUME ShapeInv, ShownInv, NEW q, Extends(sent, sent'),
         \A m \in Prompts : reqId[m] # 0 => reqId'[m] = reqId[m], req'[q] = req[q],
         restarts' = 0 => restarts = 0
  PROVE  \A d : Sent(q, d) => Sent(q, d)'
<1> SUFFICES ASSUME NEW d, Sent(q, d) PROVE Sent(q, d)'
  OBVIOUS
<1>1. PICK i \in DOMAIN sent :
        reqId[sent[i].msg] = req[q] /\ d = DecisionOf(sent[i]) /\ (restarts = 0 => sent[i].msg = q)
  BY DEF Sent
<1>2. i \in DOMAIN sent' /\ sent'[i] = sent[i]
  BY DEF Extends
<1>3. reqId'[sent[i].msg] = reqId[sent[i].msg]
  <2>1. sent[i].msg \in Prompts
    BY VerdictsName DEF ShapeInv
  <2> QED
    BY <2>1 DEF ShownInv
<1>4. reqId'[sent'[i].msg] = req'[q] /\ d = DecisionOf(sent'[i]) /\ (restarts' = 0 => sent'[i].msg = q)
  BY <1>1, <1>2, <1>3
<1> QED
  BY <1>2, <1>4 DEF Sent

\* A step of the server that gives no call an id.
LEMMA ServerMoves ==
  ASSUME SessionInv, UNCHANGED <<req, nextReq, appVars, restarts>>, out' \in Nat,
         DOMAIN chan' = Prompts, DOMAIN routed' = Conns, DOMAIN ppc' = Prompts, DOMAIN res' = Prompts,
         wire' \subseteq Prompts, \A q \in wire' : Started(q),
         \A q \in Prompts : (ppc'[q] # "start") <=> (ppc[q] # "start"),
         \A i \in DOMAIN pending' : Started(pending'[i]) /\ req[pending'[i]] = i,
         \A c \in Conns : \A m \in routed'[c] : Started(m[1]) /\ Sent(m[1], m[2]),
         \A q \in Prompts : \A d \in chan'[q] : Started(q) /\ Sent(q, d),
         \A q \in Prompts : res'[q] \in Decisions => Started(q) /\ Sent(q, res'[q])
  PROVE  SessionInv'
<1>1. UNCHANGED <<reqId, queue, active, sent>>
  BY DEF appVars
<1>2. \A q : Started(q)' <=> Started(q)
  BY DEF Started
<1>3. \A q, d : Sent(q, d) => Sent(q, d)'
  BY <1>1 DEF Sent
<1>4. ShapeInv'
  BY <1>1 DEF SessionInv, ShapeInv
<1>5. IdInv'
  BY <1>2 DEF SessionInv, IdInv
<1>6. ShownInv'
  BY <1>1, <1>2 DEF SessionInv, ShownInv
<1>7. PendingInv'
  BY <1>2 DEF PendingInv
<1>8. ReplyInv'
  BY <1>2, <1>3 DEF ReplyInv
<1> QED
  BY <1>4, <1>5, <1>6, <1>7, <1>8 DEF SessionInv

\* A step of the app: what it shows, and under which id.
LEMMA AppMoves ==
  ASSUME SessionInv, UNCHANGED <<serverVars, out, restarts>>,
         reqId' \in [Prompts -> Nat], \A m \in Prompts : reqId[m] # 0 => reqId'[m] = reqId[m],
         \A m \in Prompts : reqId'[m] # 0 => Started(m) /\ reqId'[m] = req[m],
         wire' \subseteq wire, queue' \in Seq(Prompts), active' \subseteq Prompts,
         sent' \in Seq(App!Verdicts), Extends(sent, sent'),
         \A m \in active' : reqId'[m] # 0,
         \A i \in DOMAIN queue' : reqId'[queue'[i]] # 0,
         \A i \in DOMAIN sent' : reqId'[sent'[i].msg] # 0
  PROVE  SessionInv'
<1>1. UNCHANGED <<nextReq, pending, chan, routed, ppc, req, res>>
  BY DEF serverVars
<1>2. \A q : Started(q)' <=> Started(q)
  BY <1>1 DEF Started
<1>3. \A q, d : Sent(q, d) => Sent(q, d)'
  BY <1>1, SentKept DEF SessionInv
<1>4. ShapeInv'
  BY <1>1 DEF SessionInv, ShapeInv
<1>5. IdInv'
  BY <1>1, <1>2 DEF SessionInv, IdInv
<1>6. ShownInv'
  BY <1>1, <1>2 DEF SessionInv, ShownInv
<1>7. PendingInv'
  BY <1>1, <1>2 DEF SessionInv, PendingInv
<1>8. ReplyInv'
  BY <1>1, <1>2, <1>3 DEF SessionInv, ReplyInv
<1> QED
  BY <1>4, <1>5, <1>6, <1>7, <1>8 DEF SessionInv

---------------------------------------------------------------------------
(* The app. *)

LEMMA FirstIn ==
  ASSUME NEW S, S \subseteq Nat, S # {}
  PROVE  App!Min(S) \in S
<1>1. PICK R : R = OpToRel(<, Nat)
  OBVIOUS
<1>2. PICK x \in S : \A y \in S : ~ (<<y, x>> \in R)
  BY <1>1, NatLessThanWellFounded, WFMin
<1>3. ASSUME NEW y \in S PROVE x <= y
  <2>1. x \in Nat /\ y \in Nat /\ ~ (y < x)
    BY <1>1, <1>2 DEF OpToRel
  <2> QED
    BY <2>1, SMTT(30)
<1> QED
  BY <1>3 DEF App!Min

\* Decisions t after the decisions s, all on prompts that r has an id for.
LEMMA Joined ==
  ASSUME NEW s \in Seq(App!Verdicts), NEW t \in Seq(App!Verdicts), NEW r,
         \A i \in DOMAIN s : r[s[i].msg] # 0, \A i \in DOMAIN t : r[t[i].msg] # 0
  PROVE  /\ s \o t \in Seq(App!Verdicts) /\ Extends(s, s \o t)
         /\ \A i \in DOMAIN (s \o t) : r[(s \o t)[i].msg] # 0
<1>1. PICK u : u = s \o t
  OBVIOUS
<1>2. u \in Seq(App!Verdicts)
  BY <1>1, ConcatProperties
<1>3. /\ \A i \in DOMAIN s : i \in DOMAIN u /\ u[i] = s[i]
      /\ \A i \in DOMAIN u : (i \in DOMAIN s /\ u[i] = s[i]) \/ (\E j \in DOMAIN t : u[i] = t[j])
  BY <1>1, SMTT(30)
<1>4. \A i \in DOMAIN u : r[u[i].msg] # 0
  BY <1>3
<1> QED
  BY <1>1, <1>2, <1>3, <1>4 DEF Extends

\* presentNextIfNeeded() takes what it shows and decides from the queue.
LEMMA Presenting ==
  ASSUME sent \in Seq(App!Verdicts), NEW q \in Seq(Prompts), NEW ds \in Seq(App!Verdicts), NEW r,
         App!PresentNext(q, ds),
         \A i \in DOMAIN q : r[q[i]] # 0, \A i \in DOMAIN ds : r[ds[i].msg] # 0,
         \A i \in DOMAIN sent : r[sent[i].msg] # 0
  PROVE  /\ queue' \in Seq(Prompts) /\ active' \subseteq Prompts /\ sent' \in Seq(App!Verdicts)
         /\ Extends(sent, sent')
         /\ \A m \in active' : r[m] # 0
         /\ \A i \in DOMAIN queue' : r[queue'[i]] # 0
         /\ \A i \in DOMAIN sent' : r[sent'[i].msg] # 0
<1> DEFINE live == {i \in DOMAIN q : q[i] \notin late}
           first == IF live = {} THEN Len(q) + 1 ELSE App!Min(live)
<1>1. live \subseteq 1 .. Len(q) /\ live \subseteq Nat
  BY SMTT(30)
<1>2. first \in 1 .. Len(q) + 1
  <2>1. live # {} => App!Min(live) \in live
    BY <1>1, FirstIn
  <2> QED
    BY <1>1, <2>1, SMTT(30)
<1>3. PICK k \in 1 .. Len(q) + 1 :
        /\ active' = {q[i] : i \in {k} \cap DOMAIN q}
        /\ queue' = SubSeq(q, k + 1, Len(q))
        /\ sent' = sent \o ds \o [i \in 1 .. k - 1 |-> App!Deny(q[i])]
  BY <1>2 DEF App!PresentNext
<1> HIDE DEF live, first
<1>4. PICK denied : denied = [i \in 1 .. k - 1 |-> App!Deny(q[i])]
  OBVIOUS
<1>5. denied \in Seq(App!Verdicts) /\ \A i \in DOMAIN denied : r[denied[i].msg] # 0
  <2>1. k - 1 \in Nat /\ \A i \in 1 .. k - 1 : i \in DOMAIN q /\ q[i] \in Prompts
    BY SMTT(30)
  <2>2. \A m \in Prompts : App!Deny(m) \in App!Verdicts /\ App!Deny(m).msg = m
    BY SMTT(30) DEF App!Deny, App!Verdicts
  <2>3. DOMAIN denied = 1 .. k - 1 /\ \A i \in 1 .. k - 1 : denied[i] = App!Deny(q[i])
    BY <1>4
  <2>4. denied \in [1 .. k - 1 -> App!Verdicts]
    BY <1>4, <2>1, <2>2
  <2>5. denied \in Seq(App!Verdicts)
    BY <2>1, <2>4, SeqDef
  <2>6. ASSUME NEW i \in 1 .. k - 1 PROVE r[denied[i].msg] # 0
    <3>1. denied[i].msg = q[i] /\ i \in DOMAIN q
      BY <2>1, <2>2, <2>3
    <3> QED
      BY <3>1
  <2> QED
    BY <2>3, <2>5, <2>6
<1>6. PICK before : before = sent \o ds
  OBVIOUS
<1>7. /\ before \in Seq(App!Verdicts) /\ Extends(sent, before)
      /\ \A i \in DOMAIN before : r[before[i].msg] # 0
  BY <1>6, Joined
<1>8. /\ sent' \in Seq(App!Verdicts) /\ Extends(before, sent')
      /\ \A i \in DOMAIN sent' : r[sent'[i].msg] # 0
  <2>1. sent' = before \o denied
    BY <1>3, <1>4, <1>6
  <2>2. /\ before \o denied \in Seq(App!Verdicts) /\ Extends(before, before \o denied)
        /\ \A i \in DOMAIN (before \o denied) : r[(before \o denied)[i].msg] # 0
    BY <1>5, <1>7, Joined
  <2> QED
    BY <2>1, <2>2
<1>9. Extends(sent, sent')
  BY <1>7, <1>8 DEF Extends
<1>10. active' \subseteq Prompts /\ \A m \in active' : r[m] # 0
  <2>1. \A i \in DOMAIN q : q[i] \in Prompts
    BY SMTT(30)
  <2> QED
    BY <1>3, <2>1
<1>11. queue' \in Seq(Prompts) /\ \A i \in DOMAIN queue' : \E j \in DOMAIN q : queue'[i] = q[j]
  <2>1. /\ k + 1 \in Int /\ Len(q) \in Int /\ k \in Nat /\ k >= 1 /\ Len(q) \in Nat
        /\ \A i \in k + 1 .. Len(q) : q[i] \in Prompts
        /\ DOMAIN q = 1 .. Len(q)
    BY SMTT(30)
  <2>2. /\ queue' \in Seq(Prompts)
        /\ Len(queue') = IF k + 1 <= Len(q) THEN Len(q) - (k + 1) + 1 ELSE 0
        /\ \A i \in 1 .. Len(q) - (k + 1) + 1 : queue'[i] = q[k + 1 + i - 1]
    BY <1>3, <2>1, SubSeqProperties, SMTT(30)
  <2>3. DOMAIN queue' = 1 .. Len(queue')
    BY <2>2, SMTT(30)
  <2>4. ASSUME NEW i \in DOMAIN queue' PROVE \E j \in DOMAIN q : queue'[i] = q[j]
    <3>1. i \in 1 .. Len(q) - (k + 1) + 1 /\ k + 1 + i - 1 \in 1 .. Len(q)
      <4>1. /\ k \in Nat /\ k >= 1 /\ Len(q) \in Nat /\ Len(queue') \in Nat /\ i \in 1 .. Len(queue')
            /\ Len(queue') = IF k + 1 <= Len(q) THEN Len(q) - (k + 1) + 1 ELSE 0
        BY <2>1, <2>2, <2>3, LenProperties
      <4> QED
        BY <4>1, SMTT(30)
    <3> QED
      BY <2>1, <2>2, <3>1
  <2> QED
    BY <2>2, <2>4
<1> QED
  BY <1>8, <1>9, <1>10, <1>11

LEMMA AppReadsKeeps ==
  ASSUME SessionInv, NEW q \in Prompts, AppReads(q)
  PROVE  SessionInv'
<1> USE DEF SessionInv
<1>1. /\ q \in wire /\ wire' \subseteq wire /\ reqId[q] = 0 /\ reqId' = [reqId EXCEPT ![q] = req[q]]
      /\ UNCHANGED <<serverVars, out, restarts>>
  BY DEF AppReads, App!Show
<1>2. /\ Started(q) /\ req[q] # 0 /\ req[q] \in Nat /\ reqId \in [Prompts -> Nat]
      /\ queue \in Seq(Prompts) /\ active \subseteq Prompts /\ sent \in Seq(App!Verdicts)
  BY <1>1 DEF ShapeInv, ShownInv, IdInv
<1>3. /\ reqId' \in [Prompts -> Nat] /\ reqId'[q] = req[q]
      /\ \A m \in Prompts : m # q => reqId'[m] = reqId[m]
  <2>1. reqId' \in [Prompts -> Nat] /\ reqId'[q] = req[q]
    BY <1>1, <1>2
  <2>2. ASSUME NEW m \in Prompts, m # q PROVE reqId'[m] = reqId[m]
    BY <1>1, <1>2, <2>2
  <2> QED
    BY <2>1, <2>2
<1>4. \A m \in Prompts : reqId[m] # 0 => reqId'[m] = reqId[m]
  BY <1>1, <1>3
<1>5. \A m \in Prompts : reqId'[m] # 0 => Started(m) /\ reqId'[m] = req[m]
  <2> SUFFICES ASSUME NEW m \in Prompts, reqId'[m] # 0 PROVE Started(m) /\ reqId'[m] = req[m]
    OBVIOUS
  <2>1. CASE m = q
    BY <1>2, <1>3, <2>1
  <2>2. CASE m # q
    <3>1. reqId'[m] = reqId[m]
      BY <1>1, <1>2, <2>2
    <3> QED
      BY <3>1 DEF ShownInv
  <2> QED
    BY <2>1, <2>2
<1>6. /\ \A m \in active : reqId'[m] # 0
      /\ \A i \in DOMAIN queue : reqId'[queue[i]] # 0
      /\ \A i \in DOMAIN sent : reqId'[sent[i].msg] # 0
  <2>1. \A i \in DOMAIN sent : sent[i].msg \in Prompts
    BY <1>2, VerdictsName
  <2>2. \A i \in DOMAIN queue : queue[i] \in Prompts
    BY <1>2, SMTT(30)
  <2> QED
    BY <1>2, <1>4, <2>1, <2>2 DEF ShownInv
<1>7. PICK longer : longer = Append(queue, q)
  OBVIOUS
<1>8. longer \in Seq(Prompts) /\ \A i \in DOMAIN longer : reqId'[longer[i]] # 0
  <2>1. /\ longer \in Seq(Prompts)
        /\ \A i \in DOMAIN longer : longer[i] = q \/ (i \in DOMAIN queue /\ longer[i] = queue[i])
    BY <1>2, <1>7, SMTT(30)
  <2> QED
    BY <1>2, <1>3, <1>6, <2>1
<1>9. CASE active = {}
  <2>1. App!PresentNext(longer, << >>)
    BY <1>7, <1>9 DEF AppReads, App!Show
  <2>2. << >> \in Seq(App!Verdicts) /\ \A i \in DOMAIN << >> : FALSE
    BY SMTT(30)
  <2>3. PICK r : r = reqId'
    OBVIOUS
  <2>4. \A i \in DOMAIN << >> : r[<< >>[i].msg] # 0
    BY <2>2
  <2>5. /\ queue' \in Seq(Prompts) /\ active' \subseteq Prompts /\ sent' \in Seq(App!Verdicts)
        /\ Extends(sent, sent')
        /\ \A m \in active' : r[m] # 0
        /\ \A i \in DOMAIN queue' : r[queue'[i]] # 0
        /\ \A i \in DOMAIN sent' : r[sent'[i].msg] # 0
    BY <1>2, <1>6, <1>8, <2>1, <2>2, <2>3, <2>4, Presenting
  <2> QED
    BY <1>1, <1>3, <1>4, <1>5, <2>3, <2>5, AppMoves
<1>10. CASE active # {}
  <2>1. queue' = longer /\ UNCHANGED <<active, sent>>
    BY <1>7, <1>10 DEF AppReads, App!Show
  <2>2. Extends(sent, sent')
    BY <2>1 DEF Extends
  <2>3. /\ queue' \in Seq(Prompts) /\ active' \subseteq Prompts /\ sent' \in Seq(App!Verdicts)
        /\ \A m \in active' : reqId'[m] # 0
        /\ \A i \in DOMAIN queue' : reqId'[queue'[i]] # 0
        /\ \A i \in DOMAIN sent' : reqId'[sent'[i].msg] # 0
    BY <1>2, <1>6, <1>8, <2>1
  <2> QED
    BY <1>1, <1>3, <1>4, <1>5, <2>2, <2>3, AppMoves
<1> QED
  BY <1>9, <1>10

\* A decision on a prompt that was shown, and what is presented after it.
LEMMA CompleteKeeps ==
  ASSUME SessionInv, NEW d \in App!Verdicts, reqId[d.msg] # 0, App!PresentNext(queue, <<d>>),
         UNCHANGED <<reqId, serverVars, wire, out, restarts>>
  PROVE  SessionInv'
<1> USE DEF SessionInv
<1>1. PICK ds : ds = <<d>>
  OBVIOUS
<1>2. ds \in Seq(App!Verdicts) /\ \A i \in DOMAIN ds : ds[i] = d
  BY <1>1, SMTT(30)
<1>3. PICK r : r = reqId
  OBVIOUS
<1>4. \A i \in DOMAIN ds : r[ds[i].msg] # 0
  BY <1>2, <1>3
<1>5. /\ sent \in Seq(App!Verdicts) /\ queue \in Seq(Prompts) /\ App!PresentNext(queue, ds)
      /\ \A i \in DOMAIN queue : r[queue[i]] # 0
      /\ \A i \in DOMAIN sent : r[sent[i].msg] # 0
  BY <1>1, <1>3 DEF ShapeInv, ShownInv
<1>6. /\ queue' \in Seq(Prompts) /\ active' \subseteq Prompts /\ sent' \in Seq(App!Verdicts)
      /\ Extends(sent, sent')
      /\ \A m \in active' : r[m] # 0
      /\ \A i \in DOMAIN queue' : r[queue'[i]] # 0
      /\ \A i \in DOMAIN sent' : r[sent'[i].msg] # 0
  BY <1>2, <1>4, <1>5, Presenting
<1>7. /\ reqId' \in [Prompts -> Nat] /\ reqId' = r /\ reqId' = reqId /\ wire' \subseteq wire
      /\ \A m \in Prompts : reqId'[m] # 0 => Started(m) /\ reqId'[m] = req[m]
  BY <1>3 DEF ShapeInv, ShownInv
<1> QED
  BY <1>6, <1>7, AppMoves

\* A step of the app that decides nothing.
LEMMA IdleAppKeeps ==
  ASSUME SessionInv, UNCHANGED <<reqId, queue, active, sent, serverVars, wire, out, restarts>>
  PROVE  SessionInv'
<1>1. /\ reqId' \in [Prompts -> Nat] /\ queue' \in Seq(Prompts) /\ active' \subseteq Prompts
      /\ sent' \in Seq(App!Verdicts) /\ wire' \subseteq wire /\ Extends(sent, sent')
  BY DEF SessionInv, ShapeInv, Extends
<1>2. /\ \A m \in Prompts : reqId'[m] # 0 => Started(m) /\ reqId'[m] = req[m]
      /\ \A m \in active' : reqId'[m] # 0
      /\ \A i \in DOMAIN queue' : reqId'[queue'[i]] # 0
      /\ \A i \in DOMAIN sent' : reqId'[sent'[i].msg] # 0
  BY DEF SessionInv, ShownInv
<1> QED
  BY <1>1, <1>2, AppMoves

\* Whatever the user, a callback or a timer decides is about an open prompt.
LEMMA AppActsKeeps ==
  ASSUME SessionInv, ScopeInv, AppActs
  PROVE  SessionInv'
<1>1. UNCHANGED <<serverVars, wire, out, restarts>>
  BY DEF AppActs, linkVars
<1>2. \A m \in active : m \in Prompts /\ reqId[m] # 0
  BY DEF SessionInv, ShapeInv, ShownInv
<1>3. /\ \A m \in Prompts, a \in BOOLEAN, s \in Scopes \cup {App!NoScope} :
           /\ [msg |-> m, allow |-> a, scope |-> s] \in App!Verdicts
           /\ [msg |-> m, allow |-> a, scope |-> s].msg = m
      /\ \A m \in Prompts : App!Deny(m) \in App!Verdicts /\ App!Deny(m).msg = m
  BY SMTT(30) DEF App!Verdicts, App!Deny
<1>4. ASSUME NEW m \in active, NEW a \in BOOLEAN, NEW s \in Scopes \cup {App!NoScope}, UNCHANGED reqId,
             App!Complete([msg |-> m, allow |-> a, scope |-> s])
      PROVE  SessionInv'
  BY <1>1, <1>2, <1>3, <1>4, CompleteKeeps DEF App!Complete
<1>5. ASSUME NEW m \in active, UNCHANGED reqId, App!Complete(App!Deny(m)) PROVE SessionInv'
  BY <1>1, <1>2, <1>3, <1>5, CompleteKeeps DEF App!Complete
<1>6. ASSUME UNCHANGED <<reqId, queue, active, sent>> PROVE SessionInv'
  BY <1>1, <1>6, IdleAppKeeps
<1>7. ASSUME NEW m \in Prompts, NEW s \in Scopes \cup {App!NoScope}, App!SettleDeny(m, s) PROVE SessionInv'
  BY <1>4, <1>7 DEF App!SettleDeny
<1>8. ASSUME NEW m \in Prompts, NEW s \in Scopes, App!SettleAllow(m, s) PROVE SessionInv'
  BY <1>4, <1>6, <1>8 DEF App!SettleAllow
<1>9. ASSUME NEW a \in auth, NEW allowed \in BOOLEAN, App!CompleteBiometric(a, allowed)
      PROVE  SessionInv'
  <2>1. UNCHANGED reqId
    BY <1>9 DEF App!CompleteBiometric
  <2>2. CASE UNCHANGED <<queue, active, sent>>
    BY <1>6, <2>1, <2>2
  <2>3. CASE ~UNCHANGED <<queue, active, sent>>
    <3>1. PICK m \in active :
            App!Complete(IF allowed THEN [msg |-> m, allow |-> TRUE, scope |-> a.scope] ELSE App!Deny(m))
      BY <1>9, <2>3 DEF App!CompleteBiometric
    <3>2. CASE ~allowed
      BY <1>5, <2>1, <3>1, <3>2
    <3>3. CASE allowed
      <4>1. App!Complete([msg |-> m, allow |-> TRUE, scope |-> a.scope])
        BY <3>1, <3>3
      <4>2. a.scope \in Scopes \cup {App!NoScope}
        BY DEF ScopeInv
      <4> QED
        BY <1>4, <2>1, <4>1, <4>2
    <3> QED
      BY <3>2, <3>3
  <2> QED
    BY <2>2, <2>3
<1>10. ASSUME NEW m \in Prompts, App!TimerStep(m) PROVE SessionInv'
  BY <1>5, <1>6, <1>10 DEF App!TimerStep, App!DeadlinePasses, App!Expire
<1> QED
  BY <1>7, <1>8, <1>9, <1>10 DEF AppActs, App!UserStep, App!CallbackStep, App!NoScope

---------------------------------------------------------------------------
(* The server. *)

LEMMA ServerIdles ==
  ASSUME SessionInv, UNCHANGED <<serverVars, appVars, wire, restarts>>, out' \in Nat
  PROVE  SessionInv'
<1>1. UNCHANGED <<nextReq, pending, chan, routed, ppc, req, res>>
  BY DEF serverVars
<1>2. /\ DOMAIN chan' = Prompts /\ DOMAIN routed' = Conns /\ DOMAIN ppc' = Prompts /\ DOMAIN res' = Prompts
      /\ wire' \subseteq Prompts /\ \A q \in wire' : Started(q)
      /\ \A q \in Prompts : (ppc'[q] # "start") <=> (ppc[q] # "start")
      /\ \A i \in DOMAIN pending' : Started(pending'[i]) /\ req[pending'[i]] = i
  BY <1>1 DEF SessionInv, ShapeInv, ShownInv, PendingInv
<1>3. /\ \A c \in Conns : \A m \in routed'[c] : Started(m[1]) /\ Sent(m[1], m[2])
      /\ \A q \in Prompts : \A d \in chan'[q] : Started(q) /\ Sent(q, d)
      /\ \A q \in Prompts : res'[q] \in Decisions => Started(q) /\ Sent(q, res'[q])
  BY <1>1 DEF SessionInv, ReplyInv
<1> QED
  BY <1>1, <1>2, <1>3, ServerMoves

LEMMA AppSendsKeeps ==
  ASSUME SessionInv, AppSends
  PROVE  SessionInv'
<1>1. PICK k : k = out + 1
  OBVIOUS
<1>2. k \in DOMAIN sent
  BY <1>1, SMTT(30) DEF AppSends, SessionInv, ShapeInv
<1>3. PICK v : v = sent[k]
  OBVIOUS
<1>4. PICK d : d = DecisionOf(v)
  OBVIOUS
<1>5. /\ \/ \E c \in Conns : Server!ReadDecision(c, reqId[v.msg], d)
         \/ UNCHANGED serverVars
      /\ out' = k /\ k \in Nat /\ UNCHANGED <<appVars, wire, restarts>>
  <2>1. k \in Nat
    BY <1>1, SMTT(30) DEF SessionInv, ShapeInv
  <2> QED
    BY <1>1, <1>3, <1>4, <2>1 DEF AppSends, DecisionOf
<1>6. CASE UNCHANGED serverVars
  BY <1>5, <1>6, ServerIdles
<1>7. ASSUME NEW c \in Conns, Server!ReadDecision(c, reqId[v.msg], d) PROVE SessionInv'
  <2> USE DEF SessionInv
  <2>1. /\ UNCHANGED <<nextReq, req, ppc, res, chan>>
        /\ IF reqId[v.msg] \in DOMAIN pending
             THEN /\ routed' = [routed EXCEPT ![c] = {<<pending[reqId[v.msg]], d>>}]
                  /\ pending' = [i \in DOMAIN pending \ {reqId[v.msg]} |-> pending[i]]
             ELSE UNCHANGED <<routed, pending>>
    BY <1>7 DEF Server!ReadDecision, Server!promptVars, Server!Restrict
  <2>2. \A i \in DOMAIN pending' : Started(pending'[i]) /\ req[pending'[i]] = i
    BY <2>1 DEF PendingInv
  <2>3. DOMAIN routed' = Conns /\ \A b \in Conns : b # c => routed'[b] = routed[b]
    BY <2>1 DEF ShapeInv
  <2>4. \A m \in routed'[c] : Started(m[1]) /\ Sent(m[1], m[2])
    <3>1. CASE reqId[v.msg] \notin DOMAIN pending
      BY <2>1, <3>1 DEF ReplyInv
    <3>2. CASE reqId[v.msg] \in DOMAIN pending
      <4>1. PICK p : p = pending[reqId[v.msg]]
        OBVIOUS
      <4>2. Started(p) /\ req[p] = reqId[v.msg]
        BY <3>2, <4>1 DEF PendingInv
      <4>3. v.msg \in Prompts /\ reqId[v.msg] # 0
        BY <1>2, <1>3, VerdictsName DEF ShapeInv, ShownInv
      <4>4. Started(v.msg) /\ req[v.msg] = reqId[v.msg]
        BY <4>3 DEF ShownInv
      <4>5. restarts = 0 => v.msg = p
        BY <4>2, <4>3, <4>4 DEF IdInv, Started
      <4>6. Sent(p, d)
        BY <1>2, <1>3, <1>4, <4>2, <4>5 DEF Sent
      <4>7. routed'[c] = {<<p, d>>}
        BY <2>1, <3>2, <4>1 DEF ShapeInv
      <4>8. \A m \in routed'[c] : m[1] = p /\ m[2] = d
        BY <4>7, SMTT(30)
      <4> QED
        BY <4>2, <4>6, <4>8
    <3> QED
      BY <3>1, <3>2
  <2>5. \A b \in Conns : \A m \in routed'[b] : Started(m[1]) /\ Sent(m[1], m[2])
    BY <2>3, <2>4 DEF ReplyInv
  <2>6. /\ DOMAIN chan' = Prompts /\ DOMAIN ppc' = Prompts /\ DOMAIN res' = Prompts
        /\ wire' \subseteq Prompts /\ \A q \in wire' : Started(q)
        /\ \A q \in Prompts : (ppc'[q] # "start") <=> (ppc[q] # "start")
        /\ \A q \in Prompts : \A e \in chan'[q] : Started(q) /\ Sent(q, e)
        /\ \A q \in Prompts : res'[q] \in Decisions => Started(q) /\ Sent(q, res'[q])
    BY <1>5, <2>1 DEF ShapeInv, ShownInv, ReplyInv
  <2> HIDE DEF SessionInv
  <2> QED
    BY <1>5, <2>1, <2>2, <2>3, <2>5, <2>6, ServerMoves
<1> QED
  BY <1>5, <1>6, <1>7

LEMMA ConnectingKeeps ==
  ASSUME SessionInv, NEW c \in Conns, Connecting(c)
  PROVE  SessionInv'
<1> USE DEF SessionInv
<1>1. UNCHANGED <<appVars, wire, out, restarts>>
  BY DEF Connecting, linkVars
<1>2. UNCHANGED <<nextReq, req, ppc, res, pending>>
  BY DEF Connecting, Server!Handshake, Server!TakeGeneration, Server!Register, Server!Deliver,
         Server!ReadEnds, Server!Cleanup, Server!Invalidate, Server!promptVars
<1>3. \/ UNCHANGED <<chan, routed>>
      \/ /\ chan' = [q \in Prompts |-> chan[q] \cup {m[2] : m \in {x \in routed[c] : x[1] = q}}]
         /\ routed' = [routed EXCEPT ![c] = {}]
  BY DEF Connecting, Server!Handshake, Server!TakeGeneration, Server!Register, Server!Deliver,
         Server!ReadEnds, Server!Cleanup, Server!Invalidate
<1>4. /\ DOMAIN chan' = Prompts /\ DOMAIN routed' = Conns
      /\ \A b \in Conns : routed'[b] \subseteq routed[b]
      /\ \A q \in Prompts : \A d \in chan'[q] : d \in chan[q] \/ \E m \in routed[c] : m[1] = q /\ m[2] = d
  <2>1. CASE UNCHANGED <<chan, routed>>
    BY <2>1 DEF ShapeInv
  <2>2. CASE /\ chan' = [q \in Prompts |-> chan[q] \cup {m[2] : m \in {x \in routed[c] : x[1] = q}}]
             /\ routed' = [routed EXCEPT ![c] = {}]
    <3>1. DOMAIN chan' = Prompts /\ DOMAIN routed' = Conns
      BY <2>2 DEF ShapeInv
    <3>2. ASSUME NEW b \in Conns PROVE routed'[b] \subseteq routed[b]
      BY <2>2 DEF ShapeInv
    <3>3. ASSUME NEW q \in Prompts, NEW d \in chan'[q]
          PROVE  d \in chan[q] \/ \E m \in routed[c] : m[1] = q /\ m[2] = d
      BY <2>2
    <3> QED
      BY <3>1, <3>2, <3>3
  <2> QED
    BY <1>3, <2>1, <2>2
<1>5. /\ DOMAIN ppc' = Prompts /\ DOMAIN res' = Prompts /\ out' \in Nat
      /\ wire' \subseteq Prompts /\ \A q \in wire' : Started(q)
      /\ \A q \in Prompts : (ppc'[q] # "start") <=> (ppc[q] # "start")
      /\ \A i \in DOMAIN pending' : Started(pending'[i]) /\ req[pending'[i]] = i
      /\ \A q \in Prompts : res'[q] \in Decisions => Started(q) /\ Sent(q, res'[q])
  BY <1>1, <1>2 DEF ShapeInv, ShownInv, PendingInv, ReplyInv
<1>6. /\ \A b \in Conns : \A m \in routed'[b] : Started(m[1]) /\ Sent(m[1], m[2])
      /\ \A q \in Prompts : \A d \in chan'[q] : Started(q) /\ Sent(q, d)
  <2>1. /\ \A b \in Conns : \A m \in routed[b] : Started(m[1]) /\ Sent(m[1], m[2])
        /\ \A q \in Prompts : \A d \in chan[q] : Started(q) /\ Sent(q, d)
    BY DEF ReplyInv
  <2> HIDE DEF SessionInv
  <2>2. ASSUME NEW q \in Prompts, NEW d \in chan'[q] PROVE Started(q) /\ Sent(q, d)
    <3>1. CASE d \in chan[q]
      BY <2>1, <3>1
    <3>2. CASE \E m \in routed[c] : m[1] = q /\ m[2] = d
      BY <2>1, <3>2
    <3> QED
      BY <1>4, <2>2, <3>1, <3>2
  <2>3. \A b \in Conns : \A m \in routed'[b] : Started(m[1]) /\ Sent(m[1], m[2])
    BY <1>4, <2>1
  <2> QED
    BY <2>2, <2>3
<1> HIDE DEF SessionInv
<1> QED
  BY <1>1, <1>2, <1>4, <1>5, <1>6, ServerMoves

\* prompt_and_wait() takes a new id: nothing was shown for it.
LEMMA TakeRequestIdKeeps ==
  ASSUME SessionInv, NEW q \in Prompts, Server!TakeRequestId(q), UNCHANGED <<appVars, wire, out, restarts>>
  PROVE  SessionInv'
<1> USE DEF SessionInv
<1>1. /\ UNCHANGED <<res, pending, chan, routed>> /\ ppc[q] = "start" /\ nextReq' = nextReq + 1
      /\ req' = [req EXCEPT ![q] = nextReq] /\ ppc' = [ppc EXCEPT ![q] = "insert"]
  BY DEF Server!TakeRequestId, Server!PromptGoTo
<1>2. UNCHANGED <<reqId, queue, active, sent>>
  BY DEF appVars
<1>3. /\ req \in [Prompts -> Nat] /\ DOMAIN ppc = Prompts /\ nextReq \in Nat /\ nextReq # 0
  BY DEF ShapeInv
<1>4. /\ req' \in [Prompts -> Nat] /\ req'[q] = nextReq /\ DOMAIN ppc' = Prompts /\ ppc'[q] # "start"
      /\ \A p \in Prompts : p # q => req'[p] = req[p] /\ ppc'[p] = ppc[p]
  BY <1>1, <1>3
<1>5. ~Started(q) /\ Started(q)' /\ \A p : p # q => (Started(p)' <=> Started(p))
  BY <1>1, <1>4 DEF Started
<1>6. \A p : Started(p) => Started(p)' /\ p \in Prompts /\ req'[p] = req[p]
  BY <1>4, <1>5 DEF Started
<1>7. Extends(sent, sent')
  BY <1>2 DEF Extends
<1>8. \A p, d : Started(p) /\ Sent(p, d) => Sent(p, d)'
  <2> SUFFICES ASSUME NEW p, Started(p) PROVE \A d : Sent(p, d) => Sent(p, d)'
    OBVIOUS
  <2> QED
    BY <1>2, <1>6, <1>7, SentKept
<1>9. ShapeInv'
  <2>1. nextReq' \in Nat \ {0}
    BY <1>1, <1>3, SMTT(30)
  <2> QED
    BY <1>1, <1>2, <1>4, <2>1 DEF ShapeInv
<1>10. IdInv'
  <2>1. \A p \in Prompts : Started(p)' => req'[p] # 0
    BY <1>3, <1>4, <1>5 DEF IdInv
  <2>2. ASSUME restarts = 0, NEW p \in Prompts, Started(p)' PROVE req'[p] < nextReq'
    <3>1. CASE p = q
      BY <1>1, <1>3, <1>4, <3>1, SMTT(30)
    <3>2. CASE p # q
      <4>1. req[p] < nextReq /\ req[p] \in Nat /\ req'[p] = req[p]
        BY <1>3, <1>4, <1>5, <2>2, <3>2 DEF IdInv
      <4> QED
        BY <1>1, <1>3, <4>1, SMTT(30)
    <3> QED
      BY <3>1, <3>2
  <2>3. ASSUME restarts = 0, NEW p \in Prompts, p # q, Started(p)' PROVE req'[p] # req'[q]
    <3>1. req[p] < nextReq /\ req[p] \in Nat /\ req'[p] = req[p]
      BY <1>3, <1>4, <1>5, <2>3 DEF IdInv
    <3> QED
      BY <1>3, <1>4, <3>1, SMTT(30)
  <2>4. ASSUME restarts = 0, NEW p \in Prompts, NEW o \in Prompts, Started(p)', Started(o)', req'[p] = req'[o]
        PROVE  p = o
    <3>1. CASE p # q /\ o # q
      BY <1>4, <1>5, <2>4, <3>1 DEF IdInv
    <3>2. CASE p = q \/ o = q
      BY <2>3, <2>4, <3>2
    <3> QED
      BY <3>1, <3>2
  <2> QED
    BY <2>1, <2>2, <2>4 DEF IdInv
<1>11. ShownInv'
  BY <1>2, <1>6 DEF ShownInv
<1>12. PendingInv'
  BY <1>1, <1>6 DEF PendingInv
<1>13. ReplyInv'
  <2>1. \A c \in Conns : \A m \in routed'[c] : Started(m[1])' /\ Sent(m[1], m[2])'
    <3> SUFFICES ASSUME NEW c \in Conns, NEW m \in routed[c] PROVE Started(m[1])' /\ Sent(m[1], m[2])'
      BY <1>1
    <3>1. Started(m[1]) /\ Sent(m[1], m[2])
      BY DEF ReplyInv
    <3> HIDE DEF SessionInv
    <3> QED
      BY <1>6, <1>8, <3>1
  <2>2. \A p \in Prompts : \A d \in chan'[p] : Started(p)' /\ Sent(p, d)'
    BY <1>1, <1>6, <1>8 DEF ReplyInv
  <2>3. \A p \in Prompts : res'[p] \in Decisions => Started(p)' /\ Sent(p, res[p])'
    BY <1>1, <1>6, <1>8 DEF ReplyInv
  <2> QED
    BY <2>1, <2>2, <2>3 DEF ReplyInv
<1> QED
  BY <1>9, <1>10, <1>11, <1>12, <1>13

\* The other steps of prompt_and_wait(): the result comes off the call's channel.
LEMMA PromptingKeeps ==
  ASSUME SessionInv, NEW q \in Prompts, Prompting(q)
  PROVE  SessionInv'
<1>1. UNCHANGED <<appVars, out, restarts>> /\ Server!PromptStep(q)
  BY DEF Prompting
<1>2. CASE Server!TakeRequestId(q)
  <2>1. UNCHANGED wire
    BY <1>2 DEF Prompting, Server!TakeRequestId
  <2> QED
    BY <1>1, <1>2, <2>1, TakeRequestIdKeeps
<1>3. CASE ~Server!TakeRequestId(q)
  <2> USE DEF SessionInv
  <2>1. DOMAIN ppc = Prompts /\ DOMAIN res = Prompts
    BY DEF ShapeInv
  <2>2. /\ UNCHANGED <<nextReq, req, chan, routed>>
        /\ ppc[q] # "start"
        /\ \E l \in {"send", "unsent", "wait", "expired", "done"} : ppc' = [ppc EXCEPT ![q] = l]
    BY <1>1, <1>3
       DEF Server!PromptStep, Server!InsertPending, Server!SendPrompt, Server!GiveUpUnsent,
           Server!ReceiveDecision, Server!TimeOut, Server!GiveUpExpired, Server!PromptGoTo, Server!Return
  <2>3. \/ UNCHANGED res
        \/ res' = [res EXCEPT ![q] = NoApp] \/ res' = [res EXCEPT ![q] = Timeout]
        \/ \E d \in chan[q] : res' = [res EXCEPT ![q] = d]
    BY <1>1, <1>3
       DEF Server!PromptStep, Server!InsertPending, Server!SendPrompt, Server!GiveUpUnsent,
           Server!ReceiveDecision, Server!TimeOut, Server!GiveUpExpired, Server!PromptGoTo, Server!Return
  <2>4. \/ UNCHANGED pending
        \/ pending' = [i \in DOMAIN pending \cup {req[q]} |-> IF i = req[q] THEN q ELSE pending[i]]
        \/ pending' = [i \in DOMAIN pending \ {req[q]} |-> pending[i]]
    BY <1>1, <1>3
       DEF Server!PromptStep, Server!InsertPending, Server!SendPrompt, Server!GiveUpUnsent,
           Server!ReceiveDecision, Server!TimeOut, Server!GiveUpExpired, Server!Restrict
  <2>5. Started(q)
    BY <2>2 DEF Started
  <2>6. /\ DOMAIN ppc' = Prompts /\ \A p \in Prompts : (ppc'[p] # "start") <=> (ppc[p] # "start")
    <3>1. PICK l \in {"send", "unsent", "wait", "expired", "done"} : ppc' = [ppc EXCEPT ![q] = l]
      BY <2>2
    <3>2. l # "start" /\ DOMAIN ppc' = Prompts /\ ppc'[q] = l /\ \A p \in Prompts : p # q => ppc'[p] = ppc[p]
      BY <2>1, <3>1
    <3> QED
      BY <2>2, <3>2
  <2>7. \A i \in DOMAIN pending' : Started(pending'[i]) /\ req[pending'[i]] = i
    <3>1. CASE pending' = [i \in DOMAIN pending \cup {req[q]} |-> IF i = req[q] THEN q ELSE pending[i]]
      BY <2>5, <3>1 DEF PendingInv
    <3>2. CASE pending' = [i \in DOMAIN pending \ {req[q]} |-> pending[i]]
      BY <3>2 DEF PendingInv
    <3>3. CASE UNCHANGED pending
      BY <3>3 DEF PendingInv
    <3> QED
      BY <2>4, <3>1, <3>2, <3>3
  <2>8. /\ DOMAIN res' = Prompts
        /\ \A p \in Prompts : res'[p] = res[p] \/ res'[p] \notin Decisions \/ (p = q /\ res'[p] \in chan[p])
    <3>1. NoApp \notin Decisions /\ Timeout \notin Decisions
      BY SessionAssumption
    <3> HIDE DEF SessionInv
    <3>2. CASE UNCHANGED res
      BY <2>1, <3>2
    <3>3. ASSUME NEW v, res' = [res EXCEPT ![q] = v]
          PROVE  DOMAIN res' = Prompts /\ \A p \in Prompts : IF p = q THEN res'[p] = v ELSE res'[p] = res[p]
      BY <2>1, <3>3
    <3>4. CASE res' = [res EXCEPT ![q] = NoApp]
      BY <3>1, <3>3, <3>4
    <3>5. CASE res' = [res EXCEPT ![q] = Timeout]
      BY <3>1, <3>3, <3>5
    <3>6. ASSUME NEW d \in chan[q], res' = [res EXCEPT ![q] = d]
          PROVE  /\ DOMAIN res' = Prompts
                 /\ \A p \in Prompts : res'[p] = res[p] \/ (p = q /\ res'[p] \in chan[p])
      BY <3>3, <3>6
    <3> QED
      BY <2>3, <3>2, <3>4, <3>5, <3>6
  <2>9. \A p \in Prompts : res'[p] \in Decisions => Started(p) /\ Sent(p, res'[p])
    BY <2>8 DEF ReplyInv
  <2>10. wire' \subseteq Prompts /\ \A p \in wire' : Started(p)
    <3>1. wire' \subseteq wire \cup {q}
      BY DEF Prompting
    <3> QED
      BY <2>5, <3>1 DEF ShapeInv, ShownInv
  <2>11. /\ DOMAIN chan' = Prompts /\ DOMAIN routed' = Conns /\ out' \in Nat
         /\ \A c \in Conns : \A m \in routed'[c] : Started(m[1]) /\ Sent(m[1], m[2])
         /\ \A p \in Prompts : \A d \in chan'[p] : Started(p) /\ Sent(p, d)
    BY <1>1, <2>2 DEF ShapeInv, ReplyInv
  <2> HIDE DEF SessionInv
  <2> QED
    BY <1>1, <2>2, <2>6, <2>7, <2>8, <2>9, <2>10, <2>11, ServerMoves
<1> QED
  BY <1>2, <1>3

LEMMA RestartKeeps ==
  ASSUME SessionInv, Restart
  PROVE  SessionInv'
<1> USE DEF SessionInv
<1>1. /\ nextReq' = 1 /\ pending' = [i \in {} |-> i] /\ chan' = [q \in Prompts |-> {}]
      /\ routed' = [c \in Conns |-> {}] /\ UNCHANGED <<req, res, appVars, wire, out>>
      /\ ppc' = [q \in Prompts |-> IF ppc[q] = "start" THEN "start" ELSE "done"]
      /\ restarts' = restarts + 1
  BY DEF Restart
<1>2. UNCHANGED <<reqId, queue, active, sent>>
  BY <1>1 DEF appVars
<1>3. restarts' \in Nat /\ restarts' # 0 /\ nextReq' \in Nat \ {0}
  <2>1. restarts \in Nat
    BY DEF ShapeInv
  <2> QED
    BY <1>1, <2>1, SMTT(30)
<1>4. DOMAIN ppc' = Prompts /\ \A q : Started(q)' <=> Started(q)
  <2>1. DOMAIN ppc' = Prompts /\ \A q \in Prompts : (ppc'[q] # "start") <=> (ppc[q] # "start")
    BY <1>1
  <2> QED
    BY <2>1 DEF Started
<1>5. \A q, d : Sent(q, d) => Sent(q, d)'
  BY <1>1, <1>2, <1>3 DEF Sent
<1>6. ShapeInv'
  BY <1>1, <1>2, <1>3, <1>4 DEF ShapeInv
<1>7. IdInv'
  BY <1>1, <1>3, <1>4 DEF IdInv
<1>8. ShownInv'
  BY <1>1, <1>2, <1>4 DEF ShownInv
<1>9. PendingInv'
  BY <1>1 DEF PendingInv
<1>10. ReplyInv'
  <2>1. \A c \in Conns : routed'[c] = {}
    BY <1>1
  <2>2. \A q \in Prompts : chan'[q] = {}
    BY <1>1
  <2> QED
    BY <1>1, <1>4, <1>5, <2>1, <2>2 DEF ReplyInv
<1> QED
  BY <1>6, <1>7, <1>8, <1>9, <1>10

---------------------------------------------------------------------------
LEMMA ScopesKept ==
  ASSUME ScopeInv, [Next]_sessionVars
  PROVE  ScopeInv'
<1>1. CASE auth' \subseteq auth
  BY <1>1 DEF ScopeInv
<1>2. CASE \E m \in Prompts, s \in Scopes : auth' = auth \cup {[msg |-> m, scope |-> s]}
  <2>1. PICK m \in Prompts, s \in Scopes : auth' = auth \cup {[msg |-> m, scope |-> s]}
    BY <1>2
  <2>2. [msg |-> m, scope |-> s].scope = s
    BY SMTT(30)
  <2> QED
    BY <2>1, <2>2 DEF ScopeInv
<1>3. UNCHANGED appVars => auth' \subseteq auth
  BY DEF appVars
<1>4. ASSUME NEW q \in Prompts, AppReads(q) PROVE auth' \subseteq auth
  BY <1>4 DEF AppReads, App!Show
<1>5. ASSUME AppActs
      PROVE  auth' \subseteq auth \/ \E m \in Prompts, s \in Scopes : auth' = auth \cup {[msg |-> m, scope |-> s]}
  BY <1>5 DEF AppActs, App!UserStep, App!CallbackStep, App!TimerStep, App!SettleDeny, App!SettleAllow,
              App!CompleteBiometric, App!DeadlinePasses, App!Expire
<1> QED
  BY <1>1, <1>2, <1>3, <1>4, <1>5 DEF Next, sessionVars, Prompting, Connecting, AppSends, Restart

LEMMA SessionStarts ==
  ASSUME Init
  PROVE  SessionInv /\ ScopeInv
<1>1. /\ nextReq = 1 /\ pending = [i \in {} |-> i] /\ chan = [q \in Prompts |-> {}]
      /\ routed = [c \in Conns |-> {}] /\ ppc = [q \in Prompts |-> "start"]
      /\ req = [q \in Prompts |-> 0] /\ res = [q \in Prompts |-> NoResult]
      /\ reqId = [q \in Prompts |-> 0] /\ queue = << >> /\ active = {} /\ sent = << >> /\ auth = {}
      /\ wire = {} /\ out = 0 /\ restarts = 0
  BY DEF Init, Server!Init, App!PresenterInit
<1>2. /\ nextReq \in Nat \ {0} /\ out \in Nat /\ restarts \in Nat
      /\ queue \in Seq(Prompts) /\ sent \in Seq(App!Verdicts) /\ DOMAIN queue = {} /\ DOMAIN sent = {}
      /\ req \in [Prompts -> Nat] /\ reqId \in [Prompts -> Nat]
  BY <1>1, SMTT(30)
<1>3. ShapeInv /\ PendingInv /\ ScopeInv
  BY <1>1, <1>2 DEF ShapeInv, PendingInv, ScopeInv
<1>4. \A q : ~Started(q)
  BY <1>1 DEF Started
<1>5. IdInv
  BY <1>4 DEF IdInv
<1>6. ShownInv
  BY <1>1, <1>2 DEF ShownInv
<1>7. ReplyInv
  <2>1. \A c \in Conns : routed[c] = {}
    BY <1>1
  <2>2. \A q \in Prompts : chan[q] = {} /\ res[q] \notin Decisions
    BY <1>1, SessionAssumption
  <2> QED
    BY <2>1, <2>2 DEF ReplyInv
<1> QED
  BY <1>3, <1>5, <1>6, <1>7 DEF SessionInv

(* A decision stays with its request id from the window of the app to the  *)
(* call of prompt_and_wait() that returns it.                              *)
THEOREM SessionInvariant == Spec => [](SessionInv /\ ScopeInv)
<1>1. Init => SessionInv /\ ScopeInv
  BY SessionStarts
<1>2. SessionInv /\ ScopeInv /\ [Next]_sessionVars => (SessionInv /\ ScopeInv)'
  <2> SUFFICES ASSUME SessionInv, ScopeInv, [Next]_sessionVars PROVE SessionInv'
    BY ScopesKept
  <2>1. CASE UNCHANGED sessionVars
    <3>1. UNCHANGED <<serverVars, appVars, wire, restarts>> /\ out' \in Nat
      BY <2>1 DEF sessionVars, linkVars, SessionInv, ShapeInv
    <3> QED
      BY <3>1, ServerIdles
  <2>2. CASE Next
    BY <2>2, PromptingKeeps, AppReadsKeeps, ConnectingKeeps, AppSendsKeeps, AppActsKeeps, RestartKeeps
       DEF Next
  <2> QED
    BY <2>1, <2>2
<1> QED
  BY <1>1, <1>2, PTL DEF Spec

(* What a call of prompt_and_wait() returns is a decision that the app     *)
(* made for the call's request id, and without a restart for this call.    *)
THEOREM AnswersRoute == Spec => []AnswersFindTheirCall
<1>1. SessionInv => AnswersFindTheirCall
  BY DEF SessionInv, ReplyInv, Sent, DecisionOf, AnswersFindTheirCall
<1> QED
  BY <1>1, SessionInvariant, PTL
===========================================================================
