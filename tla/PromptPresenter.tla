-------------------------- MODULE PromptPresenter --------------------------
(***************************************************************************)
(* The app's side of a prompt (PromptPresenter.swift): one window at a     *)
(* time, later prompts queued with the same bounded lifetime, a Touch ID   *)
(* check between the user's Allow and the decision where the prompt asks   *)
(* for it.  All of it runs on the main actor; timers and biometric         *)
(* callbacks arrive at any later time.                                     *)
(***************************************************************************)
EXTENDS Naturals, Sequences, FiniteSets, FiniteSetsExt

CONSTANTS
  Msgs,          \* prompt messages
  TouchId,       \* those whose enforcement is touchid
  Scopes         \* the scopes the user may choose

ASSUME TouchIdAssumption == TouchId \subseteq Msgs

NoScope == "none"
Verdicts == [msg : Msgs, allow : BOOLEAN, scope : Scopes \cup {NoScope}]

VARIABLES
  reqId,         \* PromptMsg.req_id, 0 before the prompt is shown
  queue,         \* queue
  active,        \* active: {} is nil
  settling,      \* ActivePrompt.isSettling
  auth,          \* biometric evaluations whose callback is outstanding
  late,          \* the prompts whose deadline has passed
  sent,          \* the decisions handed to the client, in order
  chosen,        \* the prompts whose window the user closed with Allow
  passed         \* the prompts whose biometric evaluation succeeded

presenterVars == <<reqId, queue, active, settling, auth, late, sent, chosen, passed>>

PresenterInit ==
  /\ reqId = [m \in Msgs |-> 0]
  /\ queue = << >>
  /\ active = {}
  /\ settling = FALSE
  /\ auth = {}
  /\ late = {}
  /\ sent = << >>
  /\ chosen = {}
  /\ passed = {}

---------------------------------------------------------------------------
Deny(m) == [msg |-> m, allow |-> FALSE, scope |-> NoScope]

(* presentNextIfNeeded() with the queue q after the decisions ds have been *)
(* sent: prompts past their deadline are denied, the first other one is    *)
(* shown.                                                                  *)
PresentNext(q, ds) ==
  LET live == {i \in DOMAIN q : q[i] \notin late}
      k == IF live = {} THEN Len(q) + 1 ELSE Min(live)
  IN  /\ active' = {q[i] : i \in {k} \cap DOMAIN q}
      /\ queue' = SubSeq(q, k + 1, Len(q))
      /\ sent' = sent \o ds \o [i \in 1 .. k - 1 |-> Deny(q[i])]
      /\ settling' = FALSE

(* show(prompt) *)
Show(m, id) ==
  /\ reqId[m] = 0
  /\ reqId' = [reqId EXCEPT ![m] = id]
  /\ IF active = {}
       THEN PresentNext(Append(queue, m), << >>)
       ELSE queue' = Append(queue, m) /\ UNCHANGED <<active, sent, settling>>
  /\ UNCHANGED <<auth, late, chosen, passed>>

(* complete(session, decision) *)
Complete(d) == PresentNext(queue, <<d>>)

(* The user denies, or closes the window. *)
SettleDeny(m, scope) ==
  /\ m \in active
  /\ ~settling
  /\ Complete([msg |-> m, allow |-> FALSE, scope |-> scope])
  /\ UNCHANGED <<reqId, auth, late, chosen, passed>>

(* The user allows: a touchid prompt waits for the biometric evaluation. *)
SettleAllow(m, scope) ==
  /\ m \in active
  /\ ~settling
  /\ chosen' = chosen \cup {m}
  /\ IF m \in TouchId
       THEN /\ settling' = TRUE
            /\ auth' = auth \cup {[msg |-> m, scope |-> scope]}
            /\ UNCHANGED <<queue, active, sent>>
       ELSE /\ Complete([msg |-> m, allow |-> TRUE, scope |-> scope])
            /\ UNCHANGED auth
  /\ UNCHANGED <<reqId, late, passed>>

(* Mutant: a biometric callback completes whatever prompt is active. *)
CompleteBiometricAny(a, allowed) ==
  /\ a \in auth
  /\ auth' = auth \ {a}
  /\ passed' = IF allowed THEN passed \cup {a.msg} ELSE passed
  /\ IF active # {}
       THEN \E m \in active :
              Complete(IF allowed THEN [msg |-> m, allow |-> TRUE, scope |-> a.scope] ELSE Deny(m))
       ELSE UNCHANGED <<queue, active, sent, settling>>
  /\ UNCHANGED <<reqId, late, chosen>>

(* completeBiometric(): the callback is for a request id, and is dropped   *)
(* unless the prompt with that id is still active.                         *)
CompleteBiometric(a, allowed) ==
  /\ a \in auth
  /\ auth' = auth \ {a}
  /\ passed' = IF allowed THEN passed \cup {a.msg} ELSE passed
  /\ LET same == {m \in active : reqId[m] = reqId[a.msg]}
     IN  IF same = {}
           THEN UNCHANGED <<queue, active, sent, settling>>
           ELSE \E m \in same :
                  Complete(IF allowed THEN [msg |-> m, allow |-> TRUE, scope |-> a.scope]
                                      ELSE Deny(m))
  /\ UNCHANGED <<reqId, late, chosen>>

(* Time passes the deadline of a prompt that is queued or shown. *)
DeadlinePasses(m) ==
  /\ m \notin late
  /\ m \in active \/ \E i \in DOMAIN queue : queue[i] = m
  /\ late' = late \cup {m}
  /\ UNCHANGED <<reqId, queue, active, settling, auth, sent, chosen, passed>>

(* The timer of the shown prompt: expire() denies, whatever the user or    *)
(* Touch ID is doing.                                                      *)
Expire(m) ==
  /\ m \in active /\ m \in late
  /\ Complete(Deny(m))
  /\ UNCHANGED <<reqId, auth, late, chosen, passed>>

---------------------------------------------------------------------------
UserStep ==
  \E m \in Msgs :
    \/ \E s \in Scopes \cup {NoScope} : SettleDeny(m, s)
    \/ \E s \in Scopes : SettleAllow(m, s)

CallbackStep == \E a \in auth, allowed \in BOOLEAN : CompleteBiometric(a, allowed)

TimerStep(m) == DeadlinePasses(m) \/ Expire(m)

PresenterNext ==
  \/ \E m \in Msgs : Show(m, Cardinality({x \in Msgs : reqId[x] # 0}) + 1)
  \/ UserStep
  \/ CallbackStep
  \/ \E m \in Msgs : TimerStep(m)

PresenterSpec == PresenterInit /\ [][PresenterNext]_presenterVars

(* Time passes and the timers fire; the user and Touch ID may never react. *)
PresenterFairness == \A m \in Msgs : WF_presenterVars(TimerStep(m))
PresenterFairSpec == PresenterSpec /\ PresenterFairness

---------------------------------------------------------------------------
(* Properties. *)

(* Every variable keeps its type, and only a shown prompt settles. *)
PresenterTypeOK ==
  /\ reqId \in [Msgs -> Nat]
  /\ queue \in Seq(Msgs)
  /\ active \in SUBSET Msgs /\ Cardinality(active) <= 1
  /\ settling \in BOOLEAN /\ (settling => active # {})
  /\ auth \in SUBSET [msg : Msgs, scope : Scopes]
  /\ late \in SUBSET Msgs
  /\ sent \in Seq(Verdicts)
  /\ chosen \in SUBSET Msgs
  /\ passed \in SUBSET Msgs

(* Every prompt that was shown is queued, active or decided, in one place  *)
(* only and once only: no decision is sent twice and no prompt is lost.    *)
OneDecisionEach ==
  LET Queued(m) == {i \in DOMAIN queue : queue[i] = m}
      Decided(m) == {i \in DOMAIN sent : sent[i].msg = m}
  IN  \A m \in Msgs :
        Cardinality(Queued(m)) + Cardinality(active \cap {m}) + Cardinality(Decided(m))
          = IF reqId[m] = 0 THEN 0 ELSE 1

(* An allow goes out only for a prompt that the user allowed and, where    *)
(* the prompt asks for Touch ID, whose own evaluation succeeded: a late    *)
(* callback never allows the prompt that took the window over.             *)
AllowIsTheUsers ==
  \A i \in DOMAIN sent :
    sent[i].allow => /\ sent[i].msg \in chosen
                     /\ sent[i].msg \in TouchId => sent[i].msg \in passed

(* Prompts are presented in the order in which they came: what is queued   *)
(* came after what is shown or decided.                                    *)
FirstComeFirstShown ==
  \A i \in DOMAIN queue :
    /\ \A m \in active : reqId[m] < reqId[queue[i]]
    /\ \A j \in DOMAIN sent : reqId[sent[j].msg] < reqId[queue[i]]

(* Each prompt is decided once, in its turn, and allowed by the user only. *)
PromptsAreDecided ==
  PresenterTypeOK /\ OneDecisionEach /\ AllowIsTheUsers /\ FirstComeFirstShown

(* Every prompt is decided, although neither the user nor Touch ID may     *)
(* ever react ("later requests stay queued with the same bounded           *)
(* lifetime"): no prompt that was shown stays open, so that again and      *)
(* again none is.                                                          *)
EveryPromptDecided ==
  []<>(\A m \in Msgs : reqId[m] # 0 => \E i \in DOMAIN sent : sent[i].msg = m)
=============================================================================
