------------------------- MODULE SocketAgentProofs -------------------------
(* Proofs about SocketAgent, for every set of requests, admins, objects    *)
(* and policies, and about AgentSession: the agent with its socket server  *)
(* implements the agent alone and the server alone, so what is proved of   *)
(* either holds of the two together.                                       *)
EXTENDS AgentSession, TLAPS

(* The leaves are first-order steps; those with arithmetic or records cite SMT. *)
USE ZenonT(60)

Asking == {"load", "lookup", "join", "follow"} \cup Leading

(* What the locals of a request say about each other at each label.        *)
RequestInv ==
  \A r \in Requests :
    /\ pc[r] \in Asking => enf[r] \in Interactive
    /\ pc[r] \in {"check", "insert"} => reply[r].kind = "answer"
    /\ pc[r] = "insert" => reply[r].scope \in Lifetimes
    /\ reply[r].kind # "none" => pc[r] \in {"check", "insert", "complete", "remove", "done"}
    /\ decision[r] # "none" => pc[r] = "done"
    /\ result[r] # "none" => pc[r] \in {"remove", "done"}
    /\ pc[r] = "remove" => result[r] # "none"
    /\ result[r] = "allow" => reply[r].kind = "answer" /\ reply[r].allow

(* Only set_policy_mode() goes on to set the mode. *)
AdminInv == \A a \in Admins : apc[a] = "set" => op[a].kind = "mode"

ControlInv == RequestInv /\ AdminInv

(* The map of flights holds exactly the leaders, each under its own key,   *)
(* and a follower's leader is leading or has finished.                     *)
LeadersFly ==
  \A r \in Requests :
    pc[r] \in Leading => /\ FlightKey(r) \in DOMAIN flights
                         /\ flights[FlightKey(r)] = r
                         /\ flight[r] = r

FlightsLed ==
  \A k \in DOMAIN flights : pc[flights[k]] \in Leading /\ FlightKey(flights[k]) = k

FollowersLed ==
  \A r \in Requests :
    flight[r] # r => /\ pc[r] \in {"follow", "done"}
                     /\ pc[flight[r]] \in Leading \cup {"done"}
                     /\ Key(flight[r]) = Key(r)
                     /\ gen[flight[r]] = gen[r]
                     /\ decision[r] # "none" => decision[r] = result[flight[r]]

FlightInv == LeadersFly /\ FlightsLed /\ FollowersLed

(* No request is ahead of the generation. *)
GenerationInv == \A r \in Requests : gen[r] <= generation

AgentInv ==
  /\ TypeOK /\ ControlInv /\ FlightInv /\ GenerationInv
  /\ GrantsAreExplicit /\ AllowsAreApproved

---------------------------------------------------------------------------
(* Type correctness. *)

(* Restricting the map of grants or the map of flights keeps its type.     *)
LEMMA RestrictGrants ==
  ASSUME TypeOK, NEW S \in SUBSET DOMAIN grants
  PROVE  /\ DOMAIN Restrict(grants, S) \in SUBSET GrantKeys
         /\ Restrict(grants, S) \in [DOMAIN Restrict(grants, S) -> Grant]
  BY DEF Restrict, TypeOK

LEMMA RestrictFlights ==
  ASSUME TypeOK, NEW S \in SUBSET DOMAIN flights
  PROVE  /\ DOMAIN Restrict(flights, S) \in SUBSET (GrantKeys \X Nat)
         /\ Restrict(flights, S) \in [DOMAIN Restrict(flights, S) -> Requests]
  BY DEF Restrict, TypeOK

LEMMA InitType == Init => TypeOK
  BY ObjectOfAssumption, RulesAssumption, SMTT(30)
  DEF Init, TypeOK, GrantKeys, Replies, NoAnswer, RequestLabels, Leading, AdminLabels,
      AdminOps, Modes, Enforcements

USE DEF agentVars, requestVars, adminVars

(* A step of a request keeps the types.  The key of a flight and the       *)
(* lifetime of a new grant are well typed because of what ControlInv says  *)
(* about the label the request is at.                                      *)
LEMMA RequestType ==
  ASSUME TypeOK, ControlInv, NEW r \in Requests, RequestStep(r)
  PROVE  TypeOK'
<1> USE ObjectOfAssumption DEF TypeOK, GoTo, Finish, Enforcements, RequestLabels, Leading
<1>1. pc[r] \in Asking => Key(r) \in GrantKeys /\ FlightKey(r) \in GrantKeys \X Nat
  BY DEF ControlInv, RequestInv, Key, FlightKey, GrantKeys
<1>2. CASE Decide(r)
  BY <1>2 DEF Decide
<1>3. CASE Evaluate(r)
  BY <1>3 DEF Evaluate, Effective, Status, Interactive, Modes
<1>4. CASE LoadGeneration(r)
  BY <1>4 DEF LoadGeneration
<1>5. /\ DOMAIN AfterLookup(Key(r)) \in SUBSET GrantKeys
      /\ AfterLookup(Key(r)) \in [DOMAIN AfterLookup(Key(r)) -> Grant]
  BY RestrictGrants DEF AfterLookup, Expired
<1>6. CASE CachedDecision(r)
  BY <1>5, <1>6 DEF CachedDecision, CachedAnswer
<1>7. CASE JoinFlight(r)
  BY <1>1, <1>5, <1>7, SMTT(30) DEF JoinFlight, CachedAnswer, Asking
<1>8. CASE AwaitFlight(r)
  BY <1>8 DEF AwaitFlight
<1>9. ASSUME NEW answer \in Answers \cup {Failure}, PromptReturns(r, answer)
      PROVE  TypeOK'
  BY <1>9 DEF PromptReturns, Replies
<1>10. CASE CheckGeneration(r)
  BY <1>10 DEF CheckGeneration
<1>11. CASE InsertGrant(r)
  <2>1. Key(r) \in GrantKeys
    BY <1>1, <1>11 DEF InsertGrant, Asking
  <2>2. reply[r].allow \in BOOLEAN /\ reply[r].scope \in Lifetimes
    BY <1>11, SMTT(30) DEF InsertGrant, ControlInv, RequestInv, Replies, Answers, NoAnswer, Failure
  <2>3. [allowed |-> reply[r].allow, lifetime |-> reply[r].scope, expired |-> FALSE] \in Grant
    BY <2>2 DEF Grant
  <2> QED
    BY <1>11, <2>1, <2>3 DEF InsertGrant, InsertDecision
<1>12. CASE CompleteFlight(r)
  BY <1>12 DEF CompleteFlight
<1>13. CASE RemoveFlight(r)
  <2>1. DOMAIN flights' \in SUBSET (GrantKeys \X Nat) /\ flights' \in [DOMAIN flights' -> Requests]
    BY <1>13, RestrictFlights DEF RemoveFlight
  <2> QED
    BY <1>13, <2>1 DEF RemoveFlight
<1> QED
  BY <1>2, <1>3, <1>4, <1>6, <1>7, <1>8, <1>9, <1>10, <1>11, <1>12, <1>13 DEF RequestStep

LEMMA AdminType ==
  ASSUME TypeOK, ControlInv, NEW a \in Admins, AdminStep(a)
  PROVE  TypeOK'
<1> USE DEF TypeOK, Begin, AdminGoTo, AdminLabels
<1>1. CASE BumpFirst(a)
  BY <1>1, SMTT(30) DEF BumpFirst
<1>2. CASE ClearGrants(a)
  <2>1. DOMAIN grants' \in SUBSET GrantKeys /\ grants' \in [DOMAIN grants' -> Grant]
    BY <1>2, RestrictGrants DEF ClearGrants
  <2> QED
    BY <1>2, <2>1 DEF ClearGrants
<1>3. CASE SetMode(a)
  <2>1. op[a].kind = "mode"
    BY <1>3 DEF SetMode, ControlInv, AdminInv
  <2>2. op[a].mode \in Modes
    BY <2>1 DEF AdminOps, Modes
  <2> QED
    BY <1>3, <2>2 DEF SetMode
<1>4. CASE ReplacePolicy(a)
  BY <1>4, RulesAssumption, SMTT(30) DEF ReplacePolicy, AdminOps
<1>5. CASE BumpAfter(a)
  BY <1>5, SMTT(30) DEF BumpAfter
<1>6. CASE ClearUntilLock(a)
  <2>1. DOMAIN grants' \in SUBSET GrantKeys /\ grants' \in [DOMAIN grants' -> Grant]
    BY <1>6, RestrictGrants DEF ClearUntilLock, LockBound
  <2> QED
    BY <1>6, <2>1 DEF ClearUntilLock, AdminOps
<1> QED
  BY <1>1, <1>2, <1>3, <1>4, <1>5, <1>6 DEF AdminStep

LEMMA EnvironmentType ==
  ASSUME TypeOK, Environment
  PROVE  TypeOK'
<1> USE DEF TypeOK
<1>1. CASE ActiveGrants
  <2>1. DOMAIN grants' \in SUBSET GrantKeys /\ grants' \in [DOMAIN grants' -> Grant]
    BY <1>1, RestrictGrants DEF ActiveGrants
  <2> QED
    BY <1>1, <2>1 DEF ActiveGrants
<1>2. ASSUME NEW k \in GrantKeys, GrantExpires(k)
      PROVE  TypeOK'
  <2>1. DOMAIN grants' \in SUBSET GrantKeys /\ grants' \in [DOMAIN grants' -> Grant]
    BY <1>2 DEF GrantExpires, Grant
  <2> QED
    BY <1>2, <2>1 DEF GrantExpires
<1>3. CASE ModeExpires
  BY <1>3 DEF ModeExpires, Modes
<1> QED
  BY <1>1, <1>2, <1>3 DEF Environment

---------------------------------------------------------------------------
(* The control invariant. *)

LEMMA InitControl == Init => ControlInv
  BY SMTT(30) DEF Init, ControlInv, RequestInv, AdminInv, Asking, Leading, NoAnswer

LEMMA RequestControl ==
  ASSUME TypeOK, ControlInv, NEW r \in Requests, RequestStep(r)
  PROVE  ControlInv'
<1> USE DEF TypeOK, ControlInv, RequestInv, GoTo, Finish, Asking, Leading
<1>1. AdminInv'
  BY DEF AdminInv, RequestStep, Decide, Evaluate, LoadGeneration, CachedDecision, JoinFlight,
         AwaitFlight, PromptReturns, CheckGeneration, InsertGrant, CompleteFlight, RemoveFlight
<1>2. CASE Decide(r)
  BY <1>1, <1>2 DEF Decide
<1>3. CASE Evaluate(r)
  BY <1>1, <1>3, SMTT(30) DEF Evaluate
<1>4. CASE LoadGeneration(r)
  BY <1>1, <1>4 DEF LoadGeneration
<1>5. CASE CachedDecision(r)
  BY <1>1, <1>5, SMTT(30) DEF CachedDecision
<1>6. CASE JoinFlight(r)
  BY <1>1, <1>6, SMTT(30) DEF JoinFlight
<1>7. CASE AwaitFlight(r)
  BY <1>1, <1>7 DEF AwaitFlight
<1>8. ASSUME NEW answer \in Answers \cup {Failure}, PromptReturns(r, answer)
      PROVE  ControlInv'
  BY <1>1, <1>8 DEF PromptReturns, Answers, Failure
<1>9. CASE CheckGeneration(r)
  <2>1. reply[r].scope \in Lifetimes \cup {"once"}
    BY SMTT(30) DEF Replies, Answers, NoAnswer, Failure
  <2> QED
    BY <1>1, <1>9, <2>1 DEF CheckGeneration
<1>10. CASE InsertGrant(r)
  BY <1>1, <1>10 DEF InsertGrant
<1>11. CASE CompleteFlight(r)
  <2>1. reply[r].allow => reply[r].kind = "answer"
    BY SMTT(30) DEF Replies, Answers, NoAnswer, Failure
  <2> QED
    BY <1>1, <1>11, <2>1 DEF CompleteFlight
<1>12. CASE RemoveFlight(r)
  BY <1>1, <1>12 DEF RemoveFlight
<1> QED
  BY <1>2, <1>3, <1>4, <1>5, <1>6, <1>7, <1>8, <1>9, <1>10, <1>11, <1>12 DEF RequestStep

(* Control operations and the clock leave requests and flights alone. *)
LEMMA Frame ==
  ASSUME (\E a \in Admins : AdminStep(a)) \/ Environment
  PROVE  UNCHANGED <<flights, result, requestVars>>
  BY DEF AdminStep, BumpFirst, ClearGrants, SetMode, ReplacePolicy, BumpAfter, ClearUntilLock,
         Environment, ActiveGrants, GrantExpires, ModeExpires

LEMMA AdminControl ==
  ASSUME TypeOK, ControlInv, NEW a \in Admins, AdminStep(a)
  PROVE  ControlInv'
<1>1. RequestInv'
  BY Frame DEF ControlInv, RequestInv
<1>2. AdminInv'
  BY DEF TypeOK, ControlInv, AdminInv, AdminStep, BumpFirst, ClearGrants, SetMode, ReplacePolicy,
         BumpAfter, ClearUntilLock, Begin, AdminGoTo
<1> QED
  BY <1>1, <1>2 DEF ControlInv

---------------------------------------------------------------------------
(* Flights. *)

LEMMA InitFlight == Init => FlightInv
  BY SMTT(30) DEF Init, FlightInv, LeadersFly, FlightsLed, FollowersLed, Leading

LEMMA RequestFlight ==
  ASSUME TypeOK, ControlInv, FlightInv, NEW r \in Requests, RequestStep(r)
  PROVE  FlightInv'
<1> USE DEF TypeOK, GoTo, Finish
<1>1. ASSUME NEW s \in Requests, s # r
      PROVE  /\ pc'[s] = pc[s] /\ flight'[s] = flight[s] /\ decision'[s] = decision[s]
             /\ result'[s] = result[s] /\ gen'[s] = gen[s]
             /\ Key(s)' = Key(s) /\ FlightKey(s)' = FlightKey(s)
  BY <1>1 DEF Key, FlightKey, RequestStep, Decide, Evaluate, LoadGeneration, CachedDecision,
         JoinFlight, AwaitFlight, PromptReturns, CheckGeneration, InsertGrant, CompleteFlight,
         RemoveFlight
<1>2. ASSUME pc[r] \notin {"start", "evaluate", "load"}
      PROVE  gen'[r] = gen[r] /\ Key(r)' = Key(r) /\ FlightKey(r)' = FlightKey(r)
  BY <1>2 DEF Key, FlightKey, RequestStep, Decide, Evaluate, LoadGeneration, CachedDecision,
         JoinFlight, AwaitFlight, PromptReturns, CheckGeneration, InsertGrant, CompleteFlight,
         RemoveFlight
<1> USE DEF FlightInv, LeadersFly, FlightsLed, FollowersLed, Leading
(* Before it asks, a request is in no flight and nobody follows it. *)
<1>3. CASE Decide(r) \/ Evaluate(r) \/ LoadGeneration(r) \/ CachedDecision(r)
  <2>1. /\ pc[r] \in {"start", "evaluate", "load", "lookup"}
        /\ pc'[r] \in {"evaluate", "load", "lookup", "join", "done"}
        /\ UNCHANGED <<flights, flight, result>>
    BY <1>3, SMTT(30) DEF Decide, Evaluate, LoadGeneration, CachedDecision
  <2> QED
    BY <1>1, <2>1, SMTT(30)
<1>4. CASE JoinFlight(r)
  <2>1. CASE pc'[r] = "done"
    BY <1>1, <1>2, <1>4, <2>1, SMTT(30) DEF JoinFlight
  <2>2. CASE pc'[r] = "follow"
    <3> DEFINE l == flights[FlightKey(r)]
    <3>1. /\ pc[r] = "join" /\ FlightKey(r) \in DOMAIN flights
          /\ flight' = [flight EXCEPT ![r] = l] /\ pc' = [pc EXCEPT ![r] = "follow"]
          /\ UNCHANGED <<flights, result, decision>>
      BY <1>4, <2>2, SMTT(30) DEF JoinFlight
    <3>2. l \in Requests /\ pc[l] \in Leading /\ FlightKey(l) = FlightKey(r) /\ l # r
      BY <3>1
    <3>3. Key(l) = Key(r) /\ gen[l] = gen[r]
      BY <3>2 DEF FlightKey
    <3>4. decision[r] = "none"
      BY <3>1 DEF ControlInv, RequestInv
    <3> HIDE DEF l
    <3>5. LeadersFly' /\ FlightsLed'
      BY <1>1, <1>2, <3>1, <3>2, SMTT(30)
    <3>6. FollowersLed'
      BY <1>1, <1>2, <3>1, <3>2, <3>3, <3>4, SMTT(30)
    <3> QED
      BY <3>5, <3>6
  <2>3. CASE pc'[r] = "prompt"
    <3>1. /\ pc[r] = "join" /\ FlightKey(r) \notin DOMAIN flights
          /\ flights' = [k \in DOMAIN flights \cup {FlightKey(r)} |->
                            IF k = FlightKey(r) THEN r ELSE flights[k]]
          /\ flight' = [flight EXCEPT ![r] = r] /\ pc' = [pc EXCEPT ![r] = "prompt"]
          /\ UNCHANGED <<result, decision>>
      BY <1>4, <2>3, SMTT(30) DEF JoinFlight
    <3>2. LeadersFly'
      BY <1>1, <1>2, <3>1, SMTT(30)
    <3>3. FlightsLed'
      BY <1>1, <1>2, <3>1, SMTT(30)
    <3>4. FollowersLed'
      BY <1>1, <1>2, <3>1, SMTT(30)
    <3> QED
      BY <3>2, <3>3, <3>4
  <2> QED
    BY <1>4, <2>1, <2>2, <2>3, SMTT(30) DEF JoinFlight
<1>5. CASE AwaitFlight(r)
  BY <1>1, <1>2, <1>5, SMTT(30) DEF AwaitFlight
<1>6. CASE (\E answer \in Answers \cup {Failure} : PromptReturns(r, answer))
             \/ CheckGeneration(r) \/ InsertGrant(r)
  <2>1. /\ pc[r] \in Leading /\ pc'[r] \in Leading
        /\ UNCHANGED <<flights, flight, result, decision>>
    BY <1>6, SMTT(30) DEF PromptReturns, CheckGeneration, InsertGrant
  <2> QED
    BY <1>1, <1>2, <2>1, SMTT(30)
(* Nobody has taken the decision of a flight that is not complete. *)
<1>7. CASE CompleteFlight(r)
  BY <1>1, <1>2, <1>7, SMTT(30) DEF CompleteFlight, ControlInv, RequestInv
<1>8. CASE RemoveFlight(r)
  BY <1>1, <1>2, <1>8, SMTT(30) DEF RemoveFlight, Restrict
<1> QED
  BY <1>3, <1>4, <1>5, <1>6, <1>7, <1>8 DEF RequestStep

---------------------------------------------------------------------------
(* Where grants and allowed accesses come from. *)

(* A request that holds its answer keeps it, and keeps its grant key. *)
LEMMA AnswersStay ==
  ASSUME TypeOK, ControlInv, NEW r \in Requests, RequestStep(r),
         NEW l \in Requests, reply[l].kind = "answer"
  PROVE  reply'[l] = reply[l] /\ Key(l)' = Key(l)
  BY DEF TypeOK, GoTo, Finish, ControlInv, RequestInv, Key, RequestStep, Decide, Evaluate,
         LoadGeneration, CachedDecision, JoinFlight, AwaitFlight, PromptReturns,
         CheckGeneration, InsertGrant, CompleteFlight, RemoveFlight

LEMMA RequestGrants ==
  ASSUME TypeOK, ControlInv, GrantsAreExplicit, NEW r \in Requests, RequestStep(r)
  PROVE  GrantsAreExplicit'
<1> DEFINE Explains(l, k, g) == /\ Key(l) = k
                                /\ reply[l].kind = "answer"
                                /\ reply[l].allow = g.allowed
                                /\ reply[l].scope = g.lifetime
<1>1. ASSUME NEW k \in DOMAIN grants, NEW g, g = grants[k]
      PROVE  \E l \in Requests : Explains(l, k, g)'
  <2>1. PICK l \in Requests : Explains(l, k, g)
    BY <1>1 DEF GrantsAreExplicit
  <2>2. reply'[l] = reply[l] /\ Key(l)' = Key(l)
    BY <2>1, AnswersStay
  <2> QED
    BY <2>1, <2>2
<1>2. CASE InsertGrant(r)
  <2>1. DOMAIN grants' = DOMAIN grants \cup {Key(r)}
    BY <1>2 DEF InsertGrant, InsertDecision
  <2>2. ASSUME NEW k \in DOMAIN grants', k # Key(r)
        PROVE  k \in DOMAIN grants /\ grants'[k] = grants[k]
    BY <1>2, <2>1, <2>2 DEF InsertGrant, InsertDecision
  <2>3. /\ grants'[Key(r)].allowed = reply[r].allow
        /\ grants'[Key(r)].lifetime = reply[r].scope
        /\ reply[r].kind = "answer"
    BY <1>2 DEF InsertGrant, InsertDecision, ControlInv, RequestInv
  <2>4. reply'[r] = reply[r] /\ Key(r)' = Key(r)
    BY <2>3, AnswersStay
  <2> QED
    BY <1>1, <2>1, <2>2, <2>3, <2>4 DEF GrantsAreExplicit
<1>3. CASE ~InsertGrant(r)
  <2>1. ASSUME NEW k \in DOMAIN grants'
        PROVE  k \in DOMAIN grants /\ grants'[k] = grants[k]
    BY <1>3, <2>1 DEF RequestStep, Decide, Evaluate, LoadGeneration, CachedDecision, JoinFlight,
       AwaitFlight, PromptReturns, CheckGeneration, CompleteFlight, RemoveFlight,
       AfterLookup, Restrict
  <2> QED
    BY <1>1, <2>1, SMTT(30) DEF GrantsAreExplicit
<1> QED
  BY <1>2, <1>3

LEMMA RequestAllows ==
  ASSUME TypeOK, ControlInv, FlightInv, GrantsAreExplicit, AllowsAreApproved,
         NEW r \in Requests, RequestStep(r)
  PROVE  AllowsAreApproved'
<1>1. ASSUME NEW k, Answered(k, TRUE)
      PROVE  Answered(k, TRUE)'
  BY <1>1, AnswersStay DEF Answered
<1>2. ASSUME NEW s \in Requests, s # r
      PROVE  decision'[s] = decision[s] /\ enf'[s] = enf[s] /\ Key(s)' = Key(s)
  BY <1>2 DEF TypeOK, GoTo, Finish, Key, RequestStep, Decide, Evaluate, LoadGeneration,
         CachedDecision, JoinFlight, AwaitFlight, PromptReturns, CheckGeneration,
         InsertGrant, CompleteFlight, RemoveFlight
(* An allow that is new either comes from the rules or from an answer. *)
<1>3. ASSUME decision'[r] = "allow", enf'[r] # "allow"
      PROVE  Key(r)' = Key(r) /\ Answered(Key(r), TRUE)
  <2> USE DEF TypeOK, GoTo, Finish, ControlInv, RequestInv
  <2>1. CASE Decide(r) \/ Evaluate(r) \/ LoadGeneration(r)
    BY <1>3, <2>1, SMTT(30) DEF Decide, Evaluate, LoadGeneration, Effective
  <2>2. CASE CachedDecision(r) \/ JoinFlight(r)
    <3>1. Key(r)' = Key(r)
      BY <2>2 DEF CachedDecision, JoinFlight, Key
    <3>2. Key(r) \in DOMAIN grants /\ grants[Key(r)].allowed
      BY <1>3, <2>2 DEF CachedDecision, JoinFlight, Cached, CachedAnswer
    <3>3. grants[Key(r)].allowed = TRUE
      BY <3>2 DEF Grant
    <3> QED
      BY <3>1, <3>2, <3>3 DEF GrantsAreExplicit, Answered
  <2>3. CASE AwaitFlight(r)
    <3>1. Key(r)' = Key(r) /\ pc[r] = "follow" /\ result[flight[r]] = "allow"
      BY <1>3, <2>3 DEF AwaitFlight, Key
    <3>2. flight[r] # r /\ reply[flight[r]].kind = "answer" /\ reply[flight[r]].allow
      BY <3>1
    <3>3. Key(flight[r]) = Key(r)
      BY <3>2 DEF FlightInv, FollowersLed
    <3>4. reply[flight[r]].allow = TRUE
      BY <3>2 DEF Replies, Answers, NoAnswer, Failure
    <3> QED
      BY <3>1, <3>2, <3>3, <3>4 DEF Answered
  <2>4. CASE RemoveFlight(r)
    <3>1. Key(r)' = Key(r) /\ reply[r].kind = "answer" /\ reply[r].allow
      BY <1>3, <2>4 DEF RemoveFlight, Key
    <3>2. reply[r].allow = TRUE
      BY <3>1 DEF Replies, Answers, NoAnswer, Failure
    <3> QED
      BY <3>1, <3>2 DEF Answered
  <2>5. CASE (\E answer \in Answers \cup {Failure} : PromptReturns(r, answer))
               \/ CheckGeneration(r) \/ InsertGrant(r) \/ CompleteFlight(r)
    BY <1>3, <2>5 DEF PromptReturns, CheckGeneration, InsertGrant, CompleteFlight
  <2> QED
    BY <2>1, <2>2, <2>3, <2>4, <2>5 DEF RequestStep
<1> QED
  BY <1>1, <1>2, <1>3 DEF AllowsAreApproved

(* A step of the control side or of the clock only takes grants away or    *)
(* lets them expire.                                                       *)
LEMMA OtherGrants ==
  ASSUME TypeOK, (\E a \in Admins : AdminStep(a)) \/ Environment, NEW k \in DOMAIN grants'
  PROVE  /\ k \in DOMAIN grants
         /\ grants'[k].allowed = grants[k].allowed
         /\ grants'[k].lifetime = grants[k].lifetime
<1>1. CASE \E x \in GrantKeys : GrantExpires(x)
  <2>1. PICK x \in GrantKeys : GrantExpires(x)
    BY <1>1
  <2>2. x \in DOMAIN grants /\ grants' = [grants EXCEPT ![x].expired = TRUE]
    BY <2>1 DEF GrantExpires
  <2>3. k \in DOMAIN grants /\ grants[k] \in Grant /\ grants[x] \in Grant
    BY <2>2 DEF TypeOK
  <2> QED
    BY <2>2, <2>3 DEF Grant
<1>2. CASE ~\E x \in GrantKeys : GrantExpires(x)
  <2>1. grants' = grants \/ \E S \in SUBSET DOMAIN grants : grants' = Restrict(grants, S)
    <3>1. ASSUME NEW a \in Admins, ClearGrants(a)
          PROVE  \E S \in SUBSET DOMAIN grants : grants' = Restrict(grants, S)
      BY <3>1 DEF ClearGrants
    <3>2. ASSUME NEW a \in Admins, ClearUntilLock(a)
          PROVE  \E S \in SUBSET DOMAIN grants : grants' = Restrict(grants, S)
      BY <3>2 DEF ClearUntilLock
    <3>3. ASSUME ActiveGrants
          PROVE  \E S \in SUBSET DOMAIN grants : grants' = Restrict(grants, S)
      BY <3>3 DEF ActiveGrants
    <3> QED
      BY <1>2, <3>1, <3>2, <3>3 DEF AdminStep, BumpFirst, SetMode, ReplacePolicy, BumpAfter,
         Environment, ModeExpires
  <2> QED
    BY <2>1 DEF Restrict
<1> QED
  BY <1>1, <1>2

---------------------------------------------------------------------------
(* The inductive invariant. *)

LEMMA InitInv == Init => AgentInv
  BY InitType, InitControl, InitFlight, SMTT(30)
  DEF AgentInv, GenerationInv, GrantsAreExplicit, AllowsAreApproved, Init

LEMMA NextInv == AgentInv /\ [Next]_vars => AgentInv'
<1> SUFFICES ASSUME AgentInv, [Next]_vars PROVE AgentInv'
  OBVIOUS
<1> USE DEF AgentInv
<1>1. ASSUME NEW r \in Requests, RequestStep(r) PROVE AgentInv'
  <2>1. GenerationInv'
    BY <1>1, SMTT(30) DEF TypeOK, GenerationInv, RequestStep, Decide, Evaluate, LoadGeneration,
       CachedDecision, JoinFlight, AwaitFlight, PromptReturns, CheckGeneration, InsertGrant,
       CompleteFlight, RemoveFlight
  <2> QED
    BY <1>1, <2>1, RequestType, RequestControl, RequestFlight, RequestGrants, RequestAllows
<1>2. CASE (\E a \in Admins : AdminStep(a)) \/ Environment
  <2>1. UNCHANGED <<flights, result, requestVars>>
    BY <1>2, Frame
  <2>2. TypeOK'
    BY <1>2, AdminType, EnvironmentType
  <2>3. ControlInv'
    <3>1. CASE Environment
      BY <2>1, <3>1 DEF ControlInv, RequestInv, AdminInv, Environment, ActiveGrants,
         GrantExpires, ModeExpires
    <3> QED
      BY <1>2, <3>1, AdminControl
  <2>4. FlightInv'
    BY <2>1 DEF FlightInv, LeadersFly, FlightsLed, FollowersLed, FlightKey, Key
  <2>5. GenerationInv'
    <3>1. generation' \in {generation, generation + 1}
      BY <1>2 DEF AdminStep, BumpFirst, ClearGrants, SetMode, ReplacePolicy, BumpAfter,
         ClearUntilLock, Environment, ActiveGrants, GrantExpires, ModeExpires
    <3> QED
      BY <2>1, <3>1, SMTT(30) DEF TypeOK, GenerationInv
  <2>6. GrantsAreExplicit'
    BY <1>2, <2>1, OtherGrants DEF GrantsAreExplicit, Key
  <2>7. AllowsAreApproved'
    BY <2>1 DEF AllowsAreApproved, Answered, Key
  <2> QED
    BY <2>2, <2>3, <2>4, <2>5, <2>6, <2>7
<1>3. CASE UNCHANGED vars
  <2> USE <1>3 DEF vars
  <2>1. TypeOK' /\ GenerationInv'
    BY DEF TypeOK, GenerationInv
  <2>2. ControlInv'
    BY DEF ControlInv, RequestInv, AdminInv
  <2>3. FlightInv'
    BY DEF FlightInv, LeadersFly, FlightsLed, FollowersLed, FlightKey, Key
  <2>4. GrantsAreExplicit' /\ AllowsAreApproved'
    BY DEF GrantsAreExplicit, AllowsAreApproved, Answered, Key
  <2> QED
    BY <2>1, <2>2, <2>3, <2>4
<1> QED
  BY <1>1, <1>2, <1>3 DEF Next

LEMMA Invariance == Spec => []AgentInv
  BY InitInv, NextInv, PTL DEF Spec

(* Every variable of the agent keeps its type, whatever the number of      *)
(* requests, control operations, objects and policies.                     *)
THEOREM TypeCorrect == Spec => []TypeOK
<1>1. AgentInv => TypeOK
  BY DEF AgentInv
<1> QED
  BY <1>1, Invariance, PTL

(* handle_prompt() never has the user answer two prompts for one grant key *)
(* under one generation.                                                   *)
THEOREM PromptsAreShared == Spec => []OnePrompt
<1>1. AgentInv => OnePrompt
  BY DEF AgentInv, FlightInv, LeadersFly, OnePrompt
<1> QED
  BY <1>1, Invariance, PTL

(* A request that followed a flight returns the decision of that flight,   *)
(* and the flight asked for the request's own key.                         *)
THEOREM FollowersFollow == Spec => []FollowersAgree
<1>1. AgentInv => FollowersAgree
  BY DEF AgentInv, FlightInv, FollowersLed, FollowersAgree
<1> QED
  BY <1>1, Invariance, PTL

(* The grant cache only ever holds explicit answers. *)
THEOREM CacheIsExplicit == Spec => []GrantsAreExplicit
<1>1. AgentInv => GrantsAreExplicit
  BY DEF AgentInv
<1> QED
  BY <1>1, Invariance, PTL

(* authorize() allows an interactive access only on an answer that allowed *)
(* its own key: a failed prompt fails closed.                              *)
THEOREM FailsClosed == Spec => []AllowsAreApproved
<1>1. AgentInv => AllowsAreApproved
  BY DEF AgentInv
<1> QED
  BY <1>1, Invariance, PTL

(* perform_prompt() never caches the answer of a prompt that was open when *)
(* the generation moved.                                                   *)
THEOREM StaleAnswersAreDropped == Spec => StalePromptNeverInstalls
<1> SUFFICES ASSUME NEW r \in Requests
             PROVE  Spec => [](pc[r] = "prompt" /\ gen[r] # generation => [](pc[r] # "insert"))
  BY DEF StalePromptNeverInstalls
<1> DEFINE Stale == /\ gen[r] < generation
                    /\ pc[r] \in {"prompt", "check", "complete", "remove", "done"}
<1>1. AgentInv /\ pc[r] = "prompt" /\ gen[r] # generation => Stale
  <2> SUFFICES ASSUME AgentInv, pc[r] = "prompt", gen[r] # generation PROVE Stale
    OBVIOUS
  <2>1. gen[r] \in Nat /\ generation \in Nat /\ gen[r] <= generation
    BY DEF AgentInv, TypeOK, GenerationInv
  <2> QED
    BY <2>1, SMTT(30)
<1>2. AgentInv /\ Stale /\ [Next]_vars => Stale'
  <2> SUFFICES ASSUME AgentInv, Stale, [Next]_vars PROVE Stale'
    OBVIOUS
  <2> USE DEF AgentInv, TypeOK, GoTo, Finish
  <2>1. ASSUME NEW s \in Requests, RequestStep(s) PROVE Stale'
    BY <2>1, SMTT(30) DEF RequestStep, Decide, Evaluate, LoadGeneration, CachedDecision, JoinFlight,
       AwaitFlight, PromptReturns, CheckGeneration, InsertGrant, CompleteFlight, RemoveFlight
  <2>2. CASE (\E a \in Admins : AdminStep(a)) \/ Environment
    <3>1. generation' \in {generation, generation + 1}
      BY <2>2 DEF AdminStep, BumpFirst, ClearGrants, SetMode, ReplacePolicy, BumpAfter,
         ClearUntilLock, Environment, ActiveGrants, GrantExpires, ModeExpires
    <3> QED
      BY <2>2, <3>1, Frame, SMTT(30)
  <2>3. CASE UNCHANGED vars
    BY <2>3 DEF vars
  <2> QED
    BY <2>1, <2>2, <2>3 DEF Next
<1>3. Stale => pc[r] # "insert"
  OBVIOUS
<1> HIDE DEF Stale
<1> QED
  BY <1>1, <1>2, <1>3, Invariance, PTL DEF Spec

(* A flight is shared by the requests of its key and generation, and by    *)
(* them only (join_or_create_flight, await_flight).                        *)
THEOREM FlightsServeTheirKey == Spec => []FlightsAreShared
  BY TypeCorrect, PromptsAreShared, FollowersFollow, PTL DEF FlightsAreShared

(* What is allowed, from a prompt or from the cache, was answered so.      *)
THEOREM NothingIsAllowedUnasked == Spec => []AllowsAreExplicit
  BY FailsClosed, CacheIsExplicit, PTL DEF AllowsAreExplicit

-----------------------------------------------------------------------------
(* The agent with its socket server. *)

ServerProofs == INSTANCE SocketServerProofs WITH Prompts <- Requests, Decisions <- Answers

(* The answer that a request took came over a connection, for the id of    *)
(* its own prompt, which has returned.                                     *)
AnswersReceived ==
  \A l \in Requests :
    reply[l].kind = "answer" => /\ reply[l] \in Answers
                                /\ ppc[l] = "done"
                                /\ <<req[l], reply[l]>> \in received

SessionInv == AgentInv /\ ServerProofs!ServerInv /\ AnswersReceived

---------------------------------------------------------------------------
(* The two parts. *)

LEMMA PromptedIsAnswered == \A r \in Requests : Answer(r) \in Answers \cup {Failure}
  BY DEF Answer

(* A step of the session is a step of the agent, or none of its variables  *)
(* changes: where the agent has one step that ends in some answer, the     *)
(* session runs prompt_and_wait().                                         *)
LEMMA AgentStep == [SessionNext]_sessionVars => [Next]_vars
<1> SUFFICES ASSUME SessionNext PROVE [Next]_vars
  BY DEF sessionVars
<1>1. ASSUME NEW r \in Requests, WorkerStep(r) PROVE [Next]_vars
  <2>1. CASE Prompting(r)
    BY <2>1 DEF Prompting
  <2>2. CASE Prompted(r)
    BY <2>2, PromptedIsAnswered DEF Prompted, RequestStep, Next
  <2>3. CASE Authorizing(r)
    BY <2>3 DEF Authorizing, Next
  <2> QED
    BY <1>1, <2>1, <2>2, <2>3 DEF WorkerStep
<1>2. ASSUME NEW c \in Conns, HookStep(c) PROVE [Next]_vars
  <2>1. <<c, cpc[c]>> \in Admins
    BY <1>2, HooksAssumption DEF HookStep, Hooks
  <2> QED
    BY <1>2, <2>1 DEF HookStep, AdminStep, Next
<1>3. ASSUME NEW c \in Conns, Reading(c) \/ HookEnds(c) PROVE [Next]_vars
  BY <1>3 DEF Reading, HookEnds
<1>4. CASE EventFails
  BY <1>4 DEF EventFails
<1>5. ASSUME NEW a \in Admins \ Hooks, AdminStep(a) PROVE [Next]_vars
  BY <1>5 DEF Next
<1>6. CASE Environment
  BY <1>6 DEF Next
<1> QED
  BY <1>1, <1>2, <1>3, <1>4, <1>5, <1>6 DEF SessionNext

(* A step of the session is a step of the socket server, or none of its    *)
(* variables changes.                                                      *)
LEMMA ServerStep == [SessionNext]_sessionVars => [Server!Next]_serverVars
<1> SUFFICES ASSUME SessionNext PROVE [Server!Next]_serverVars
  BY DEF sessionVars
<1>1. ASSUME NEW r \in Requests, WorkerStep(r) PROVE [Server!Next]_serverVars
  BY <1>1 DEF WorkerStep, Prompting, Prompted, Authorizing, Server!Next
<1>2. ASSUME NEW c \in Conns, Reading(c) \/ HookStep(c) \/ HookEnds(c)
      PROVE  [Server!Next]_serverVars
  BY <1>2 DEF Reading, HookStep, HookEnds, Server!Next, Server!ConnStep
<1>3. CASE EventFails
  BY <1>3 DEF EventFails, Server!Next
<1> QED
  BY <1>1, <1>2, <1>3 DEF SessionNext

(* The agent with its socket server behaves as the agent alone: the safety *)
(* part of ImplementsAgent.                                                *)
THEOREM SessionImplementsAgent == SessionSpec => Spec
<1>1. SessionInit => Init
  BY DEF SessionInit
<1> QED
  BY <1>1, AgentStep, PTL DEF SessionSpec, Spec

(* And as the socket server alone. *)
THEOREM SessionImplementsServer == SessionSpec => Server!Spec
<1>1. SessionInit => Server!Init
  BY DEF SessionInit
<1>2. [Server!Next]_serverVars => [Server!Next]_Server!socketVars
  BY DEF serverVars, Server!socketVars, Server!connVars, Server!promptVars
<1> QED
  BY <1>1, <1>2, ServerStep, PTL DEF SessionSpec, Server!Spec

---------------------------------------------------------------------------
(* Where answers come from. *)

LEMMA ServerInvariance == SessionSpec => []ServerProofs!ServerInv
<1>1. Server!Init => ServerProofs!Init
  BY DEF Server!Init, ServerProofs!Init
<1>2. [Server!Next]_Server!socketVars => [ServerProofs!Next]_ServerProofs!socketVars
  BY DEF Server!Next, ServerProofs!Next, Server!socketVars, ServerProofs!socketVars,
         Server!connVars, ServerProofs!connVars, Server!promptVars, ServerProofs!promptVars,
         Server!ConnStep, ServerProofs!ConnStep,
         Server!PromptStep, ServerProofs!PromptStep,
         Server!SendEventFails, ServerProofs!SendEventFails,
         Server!ReaderStep, ServerProofs!ReaderStep,
         Server!Invalidate, ServerProofs!Invalidate,
         Server!Handshake, ServerProofs!Handshake,
         Server!TakeGeneration, ServerProofs!TakeGeneration,
         Server!Register, ServerProofs!Register,
         Server!ReadDecision, ServerProofs!ReadDecision,
         Server!Deliver, ServerProofs!Deliver,
         Server!ReadSessionInactive, ServerProofs!ReadSessionInactive,
         Server!ReadEnds, ServerProofs!ReadEnds,
         Server!Cleanup, ServerProofs!Cleanup,
         Server!TakeRequestId, ServerProofs!TakeRequestId,
         Server!InsertPending, ServerProofs!InsertPending,
         Server!SendPrompt, ServerProofs!SendPrompt,
         Server!GiveUpUnsent, ServerProofs!GiveUpUnsent,
         Server!ReceiveDecision, ServerProofs!ReceiveDecision,
         Server!TimeOut, ServerProofs!TimeOut,
         Server!GiveUpExpired, ServerProofs!GiveUpExpired,
         Server!ConnGoTo, ServerProofs!ConnGoTo,
         Server!PromptGoTo, ServerProofs!PromptGoTo,
         Server!Return, ServerProofs!Return, Server!Restrict, ServerProofs!Restrict
<1>3. Server!Spec => ServerProofs!Spec
  BY <1>1, <1>2, PTL DEF Server!Spec, ServerProofs!Spec
<1> QED
  BY <1>3, SessionImplementsServer, AppAssumption, ServerProofs!ServerCorrect, PTL

(* A prompt that has returned keeps its request id, and what was received  *)
(* stays received.                                                         *)
LEMMA ReturnedStays ==
  ASSUME ServerProofs!TypeOK, [Server!Next]_serverVars, NEW l \in Requests, ppc[l] = "done"
  PROVE  ppc'[l] = "done" /\ req'[l] = req[l] /\ received \subseteq received'
<1> USE DEF ServerProofs!TypeOK, Server!ConnGoTo, Server!PromptGoTo, Server!Return,
            Server!connVars, Server!promptVars
<1>1. ASSUME NEW c \in Conns, Server!ConnStep(c) PROVE UNCHANGED <<ppc, req>> /\ received \subseteq received'
  BY <1>1 DEF Server!ConnStep, Server!ReaderStep, Server!Invalidate, Server!Handshake,
              Server!TakeGeneration, Server!Register, Server!ReadDecision, Server!Deliver,
              Server!ReadSessionInactive, Server!ReadEnds, Server!Cleanup
<1>2. ASSUME NEW q \in Requests, Server!PromptStep(q)
      PROVE  ppc'[l] = "done" /\ req'[l] = req[l] /\ received \subseteq received'
  BY <1>2 DEF Server!PromptStep, Server!TakeRequestId, Server!InsertPending, Server!SendPrompt,
              Server!GiveUpUnsent, Server!ReceiveDecision, Server!TimeOut, Server!GiveUpExpired
<1>3. CASE Server!SendEventFails
  BY <1>3 DEF Server!SendEventFails
<1>4. CASE UNCHANGED serverVars
  BY <1>4 DEF serverVars
<1> QED
  BY <1>1, <1>2, <1>3, <1>4 DEF Server!Next

(* Only the return of its own prompt gives a request an answer.            *)
LEMMA AnswersAreReceived ==
  ASSUME AgentInv, ServerProofs!ServerInv, AnswersReceived, [SessionNext]_sessionVars
  PROVE  AnswersReceived'
<1> SUFFICES ASSUME NEW l \in Requests, reply'[l].kind = "answer"
             PROVE  /\ reply'[l] \in Answers
                    /\ ppc'[l] = "done"
                    /\ <<req'[l], reply'[l]>> \in received'
  BY DEF AnswersReceived
<1>1. ServerProofs!TypeOK /\ [Server!Next]_serverVars
  BY ServerStep DEF ServerProofs!ServerInv
<1>2. CASE reply'[l] = reply[l]
  <2>1. reply[l] \in Answers /\ ppc[l] = "done" /\ <<req[l], reply[l]>> \in received
    BY <1>2 DEF AnswersReceived
  <2> QED
    BY <1>1, <1>2, <2>1, ReturnedStays
<1>3. CASE Prompted(l)
  <2>1. reply'[l] = Answer(l)
    BY <1>3 DEF Prompted, PromptReturns, AgentInv, TypeOK
  <2>2. res[l] \in Answers /\ reply'[l] = res[l]
    BY <2>1, SMTT(30) DEF Answer, Failure
  <2>3. ppc[l] = "done" /\ UNCHANGED serverVars
    BY <1>3 DEF Prompted
  <2>4. <<req[l], res[l]>> \in received
    BY <2>2 DEF ServerProofs!ServerInv, ServerProofs!ReplyInv, ServerProofs!ResultInv
  <2> QED
    BY <2>2, <2>3, <2>4 DEF serverVars
<1>4. Prompted(l) \/ reply'[l] = reply[l]
  <2> SUFFICES ASSUME ~Prompted(l) PROVE reply'[l] = reply[l]
    OBVIOUS
  <2>1. ASSUME NEW r \in Requests, WorkerStep(r) PROVE reply'[l] = reply[l]
    <3>1. CASE Prompting(r)
      BY <3>1 DEF Prompting, vars, requestVars
    <3>2. CASE Prompted(r)
      BY <3>2 DEF Prompted, PromptReturns, AgentInv, TypeOK
    <3>3. CASE Authorizing(r)
      BY <3>3 DEF Authorizing, RequestStep, Decide, Evaluate, LoadGeneration, CachedDecision,
                  JoinFlight, AwaitFlight, PromptReturns, CheckGeneration, InsertGrant,
                  CompleteFlight, RemoveFlight
    <3> QED
      BY <2>1, <3>1, <3>2, <3>3 DEF WorkerStep
  <2>2. ASSUME NEW c \in Conns, Reading(c) \/ HookStep(c) \/ HookEnds(c) PROVE reply'[l] = reply[l]
    BY <2>2 DEF Reading, HookStep, HookEnds, ClearUntilLock, BumpAfter, vars, requestVars
  <2>3. CASE EventFails \/ UNCHANGED sessionVars
    BY <2>3 DEF EventFails, sessionVars, vars, requestVars
  <2>4. CASE (\E a \in Admins \ Hooks : AdminStep(a)) \/ Environment
    BY <2>4, Frame DEF requestVars
  <2> QED
    BY <2>1, <2>2, <2>3, <2>4 DEF SessionNext
<1> QED
  BY <1>2, <1>3, <1>4

LEMMA SessionInvariance == SessionSpec => []SessionInv
<1>1. SessionInit => AnswersReceived
  BY SMTT(30) DEF SessionInit, Init, NoAnswer, AnswersReceived
<1>2. SessionSpec => []AgentInv
  BY SessionImplementsAgent, Invariance, PTL
<1>3. AgentInv /\ ServerProofs!ServerInv /\ AnswersReceived /\ [SessionNext]_sessionVars
        => AnswersReceived'
  BY AnswersAreReceived
<1> QED
  BY <1>1, <1>2, <1>3, ServerInvariance, PTL DEF SessionSpec, SessionInv

(* authorize() lets an interactive access through only on an answer that   *)
(* was read off a connection to the app, for the request id of a prompt    *)
(* with the same grant key.                                                *)
THEOREM AllowsComeFromTheApp == SessionSpec => []AllowsCameFromTheApp
<1>1. SessionInv => AllowsCameFromTheApp
  <2> SUFFICES ASSUME SessionInv, NEW r \in Requests, decision[r] = "allow", enf[r] # "allow"
               PROVE  \E l \in Requests, d \in Answers :
                        d.allow /\ Key(l) = Key(r) /\ <<req[l], d>> \in received
    BY DEF AllowsCameFromTheApp
  <2>1. Answered(Key(r), TRUE)
    BY DEF SessionInv, AgentInv, AllowsAreApproved
  <2>2. PICK l \in Requests : Key(l) = Key(r) /\ reply[l].kind = "answer" /\ reply[l].allow = TRUE
    BY <2>1 DEF Answered
  <2> QED
    BY <2>2 DEF SessionInv, AnswersReceived
<1> QED
  BY <1>1, SessionInvariance, PTL
===========================================================================
