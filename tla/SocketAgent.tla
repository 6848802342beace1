---------------------------- MODULE SocketAgent ----------------------------
(***************************************************************************)
(* The authorization agent (floria-agent/src/agent.rs, policy_mode.rs and  *)
(* the in-memory half of grant_cache.rs).                                  *)
(*                                                                         *)
(* Worker threads run authorize() concurrently: they match the rules,      *)
(* apply the policy mode and, for prompt and touchid, look in the grant    *)
(* cache or share one interactive prompt per (grant key, generation).      *)
(* Control threads change the policy mode, replace the managed policy and  *)
(* revoke grants; the socket thread drops lock-bound grants.  Every step   *)
(* of an action is one critical section or one atomic access of the code.  *)
(*                                                                         *)
(* A request is one call of authorize(), so the locals of a request that   *)
(* is done remain as its history, and a prompt flight is named by the      *)
(* request that leads it.                                                  *)
(***************************************************************************)
EXTENDS Naturals, Functions

CONSTANTS
  Requests,      \* calls of authorize()
  Admins,        \* calls of the control operations and of the session hook
  Objects,       \* (subject, object, operation) triples a grant is scoped to
  ObjectOf,      \* the triple each request asks for
  Policies,      \* normalized managed policies
  RulesOf,       \* the enforcement each policy gives to each object
  BaseRules      \* the enforcement of the configured rules alone

Enforcements == {"allow", "prompt", "touchid", "deny"}

ASSUME ObjectOfAssumption == ObjectOf \in [Requests -> Objects]
ASSUME RulesAssumption ==
  /\ RulesOf \in [Policies -> [Objects -> Enforcements]]
  /\ BaseRules \in [Objects -> Enforcements]

VARIABLES
  rules,         \* SocketAgent.rules, as the enforcement decide() returns
  managed,       \* SocketAgent.managed_items: {} is None, {p} is Some(p)
  managedLock,   \* the admins inside the managed_items write lock
  mode,          \* PolicyModeState.status
  generation,    \* SocketAgent.grant_generation
  grants,        \* GrantCache.entries
  flights,       \* SocketAgent.prompt_flights: (key, generation) -> leader
  result,        \* PromptFlight.result of the flight a request leads
  pc, enf, gen, flight, reply, decision,   \* the locals of a request
  apc, op        \* the program counter and the operation of an admin

agentVars == <<rules, managed, managedLock, mode, generation, grants, flights, result>>
requestVars == <<pc, enf, gen, flight, reply, decision>>
adminVars == <<apc, op>>
vars == <<agentVars, requestVars, adminVars>>

Interactive == {"prompt", "touchid"}
GrantKeys == Objects \X Interactive
Lifetimes == {"timed", "until_lock"}
Grant == [allowed : BOOLEAN, lifetime : Lifetimes, expired : BOOLEAN]

(* A prompt ends in an answer of the app, without an app, or in a timeout. *)
(* Scope "once" stands for every scope grant_lifetime() maps to None and   *)
(* for a ttl above MAXIMUM_TTL, which insert_decision() refuses.           *)
Answers == [kind : {"answer"}, allow : BOOLEAN, scope : Lifetimes \cup {"once"}]
NoAnswer == [kind |-> "none", allow |-> FALSE, scope |-> "once"]
Failure == [kind |-> "failure", allow |-> FALSE, scope |-> "once"]
Replies == Answers \cup {NoAnswer, Failure}

(* An override with a duration ends by itself: "audit_expired" is an       *)
(* audit-only status whose expiry has passed and that nobody read since.   *)
Modes == {"normal", "audit_only", "audit_timed", "audit_expired"}

AdminOps ==
       [kind : {"mode"}, mode : {"normal", "audit_only", "audit_timed"}]
  \cup [kind : {"revoke"}, key : GrantKeys]
  \cup [kind : {"policy"}, policy : Policies]
  \cup [kind : {"idle", "clear", "lock"}]

Key(r) == <<ObjectOf[r], enf[r]>>
(* Mutant: flights are shared across enforcements. *)
FlightKeyOfObject(r) == <<ObjectOf[r], gen[r]>>

FlightKey(r) == <<Key(r), gen[r]>>

Init ==
  /\ rules = BaseRules
  /\ managed = {}
  /\ managedLock = {}
  /\ mode = "normal"
  /\ generation = 0
  /\ grants = [k \in {} |-> k]
  /\ flights = [k \in {} |-> k]
  /\ result = [r \in Requests |-> "none"]
  /\ pc = [r \in Requests |-> "start"]
  /\ enf = [r \in Requests |-> "deny"]
  /\ gen = [r \in Requests |-> 0]
  /\ flight = [r \in Requests |-> r]
  /\ reply = [r \in Requests |-> NoAnswer]
  /\ decision = [r \in Requests |-> "none"]
  /\ apc = [a \in Admins |-> "idle"]
  /\ op = [a \in Admins |-> [kind |-> "idle"]]

---------------------------------------------------------------------------
(* GrantCache: each operation is one critical section of the entries lock. *)

Expired(k) == k \in DOMAIN grants /\ grants[k].expired
Cached(k) == k \in DOMAIN grants /\ ~grants[k].expired

(* decision(key) removes the entry it finds expired. *)
AfterLookup(k) == IF Expired(k) THEN Restrict(grants, DOMAIN grants \ {k}) ELSE grants

(* insert_decision(key, lifetime, allowed), with the lifetime of the answer. *)
InsertDecision(k, answer) ==
  [x \in DOMAIN grants \cup {k} |->
     IF x = k
       THEN [allowed |-> answer.allow, lifetime |-> answer.scope, expired |-> FALSE]
       ELSE grants[x]]

LockBound == {k \in DOMAIN grants : grants[k].lifetime = "until_lock"}

(* active() drops the expired entries before it lists the others. *)
ActiveGrants ==
  LET expired == {k \in DOMAIN grants : grants[k].expired}
  IN  /\ expired # {}
      /\ grants' = Restrict(grants, DOMAIN grants \ expired)
      /\ UNCHANGED <<rules, managed, managedLock, mode, generation, flights, result,
                     requestVars, adminVars>>

(* The clock passes the expiry of a timed grant or of a timed override. *)
GrantExpires(k) ==
  /\ k \in DOMAIN grants
  /\ grants[k].lifetime = "timed"
  /\ ~grants[k].expired
  /\ grants' = [grants EXCEPT ![k].expired = TRUE]
  /\ UNCHANGED <<rules, managed, managedLock, mode, generation, flights, result,
                 requestVars, adminVars>>

ModeExpires ==
  /\ mode = "audit_timed"
  /\ mode' = "audit_expired"
  /\ UNCHANGED <<rules, managed, managedLock, generation, grants, flights, result,
                 requestVars, adminVars>>

---------------------------------------------------------------------------
(* authorize() and the prompt it may run. *)

Finish(r, d) ==
  /\ pc' = [pc EXCEPT ![r] = "done"]
  /\ decision' = [decision EXCEPT ![r] = d]

GoTo(r, l) == pc' = [pc EXCEPT ![r] = l]

(* rules.read().decide(request): the matching rule's enforcement. *)
Decide(r) ==
  /\ pc[r] = "start"
  /\ enf' = [enf EXCEPT ![r] = rules[ObjectOf[r]]]
  /\ GoTo(r, "evaluate")
  /\ UNCHANGED <<agentVars, gen, flight, reply, decision, adminVars>>

(* PolicyModeState.status(): an expired override falls back to normal. *)
Status == IF mode = "audit_expired" THEN "normal" ELSE mode

(* PolicyModeState.evaluate(): audit-only turns a question into an allow. *)
Effective(e) == IF Status # "normal" /\ e \in Interactive THEN "allow" ELSE e

Evaluate(r) ==
  /\ pc[r] = "evaluate"
  /\ mode' = Status
  /\ enf' = [enf EXCEPT ![r] = Effective(enf[r])]
  /\ IF Effective(enf[r]) \in Interactive
       THEN GoTo(r, "load") /\ UNCHANGED decision
       ELSE Finish(r, Effective(enf[r]))
  /\ UNCHANGED <<rules, managed, managedLock, generation, grants, flights, result,
                 gen, flight, reply, adminVars>>

(* handle_prompt() takes the generation before it looks in the cache. *)
LoadGeneration(r) ==
  /\ pc[r] = "load"
  /\ gen' = [gen EXCEPT ![r] = generation]
  /\ GoTo(r, "lookup")
  /\ UNCHANGED <<agentVars, enf, flight, reply, decision, adminVars>>

CachedAnswer(k) == IF grants[k].allowed THEN "allow" ELSE "deny"

CachedDecision(r) ==
  /\ pc[r] = "lookup"
  /\ grants' = AfterLookup(Key(r))
  /\ IF Cached(Key(r))
       THEN Finish(r, CachedAnswer(Key(r)))
       ELSE GoTo(r, "join") /\ UNCHANGED decision
  /\ UNCHANGED <<rules, managed, managedLock, mode, generation, flights, result,
                 enf, gen, flight, reply, adminVars>>

(* Under the prompt_flights lock: look again, then follow or lead.  The    *)
(* map cannot change between the look and the lookup in it, so the two     *)
(* critical sections take effect together.                                 *)
JoinFlight(r) ==
  /\ pc[r] = "join"
  /\ grants' = AfterLookup(Key(r))
  /\ \/ /\ Cached(Key(r))
        /\ Finish(r, CachedAnswer(Key(r)))
        /\ UNCHANGED <<flights, flight>>
     \/ /\ ~Cached(Key(r))
        /\ FlightKey(r) \in DOMAIN flights
        /\ flight' = [flight EXCEPT ![r] = flights[FlightKey(r)]]
        /\ GoTo(r, "follow")
        /\ UNCHANGED <<flights, decision>>
     \/ /\ ~Cached(Key(r))
        /\ FlightKey(r) \notin DOMAIN flights
        /\ flights' = [k \in DOMAIN flights \cup {FlightKey(r)} |->
                         IF k = FlightKey(r) THEN r ELSE flights[k]]
        /\ flight' = [flight EXCEPT ![r] = r]
        /\ GoTo(r, "prompt")
        /\ UNCHANGED decision
  /\ UNCHANGED <<rules, managed, managedLock, mode, generation, result,
                 enf, gen, reply, adminVars>>

(* PromptFlight.wait(): a follower returns the leader's decision. *)
AwaitFlight(r) ==
  /\ pc[r] = "follow"
  /\ result[flight[r]] # "none"
  /\ Finish(r, result[flight[r]])
  /\ UNCHANGED <<agentVars, enf, gen, flight, reply, adminVars>>

(* Mutant: a failed prompt returns without completing its flight. *)
PromptReturnsEarly(r, answer) ==
  /\ pc[r] = "prompt"
  /\ reply' = [reply EXCEPT ![r] = answer]
  /\ IF answer.kind = "answer" THEN GoTo(r, "check") /\ UNCHANGED decision
                                ELSE Finish(r, "deny")
  /\ UNCHANGED <<agentVars, enf, gen, flight, adminVars>>

(* prompt_and_wait() returns; a failure skips the grant altogether. *)
PromptReturns(r, answer) ==
  /\ pc[r] = "prompt"
  /\ reply' = [reply EXCEPT ![r] = answer]
  /\ GoTo(r, IF answer.kind = "answer" THEN "check" ELSE "complete")
  /\ UNCHANGED <<agentVars, enf, gen, flight, decision, adminVars>>

CheckScopeOnly(r) ==
  /\ pc[r] = "check"
  /\ GoTo(r, IF reply[r].scope # "once" THEN "insert" ELSE "complete")
  /\ UNCHANGED <<agentVars, enf, gen, flight, reply, decision, adminVars>>

(* The answer of a prompt whose generation has passed installs nothing. *)
CheckGeneration(r) ==
  /\ pc[r] = "check"
  /\ GoTo(r, IF generation = gen[r] /\ reply[r].scope # "once" THEN "insert" ELSE "complete")
  /\ UNCHANGED <<agentVars, enf, gen, flight, reply, decision, adminVars>>

InsertGrant(r) ==
  /\ pc[r] = "insert"
  /\ grants' = InsertDecision(Key(r), reply[r])
  /\ GoTo(r, "complete")
  /\ UNCHANGED <<rules, managed, managedLock, mode, generation, flights, result,
                 enf, gen, flight, reply, decision, adminVars>>

(* Mutant: only an explicit denial denies. *)
CompleteFlightOpen(r) ==
  /\ pc[r] = "complete"
  /\ result' = [result EXCEPT ![r] =
                  IF reply[r].kind = "answer" /\ ~reply[r].allow THEN "deny" ELSE "allow"]
  /\ GoTo(r, "remove")
  /\ UNCHANGED <<rules, managed, managedLock, mode, generation, grants, flights,
                 enf, gen, flight, reply, decision, adminVars>>

CompleteFlight(r) ==
  /\ pc[r] = "complete"
  /\ result' = [result EXCEPT ![r] = IF reply[r].allow THEN "allow" ELSE "deny"]
  /\ GoTo(r, "remove")
  /\ UNCHANGED <<rules, managed, managedLock, mode, generation, grants, flights,
                 enf, gen, flight, reply, decision, adminVars>>

(* The leader removes its own flight from the map and returns. *)
RemoveFlight(r) ==
  /\ pc[r] = "remove"
  /\ flights' = IF FlightKey(r) \in DOMAIN flights /\ flights[FlightKey(r)] = r
                  THEN Restrict(flights, DOMAIN flights \ {FlightKey(r)})
                  ELSE flights
  /\ Finish(r, result[r])
  /\ UNCHANGED <<rules, managed, managedLock, mode, generation, grants, result,
                 enf, gen, flight, reply, adminVars>>

---------------------------------------------------------------------------
(* Control operations.  The first step of an admin chooses its operation.  *)

Begin(a, o, l) ==
  /\ apc[a] = "idle"
  /\ op' = [op EXCEPT ![a] = o]
  /\ apc' = [apc EXCEPT ![a] = l]

AdminGoTo(a, l) == apc' = [apc EXCEPT ![a] = l] /\ UNCHANGED op

(* set_policy_mode(), clear_grants() and revoke_grant() start by moving    *)
(* the generation.                                                         *)
BumpFirst(a) ==
  /\ \E o \in AdminOps : o.kind \in {"mode", "clear", "revoke"} /\ Begin(a, o, "clear")
  /\ generation' = generation + 1
  /\ UNCHANGED <<rules, managed, managedLock, mode, grants, flights, result, requestVars>>

(* GrantCache.clear(), or revoke(id) for one key. *)
ClearGrants(a) ==
  /\ apc[a] = "clear"
  /\ grants' = Restrict(grants, IF op[a].kind = "revoke" THEN DOMAIN grants \ {op[a].key} ELSE {})
  /\ AdminGoTo(a, IF op[a].kind = "mode" THEN "set" ELSE "done")
  /\ managedLock' = managedLock \ {a}
  /\ UNCHANGED <<rules, managed, mode, generation, flights, result, requestVars>>

(* PolicyModeState.set(): a status that cannot be persisted is not taken.  *)
SetMode(a) ==
  /\ apc[a] = "set"
  /\ mode' \in {mode, op[a].mode}
  /\ AdminGoTo(a, "done")
  /\ UNCHANGED <<rules, managed, managedLock, generation, grants, flights, result, requestVars>>

(* replace_managed_policy(): the rules change first; a policy that differs *)
(* from an installed one then moves the generation and clears the grants,  *)
(* all of it inside the managed_items lock.                                *)
ReplacePolicy(a) ==
  /\ managedLock = {}
  /\ \E p \in Policies :
       /\ Begin(a, [kind |-> "policy", policy |-> p],
                IF managed = {} \/ managed = {p} THEN "done" ELSE "bump")
       /\ rules' = IF managed = {p} THEN rules ELSE RulesOf[p]
       /\ managed' = {p}
       /\ managedLock' = IF managed = {} \/ managed = {p} THEN {} ELSE {a}
  /\ UNCHANGED <<mode, generation, grants, flights, result, requestVars>>

BumpAfter(a) ==
  /\ apc[a] = "bump"
  /\ generation' = generation + 1
  /\ AdminGoTo(a, IF op[a].kind = "policy" THEN "clear" ELSE "done")
  /\ UNCHANGED <<rules, managed, managedLock, mode, grants, flights, result, requestVars>>

(* revoke_lock_bound_grants(), called when the login session goes inactive *)
(* or the app disconnects: it moves the generation only after it removed   *)
(* something.                                                              *)
ClearUntilLock(a) ==
  /\ Begin(a, [kind |-> "lock"], IF LockBound = {} THEN "done" ELSE "bump")
  /\ grants' = Restrict(grants, DOMAIN grants \ LockBound)
  /\ UNCHANGED <<rules, managed, managedLock, mode, generation, flights, result, requestVars>>

---------------------------------------------------------------------------
RequestStep(r) ==
  \/ Decide(r) \/ Evaluate(r) \/ LoadGeneration(r) \/ CachedDecision(r)
  \/ JoinFlight(r) \/ AwaitFlight(r)
  \/ \E answer \in Answers \cup {Failure} : PromptReturns(r, answer)
  \/ CheckGeneration(r) \/ InsertGrant(r) \/ CompleteFlight(r) \/ RemoveFlight(r)

AdminStep(a) ==
  \/ BumpFirst(a) \/ ClearGrants(a) \/ SetMode(a)
  \/ ReplacePolicy(a) \/ BumpAfter(a) \/ ClearUntilLock(a)

Environment ==
  \/ ActiveGrants
  \/ \E k \in GrantKeys : GrantExpires(k)
  \/ ModeExpires

Next ==
  \/ \E r \in Requests : RequestStep(r)
  \/ \E a \in Admins : AdminStep(a)
  \/ Environment

Spec == Init /\ [][Next]_vars

(* Worker threads keep running, and prompt_and_wait() ends after           *)
(* PROMPT_TIMEOUT at the latest.  Nothing is assumed of the control side.  *)
Fairness == \A r \in Requests : WF_vars(RequestStep(r))
FairSpec == Spec /\ Fairness

---------------------------------------------------------------------------
(* Properties. *)

Leading == {"prompt", "check", "insert", "complete", "remove"}
RequestLabels == {"start", "evaluate", "load", "lookup", "join", "follow", "done"} \cup Leading
AdminLabels == {"idle", "clear", "set", "bump", "done"}

(* Every variable keeps its type; the map of flights only holds keys of    *)
(* grants under generations the agent has reached.                         *)
TypeOK ==
  /\ rules \in [Objects -> Enforcements]
  /\ managed \in SUBSET Policies
  /\ managedLock \in SUBSET Admins
  /\ mode \in Modes
  /\ generation \in Nat
  /\ DOMAIN grants \in SUBSET GrantKeys
  /\ grants \in [DOMAIN grants -> Grant]
  /\ DOMAIN flights \in SUBSET (GrantKeys \X Nat)
  /\ flights \in [DOMAIN flights -> Requests]
  /\ result \in [Requests -> {"none", "allow", "deny"}]
  /\ pc \in [Requests -> RequestLabels]
  /\ enf \in [Requests -> Enforcements]
  /\ gen \in [Requests -> Nat]
  /\ flight \in [Requests -> Requests]
  /\ reply \in [Requests -> Replies]
  /\ decision \in [Requests -> {"none", "allow", "deny"}]
  /\ apc \in [Admins -> AdminLabels]
  /\ op \in [Admins -> AdminOps]

(* Two requests for the same grant key under the same generation never     *)
(* have the user answer two prompts: "Concurrent requests for the same     *)
(* grant key share one interactive prompt" (agent.rs, prompt_flights).     *)
OnePrompt ==
  \A r, s \in Requests :
    pc[r] \in Leading /\ pc[s] \in Leading /\ FlightKey(r) = FlightKey(s) => r = s

(* A request that waited for another one's prompt returns the decision of  *)
(* that prompt, and the prompt asked for the key of the request: a flight  *)
(* never carries an answer over to another subject, object, operation or   *)
(* enforcement.                                                            *)
FollowersAgree ==
  \A r \in Requests :
    flight[r] # r =>
      /\ Key(flight[r]) = Key(r)
      /\ gen[flight[r]] = gen[r]
      /\ decision[r] # "none" => decision[r] = result[flight[r]]

(* The user gave the answer d for grant key k. *)
Answered(k, d) ==
  \E l \in Requests : reply[l].kind = "answer" /\ reply[l].allow = d /\ Key(l) = k

(* An interactive access is allowed only where the user allowed exactly    *)
(* its key, by its own prompt, by one it shared or by a cached grant; a    *)
(* missing app, a timeout or a failed prompt never allows (fail closed).   *)
AllowsAreApproved ==
  \A r \in Requests :
    decision[r] = "allow" /\ enf[r] # "allow" => Answered(Key(r), TRUE)

(* The cache holds explicit answers only, with the answer's sense and      *)
(* lifetime: "failures are never remembered" (agent.rs, cached_decision),  *)
(* and an answer for one access is not kept.                               *)
GrantsAreExplicit ==
  \A k \in DOMAIN grants :
    \E l \in Requests :
      /\ Key(l) = k
      /\ reply[l].kind = "answer"
      /\ reply[l].allow = grants[k].allowed
      /\ reply[l].scope = grants[k].lifetime

(* One prompt serves all who ask the same and nobody else.                 *)
FlightsAreShared == TypeOK /\ OnePrompt /\ FollowersAgree

(* Nothing is allowed, now or from the cache, without an explicit answer.  *)
AllowsAreExplicit == AllowsAreApproved /\ GrantsAreExplicit

(* When the generation moves while a prompt is open, the answer of that    *)
(* prompt is never cached, however late it comes (perform_prompt compares  *)
(* the generation after the answer has arrived).                           *)
StalePromptNeverInstalls ==
  \A r \in Requests :
    [](pc[r] = "prompt" /\ gen[r] # generation => [](pc[r] # "insert"))

(* Every request gets a decision: no follower waits for a flight whose     *)
(* leader is gone, and no worker thread of the mount is lost in a prompt.  *)
EveryRequestDecided == <>(\A r \in Requests : decision[r] # "none")
=============================================================================
