------------------------------- MODULE SshAgent -------------------------------
(***************************************************************************)
(* The SSH agent surfaces (floria-agent/src/ssh_agent.rs): listeners that  *)
(* follow the catalog, connections that list identities, bind sessions and *)
(* ask for signatures, and the generated OpenSSH configuration.            *)
(*                                                                         *)
(* A surface is one socket.  Each listener has a number, the inode of its  *)
(* socket file; listeners and their connections share a stop flag.  The    *)
(* wire format is left out: a frame that does not parse is answered with a *)
(* failure, like every request of another kind.                            *)
(***************************************************************************)
EXTENDS Integers, Sequences, FiniteSets, SequencesExt

CONSTANTS
  SshSurfaces,     \* surfaces and library SSH accesses
  Snapshots,       \* catalog snapshots: a set of functions surface -> selections
  SshPeers,        \* client connections
  PoolSize,        \* CONNECTION_THREADS
  SignPayloads,    \* what a client asks to have signed
  HostBindings,    \* session-bind requests whose signature verifies
  MaxBindings,     \* MAX_SESSION_BINDINGS
  MaxReplaces,     \* bound: catalog changes, starts of the daemon included
  MaxSshRequests,  \* bound: requests of a behaviour
  MaxSshFaults     \* bound: failures of listeners, providers and the audit log

VARIABLES
  sockets,     \* surface -> inode of the socket file, 0 for none
  listeners,   \* inode -> [surface, spec, stop, accepts]
  running,     \* surface -> inode of its listener, 0 for none
  update,      \* the call of replace in progress
  routes,      \* surfaces that the generated configuration names
  peers,       \* connection -> where it is
  sshTally     \* [replaces, requests, faults]

sshVars == <<sockets, listeners, running, update, routes, peers, sshTally>>

(***************************************************************************)
(* Compiling a snapshot.  A selection names the kind of its resource, where*)
(* its agent listens and the identities selected from it.                  *)
(***************************************************************************)
IsProvider(selection, s) ==
  \/ selection.kind = "identity"
  \/ selection.kind = "agent" /\ selection.endpoint \notin {"none", s}

IdentitiesOf(selections) ==
  FlattenSeq([i \in DOMAIN selections |->
                [j \in DOMAIN selections[i].keys |->
                   [provider |-> i, key |-> selections[i].keys[j]]]])

KeysOf(identities) == {identities[i].key : i \in DOMAIN identities}

CompileIdentitySet(s, selections) ==
  LET identities == IdentitiesOf(selections) IN
  [valid |-> /\ \A i \in DOMAIN selections : IsProvider(selections[i], s)
             /\ Cardinality(KeysOf(identities)) = Len(identities),
   identities |-> identities]

(* One invalid surface fails the whole compilation.                        *)
Compiles(snapshot) ==
  \A s \in DOMAIN snapshot : CompileIdentitySet(s, snapshot[s].selections).valid

CompileSurfaceSpecs(snapshot) ==
  [s \in DOMAIN snapshot |->
     [revision |-> snapshot[s].revision, route |-> snapshot[s].route,
      identities |-> CompileIdentitySet(s, snapshot[s].selections).identities]]

NoUpdate == [at |-> "none", surfaces |-> {}, desired |-> <<>>, todo |-> {}, failed |-> FALSE]

Out == [at |-> "out", inode |-> 0, available |-> {}, bound |-> <<>>, asks |-> <<>>,
        allowed |-> FALSE, row |-> "none", given |-> <<>>]

SshInit ==
  /\ sockets = [s \in SshSurfaces |-> 0]
  /\ listeners = <<>>
  /\ running = [s \in SshSurfaces |-> 0]
  /\ update = NoUpdate
  /\ routes = {}
  /\ peers = [p \in SshPeers |-> Out]
  /\ sshTally = [replaces |-> 0, requests |-> 0, faults |-> 0]

Fault == sshTally.faults < MaxSshFaults
Faulted == [sshTally EXCEPT !.faults = @ + 1]

(***************************************************************************)
(* SshAgentRuntime::replace, under the lock of the running listeners       *)
(***************************************************************************)
Live(s) == running[s] # 0

(* A snapshot that does not compile changes nothing.                       *)
Replace(snapshot) ==
  /\ update.at = "none" /\ sshTally.replaces < MaxReplaces
  /\ update' = IF Compiles(snapshot)
               THEN [at |-> "stopping", surfaces |-> DOMAIN snapshot,
                     desired |-> CompileSurfaceSpecs(snapshot),
                     todo |-> {s \in SshSurfaces : Live(s)} \ DOMAIN snapshot,
                     failed |-> FALSE]
               ELSE [NoUpdate EXCEPT !.surfaces = DOMAIN snapshot, !.failed = TRUE]
  /\ sshTally' = [sshTally EXCEPT !.replaces = @ + 1]
  /\ UNCHANGED <<sockets, listeners, running, routes, peers>>

(* RunningSurface::stop: the flag is set, the listener's thread woken by a *)
(* connection and joined, and the socket file removed when it is still the *)
(* listener's own.                                                         *)
FlagStop(s) ==
  /\ listeners' = [listeners EXCEPT ![running[s]].stop = TRUE]
  /\ UNCHANGED <<sockets, running>>

RemoveExactSocket(s) == [sockets EXCEPT ![s] = IF @ = running[s] THEN 0 ELSE @]

Joined(s) == ~listeners[running[s]].accepts

JoinStop(s) ==
  /\ Joined(s)
  /\ sockets' = RemoveExactSocket(s)
  /\ running' = [running EXCEPT ![s] = 0]
  /\ UNCHANGED listeners

StopsJoinFirst(s) == JoinStop(s)

Stops(s) == IF listeners[running[s]].stop THEN JoinStop(s) ELSE FlagStop(s)

StopRemoved(s) ==
  /\ update.at = "stopping" /\ s \in update.todo /\ Stops(s)
  /\ update' = [update EXCEPT !.todo = IF running'[s] = 0 THEN @ \ {s} ELSE @]
  /\ UNCHANGED <<routes, peers, sshTally>>

StartChanged ==
  /\ update.at = "stopping" /\ update.todo = {}
  /\ update' = [update EXCEPT !.at = "starting", !.todo = update.surfaces]
  /\ UNCHANGED <<sockets, listeners, running, routes, peers, sshTally>>

Unchanged(s) == Live(s) /\ listeners[running[s]].spec = update.desired[s]

KeepUnchanged(s) ==
  /\ update.at = "starting" /\ s \in update.todo /\ Unchanged(s)
  /\ update' = [update EXCEPT !.todo = @ \ {s}]
  /\ UNCHANGED <<sockets, listeners, running, routes, peers, sshTally>>

StopChanged(s) ==
  /\ update.at = "starting" /\ s \in update.todo /\ Live(s) /\ ~Unchanged(s) /\ Stops(s)
  /\ UNCHANGED <<update, routes, peers, sshTally>>

(* RunningSurface::start: a socket file that is there is stale, and        *)
(* removed; the bind may fail.                                             *)
Listen(s) ==
  LET inode == Len(listeners) + 1 IN
  /\ listeners' = Append(listeners, [surface |-> s, spec |-> update.desired[s],
                                     stop |-> FALSE, accepts |-> TRUE])
  /\ sockets' = [sockets EXCEPT ![s] = inode]
  /\ running' = [running EXCEPT ![s] = inode]
  /\ update' = [update EXCEPT !.todo = @ \ {s}]
  /\ UNCHANGED sshTally

ListenFails(s) ==
  /\ Fault /\ sshTally' = Faulted
  /\ update' = [update EXCEPT !.todo = @ \ {s}, !.failed = TRUE]
  /\ sockets' = [sockets EXCEPT ![s] = 0]
  /\ UNCHANGED <<listeners, running>>

Start(s) ==
  /\ update.at = "starting" /\ s \in update.todo /\ ~Live(s)
  /\ Listen(s) \/ ListenFails(s)
  /\ UNCHANGED <<routes, peers>>

(* The generated configuration is written when every listener started.     *)
WriteGeneratedConfig(specs) == {s \in DOMAIN specs : specs[s].route}

Finish ==
  /\ update.at = "starting" /\ update.todo = {}
  /\ routes' = IF update.failed THEN routes ELSE WriteGeneratedConfig(update.desired)
  /\ update' = [update EXCEPT !.at = "none"]
  /\ UNCHANGED <<sockets, listeners, running, peers, sshTally>>

(* The daemon is killed: its threads end, the socket files and the         *)
(* generated configuration stay.                                           *)
Kill ==
  /\ Fault /\ sshTally' = Faulted
  /\ listeners' = [i \in DOMAIN listeners |->
                    [listeners[i] EXCEPT !.stop = TRUE, !.accepts = FALSE]]
  /\ running' = [s \in SshSurfaces |-> 0]
  /\ update' = NoUpdate
  /\ peers' = [p \in SshPeers |-> Out]
  /\ UNCHANGED <<sockets, routes>>

(***************************************************************************)
(* The listener's thread and the pool that serves connections              *)
(***************************************************************************)
Peer(p, place) == peers' = [peers EXCEPT ![p].at = place]
PeerRests == UNCHANGED <<sockets, listeners, running, update, routes>>

Stopped(p) == listeners[peers[p].inode].stop

(* A client connects: the kernel queues it for the listener.               *)
Connect(p) ==
  /\ peers[p].at = "out"
  /\ \E s \in SshSurfaces :
       /\ sockets[s] # 0 /\ listeners[sockets[s]].accepts
       /\ peers' = [peers EXCEPT ![p] = [Out EXCEPT !.at = "backlog", !.inode = sockets[s]]]
  /\ PeerRests /\ UNCHANGED sshTally

(* The stop flag is read again after the accept.                           *)
Accept(p) ==
  /\ peers[p].at = "backlog" /\ listeners[peers[p].inode].accepts
  /\ IF Stopped(p) THEN peers' = [peers EXCEPT ![p] = Out] ELSE Peer(p, "queued")
  /\ PeerRests /\ UNCHANGED sshTally

(* The thread leaves its loop; clients that wait in the backlog are        *)
(* dropped with the listener.                                              *)
StopAccepting(i) ==
  /\ listeners[i].stop /\ listeners[i].accepts
  /\ listeners' = [listeners EXCEPT ![i].accepts = FALSE]
  /\ peers' = [p \in SshPeers |->
                 IF peers[p].at = "backlog" /\ peers[p].inode = i THEN Out ELSE peers[p]]
  /\ UNCHANGED <<sockets, running, update, routes, sshTally>>

Serving == {p \in SshPeers : peers[p].at \notin {"out", "backlog", "queued"}}

PoolTakes(p) ==
  /\ peers[p].at = "queued" /\ Cardinality(Serving) < PoolSize
  /\ Peer(p, "ready")
  /\ PeerRests /\ UNCHANGED sshTally

(***************************************************************************)
(* serve_connection                                                        *)
(***************************************************************************)
SpecOf(p) == listeners[peers[p].inode].spec

(* The connection ends when its surface was stopped or its client leaves.  *)
Close(p) ==
  /\ peers[p].at \in {"ready", "read"}
  /\ peers' = [peers EXCEPT ![p] = Out]
  /\ PeerRests /\ UNCHANGED sshTally

(* The flag is read, and then the frame: a stop between the two lets one   *)
(* more request in.                                                        *)
WaitForFrame(p) ==
  /\ peers[p].at = "ready" /\ ~Stopped(p)
  /\ Peer(p, "read")
  /\ PeerRests /\ UNCHANGED sshTally

Request(p, new) ==
  /\ peers[p].at = "read" /\ sshTally.requests < MaxSshRequests
  /\ sshTally' = [sshTally EXCEPT !.requests = @ + 1]
  /\ peers' = [peers EXCEPT ![p] = new]
  /\ PeerRests

Answered(p) == [peers[p] EXCEPT !.at = "ready", !.asks = <<>>, !.allowed = FALSE,
                                !.row = "none", !.given = <<>>]

(* refresh_identities: a provider that does not answer leaves the set as   *)
(* it was; an identity that its provider no longer has leaves the ones     *)
(* before it.                                                              *)
Refreshed(p) ==
  LET identities == SpecOf(p).identities IN
  {peers[p].available} \cup
    {KeysOf(SubSeq(identities, 1, n)) : n \in 0 .. Len(identities)}

AllKeys(p) == KeysOf(SpecOf(p).identities)

RequestIdentities(p) ==
  /\ peers[p].at = "read"
  /\ \E keys \in Refreshed(p) : Request(p, [Answered(p) EXCEPT !.available = keys])

(***************************************************************************)
(* Session bindings                                                        *)
(***************************************************************************)
Bind(bound, binding) ==
  IF \/ \E i \in DOMAIN bound : ~bound[i].forwarded \/ bound[i].session = binding.session
     \/ Len(bound) >= MaxBindings
  THEN bound ELSE Append(bound, binding)

(* The extension: a binding that conflicts with an earlier one is refused, *)
(* one that repeats it accepted; neither changes the bindings.             *)
HandleExtension(p) ==
  /\ peers[p].at = "read"
  /\ \E binding \in HostBindings :
       Request(p, [Answered(p) EXCEPT !.bound = Bind(peers[p].bound, binding)])

(* context_for_sign: the host that the prompt and the audit row name as    *)
(* verified.  "host" is the host key inside the signed data, if any.       *)
NoContext == [host |-> "none", hops |-> 0]

ContextForSignLoosely(bound, payload) ==
  IF bound = <<>> \/ Last(bound).forwarded \/ payload.session # Last(bound).session
  THEN NoContext
  ELSE [host |-> Last(bound).host, hops |-> Len(bound) - 1]

ContextForSign(bound, payload) ==
  IF \/ bound = <<>>
     \/ Last(bound).forwarded
     \/ payload.session # Last(bound).session
     \/ Len(bound) > 1 /\ payload.host = "none"
     \/ payload.host \notin {"none", Last(bound).host}
  THEN NoContext
  ELSE [host |-> Last(bound).host, hops |-> Len(bound) - 1]

(***************************************************************************)
(* handle_sign                                                             *)
(***************************************************************************)
(* Identities that were never listed are looked up first.                  *)
AvailableTo(p) == IF peers[p].available = {} THEN AllKeys(p) ELSE peers[p].available

Refused(p, payload) ==
  Request(p, [Answered(p) EXCEPT !.available = AvailableTo(p)])

AskOwner(p, payload) ==
  Request(p, [Answered(p) EXCEPT !.at = "authorize", !.available = AvailableTo(p),
                                 !.asks = payload])

HandleSign(p) ==
  /\ peers[p].at = "read"
  /\ \E payload \in SignPayloads :
       IF payload.key \in AvailableTo(p) THEN AskOwner(p, payload) ELSE Refused(p, payload)

(* The audit log is degraded, or the providers do not answer.              *)
SignFails(p) ==
  /\ peers[p].at = "read"
  /\ \E keys \in IF peers[p].available = {} THEN Refreshed(p) ELSE {peers[p].available} :
       Request(p, [Answered(p) EXCEPT !.available = keys])

(* The authorizer decides, possibly after a long time.                     *)
Authorize(p) ==
  /\ peers[p].at = "authorize"
  /\ \/ peers' = [peers EXCEPT ![p].at = "sign", ![p].allowed = TRUE]
     \/ peers' = [peers EXCEPT ![p] = Answered(p)]
  /\ PeerRests /\ UNCHANGED sshTally

Sign(p) ==
  /\ peers[p].at = "sign"
  /\ \/ /\ peers' = [peers EXCEPT ![p].at = "audit", ![p].given = <<peers[p].asks.key>>]
        /\ UNCHANGED sshTally
     \/ /\ Fault /\ sshTally' = Faulted
        /\ Peer(p, "audit")
  /\ PeerRests

(* A signature whose row cannot be written is withheld.                    *)
AuditRow(p) == IF peers[p].given # <<>> THEN "signed" ELSE "failed"

AuditFails(p) == [peers[p] EXCEPT !.at = "answer", !.given = <<>>]

Audit(p) ==
  /\ peers[p].at = "audit"
  /\ \/ /\ peers' = [peers EXCEPT ![p].at = "answer", ![p].row = AuditRow(p)]
        /\ UNCHANGED sshTally
     \/ /\ Fault /\ sshTally' = Faulted
        /\ peers' = [peers EXCEPT ![p] = AuditFails(p)]
  /\ PeerRests

Answer(p) ==
  /\ peers[p].at = "answer"
  /\ peers' = [peers EXCEPT ![p] = Answered(p)]
  /\ PeerRests /\ UNCHANGED sshTally

Updates ==
  \/ \E s \in SshSurfaces : StopRemoved(s) \/ KeepUnchanged(s) \/ StopChanged(s) \/ Start(s)
  \/ StartChanged \/ Finish

Handles(p) == Authorize(p) \/ Sign(p) \/ Audit(p) \/ Answer(p)

SshNext ==
  \/ \E snapshot \in Snapshots : Replace(snapshot)
  \/ Updates \/ Kill
  \/ \E i \in DOMAIN listeners : StopAccepting(i)
  \/ \E p \in SshPeers :
       \/ Connect(p) \/ Accept(p) \/ PoolTakes(p) \/ Close(p) \/ WaitForFrame(p)
       \/ RequestIdentities(p) \/ HandleExtension(p) \/ HandleSign(p) \/ SignFails(p)
       \/ Handles(p)

(* Threads are scheduled, the authorizer answers, and a connection polls   *)
(* the stop flag of its surface while it waits for a frame.                *)
SshFairness ==
  /\ WF_sshVars(Updates)
  /\ \A i \in 1 .. MaxReplaces * Cardinality(SshSurfaces) :
       WF_sshVars(i \in DOMAIN listeners /\ StopAccepting(i))
  /\ \A p \in SshPeers :
       WF_sshVars(Handles(p)) /\ WF_sshVars(peers[p].at # "out" /\ Stopped(p) /\ Close(p))

(***************************************************************************)
(* Properties                                                              *)
(***************************************************************************)
(* A surface that runs has its socket file and a listener of its own,      *)
(* which accepts until it is told to stop, and no other listener of the    *)
(* surface accepts; no more connections are served than the pool has       *)
(* threads.                                                                *)
SshTypeOK ==
  /\ \A s \in SshSurfaces :
       Live(s) => /\ listeners[running[s]].surface = s /\ sockets[s] = running[s]
                  /\ listeners[running[s]].stop \/ listeners[running[s]].accepts
  /\ \A i \in DOMAIN listeners : listeners[i].accepts => running[listeners[i].surface] = i
  /\ Cardinality(Serving) <= PoolSize

(* When replace returned without an error, the surfaces that run are the   *)
(* surfaces of the snapshot, each with the specification compiled from it, *)
(* and the generated configuration routes to no other socket.              *)
ServedSpecsAreCurrent ==
  (update.at = "none" /\ update.surfaces # {} /\ ~update.failed) =>
    /\ \A s \in SshSurfaces : Live(s) <=> s \in update.surfaces
    /\ \A s \in update.surfaces : listeners[running[s]].spec = update.desired[s]
    /\ routes \subseteq update.surfaces

(* A signature leaves the daemon only for an identity that the surface     *)
(* exposes, after an allow for this request, and with its row in the audit *)
(* log, whatever was replaced, refreshed or failed meanwhile.              *)
SignaturesAreAccountable ==
  \A p \in SshPeers :
    (peers[p].at = "answer" /\ peers[p].given # <<>>) =>
      /\ peers[p].allowed /\ peers[p].row = "signed"
      /\ peers[p].given[1] \in AllKeys(p)

(* Only the last binding of a connection is for authentication; the host   *)
(* shown as verified has proven the very session that is being signed, and *)
(* behind forwarding hops the signed data name that host themselves.       *)
VerifiedHostsAreProven ==
  \A p \in SshPeers :
    LET bound == peers[p].bound IN
    /\ \A i \in 1 .. Len(bound) - 1 : bound[i].forwarded
    /\ \A i, j \in DOMAIN bound : bound[i].session = bound[j].session => i = j
    /\ peers[p].at = "authorize" =>
         LET context == ContextForSign(bound, peers[p].asks) IN
         context # NoContext =>
           /\ \E i \in DOMAIN bound : /\ bound[i].host = context.host
                                     /\ bound[i].session = peers[p].asks.session
           /\ context.hops > 0 => peers[p].asks.host = context.host

(* A connection of a listener that no longer runs ends, the request that   *)
(* it is handling being its last one or the last but one.                  *)
ReplacedSessionsEnd ==
  \A p \in SshPeers :
    (p \in Serving /\ running[listeners[peers[p].inode].surface] # peers[p].inode)
      ~> (p \notin Serving)

(* replace returns: the thread of a listener that it stops ends.           *)
ReplaceReturns == (update.at # "none") ~> (update.at = "none")

(* What runs is what the last snapshot says, and nothing is signed that it *)
(* does not expose, that nobody allowed or that the audit log lacks.       *)
SigningIsGuarded ==
  SshTypeOK /\ ServedSpecsAreCurrent /\ SignaturesAreAccountable /\ VerifiedHostsAreProven

(* Replacing the surfaces comes to an end, for replace itself and for the  *)
(* connections of the listeners that it stopped.                           *)
ReplacementsEnd == ReplaceReturns /\ ReplacedSessionsEnd
===============================================================================
