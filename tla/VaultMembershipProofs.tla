------------------------ MODULE VaultMembershipProofs ------------------------
(***************************************************************************)
(* Proofs about VaultMembership, for any number of Macs, identities, key   *)
(* generations and crashes: members read every generation their Store      *)
(* shows, removed Devices get no later key, and neither joining nor the    *)
(* replacement of an identity makes a library unreadable.                  *)
(*                                                                         *)
(* The argument: every generation document anywhere is one of the genesis  *)
(* Mac's, whose chain has one document per number, so that what a Store    *)
(* shows is a beginning of that chain.  Every envelope anywhere is of a    *)
(* generation before the one that removed its Device.  A Mac that joined   *)
(* reads its whole Store, even after its removal, because the files of an  *)
(* operation are written in an order that puts keys before what they open. *)
(***************************************************************************)
EXTENDS VaultMembership, FiniteSetTheorems, TLAPS

(* The leaves are first-order steps; those with arithmetic or records cite SMT. *)
USE ZenonT(60)

LifecycleOps == {"none", "enroll", "revoke", "activate", "rotate"}

(* What is there: the genesis Mac keeps its first identity and stays, and  *)
(* no Mac that joined has secrets of another Vault.                        *)
StateInv ==
  /\ DOMAIN shared = Macs /\ DOMAIN held = Macs
  /\ device \in [Macs -> 1..MaxIdentities] /\ device[Genesis] = 1
  /\ joined \in SUBSET Macs /\ secrets \in SUBSET Macs
  /\ Genesis \in joined /\ joined \cap secrets = {}
  /\ <<Genesis, 1>> \in Identities(shared[Genesis])
  /\ DOMAIN job = Macs
  /\ \A m \in Macs : job[m].op \in LifecycleOps /\ DOMAIN job[m] = {"op", "todo", "target"}

Numbers(docs) == {doc.gen : doc \in Generations(docs)}
Gapless(docs) == \E n \in Nat : Numbers(docs) = 1..n

\* An identity that some Mac has or had.
Issued(id) == id \in Ids /\ id[2] <= device[id[1]]

\* The genesis Mac's chain of generations.
Chain == Generations(shared[Genesis])

(* The chain has one document per number.  A document removes Devices that *)
(* exist, never the genesis, and is for no Device that it or an earlier    *)
(* document removed.                                                       *)
ChainInv ==
  /\ \A c, d \in Chain : c.gen = d.gen => c = d
  /\ \A c \in Chain : \A id \in c.revoked : id # <<Genesis, 1>> /\ Issued(id)
  /\ \A c, r \in Chain : \A id \in r.revoked : r.gen <= c.gen => id \notin c.for

(* A generation is the genesis Mac's, an envelope is of a generation       *)
(* before the one that removed its Device, and nobody asked or was         *)
(* enrolled under an identity that does not exist yet.                     *)
DocOK(doc) ==
  /\ doc.kind = "generation" => doc \in Chain
  /\ doc.kind = "envelope" =>
       /\ doc.gen \in Numbers(shared[Genesis])
       /\ \A r \in Chain : doc.id \in r.revoked => doc.gen < r.gen
  /\ doc.kind \in {"identity", "request"} => Issued(doc.id)

AllOK(docs) == \A doc \in docs : DocOK(doc)

DocInv ==
  /\ AllOK(zone)
  /\ \A m \in Macs : AllOK(shared[m]) /\ AllOK(held[m]) /\ AllOK(job[m].todo)

(* Neither a Store, in the middle of an operation or after a crash, nor    *)
(* the zone shows a chain with a gap.                                      *)
GapInv ==
  Gapless(zone) /\ \A m \in Macs : Gapless(shared[m]) /\ Gapless(held[m])

\* Materializing the held snapshot: every document of it that is not in the
\* Store yet is still to be written.
Materializes(m) == held[m] \subseteq shared[m] \cup job[m].todo /\ job[m].todo \subseteq held[m]

(* An operation in progress: what it still writes, and why it may.         *)
JobOK(m) ==
  /\ job[m].op = "none" => job[m].todo = {}
  /\ job[m].op = "activate" => Materializes(m) /\ ReadsChain(held[m], Id(m))
  /\ job[m].op = "revoke" =>
       Materializes(m) /\ ReadsChain(held[m], Id(m)) /\ m = Genesis /\ job[m].target # <<Genesis, 1>>
  /\ job[m].op = "enroll" => m = Genesis /\ Generations(job[m].todo) = {}
  /\ job[m].op = "rotate" =>
       /\ m # Genesis /\ m \in joined
       /\ job[m].target = <<m, device[m] + 1>> /\ device[m] < MaxIdentities
       /\ Generations(job[m].todo) = {}
       /\ ReadsChain(shared[m] \cup job[m].todo, job[m].target)

JobInv == \A m \in Macs : JobOK(m)

(* A Mac that joined reads all of its Store, removed or not.               *)
MemberInv == \A m \in joined : ReadsChain(shared[m], Id(m))

MembershipInv ==
  StateInv /\ ChainInv /\ DocInv /\ GapInv /\ JobInv /\ MemberInv

-----------------------------------------------------------------------------
(* Chains of generations. *)

\* One document per number.
OnePerNumber(docs) == \A c, d \in Generations(docs) : c.gen = d.gen => c = d

LEMMA GenerationsOf == \A docs, doc : doc \in Generations(docs) <=> doc \in docs /\ doc.kind = "generation"
  BY DEF Generations, OfKind

LEMMA NumbersOf == \A docs, n : n \in Numbers(docs) <=> \E doc \in Generations(docs) : doc.gen = n
  BY DEF Numbers

\* A gapless chain with one document per number has as many documents as
\* CurrentGeneration, the number of its last one, says.
LEMMA Counted ==
  ASSUME NEW docs, Gapless(docs), OnePerNumber(docs)
  PROVE  CurrentGeneration(docs) \in Nat /\ Numbers(docs) = 1..CurrentGeneration(docs)
<1>1. PICK n \in Nat : Numbers(docs) = 1..n
  BY DEF Gapless
<1> DEFINE f == [i \in 1..n |-> CHOOSE d \in Generations(docs) : d.gen = i]
<1>2. \A i \in 1..n : f[i] \in Generations(docs) /\ f[i].gen = i
  BY <1>1, NumbersOf
<1>3. \A d \in Generations(docs) : d.gen \in 1..n /\ f[d.gen] = d
  BY <1>1, <1>2, NumbersOf DEF OnePerNumber
<1>4. f \in Bijection(1..n, Generations(docs))
  <2>1. f \in [1..n -> Generations(docs)]
    BY <1>2
  <2> HIDE DEF f
  <2>2. \A i, j \in 1..n : f[i] = f[j] => i = j
    BY <1>2
  <2>3. \A d \in Generations(docs) : \E i \in 1..n : f[i] = d
    BY <1>3
  <2>4. DOMAIN f = 1..n
    BY <2>1
  <2> QED
    BY <2>1, <2>2, <2>3, <2>4 DEF Bijection, Injection, Surjection, IsInjective
<1>5. ExistsBijection(1..n, Generations(docs))
  BY <1>4, Zenon DEF ExistsBijection
<1>6. IsFiniteSet(1..n) /\ Cardinality(1..n) = n
  BY FS_Interval, SMTT(30)
<1>7. Cardinality(Generations(docs)) = n
  BY <1>5, <1>6, FS_Bijection
<1> QED
  BY <1>1, <1>7 DEF CurrentGeneration

LEMMA GaplessSame ==
  ASSUME NEW docs, NEW others, Numbers(docs) = Numbers(others), Gapless(docs)
  PROVE  Gapless(others)
  BY DEF Gapless

\* Two chains without a gap have none together: publishing.
LEMMA GaplessUnion ==
  ASSUME NEW docs, NEW others, Gapless(docs), Gapless(others)
  PROVE  Gapless(docs \cup others)
<1>1. PICK n \in Nat : Numbers(docs) = 1..n
  BY DEF Gapless
<1>2. PICK k \in Nat : Numbers(others) = 1..k
  BY DEF Gapless
<1>3. Numbers(docs \cup others) = (1..n) \cup (1..k)
  BY <1>1, <1>2, SMTT(30) DEF Numbers, Generations, OfKind
<1>4. PICK l \in Nat : (1..n) \cup (1..k) = 1..l
  <2>1. CASE n <= k
    BY <2>1, SMTT(30)
  <2>2. CASE k <= n
    BY <2>2, SMTT(30)
  <2> QED
    BY <2>1, <2>2, SMTT(30)
<1> QED
  BY <1>3, <1>4 DEF Gapless

\* One document more leaves no gap when every number below it is there.
LEMMA GaplessAdd ==
  ASSUME NEW docs, NEW doc, Gapless(docs),
         doc.kind = "generation" =>
           doc.gen \in Nat \ {0} /\ 1..(doc.gen - 1) \subseteq Numbers(docs)
  PROVE  Gapless(docs \cup {doc})
<1>1. PICK n \in Nat : Numbers(docs) = 1..n
  BY DEF Gapless
<1>2. CASE doc.kind # "generation"
  <2>1. Numbers(docs \cup {doc}) = Numbers(docs)
    BY <1>2, SMTT(30) DEF Numbers, Generations, OfKind
  <2> QED
    BY <2>1, GaplessSame
<1>3. CASE doc.kind = "generation"
  <2>1. Numbers(docs \cup {doc}) = Numbers(docs) \cup {doc.gen}
    BY <1>3, SMTT(30) DEF Numbers, Generations, OfKind
  <2>2. doc.gen \in Nat \ {0} /\ 1..(doc.gen - 1) \subseteq 1..n
    BY <1>1, <1>3
  <2>3. PICK l \in Nat : (1..n) \cup {doc.gen} = 1..l
    <3>1. CASE doc.gen <= n
      BY <2>2, <3>1, SMTT(30)
    <3>2. CASE doc.gen > n
      <4>1. doc.gen = n + 1
        <5>1. doc.gen - 1 <= n
          BY <2>2, <3>2, SMTT(30)
        <5> QED
          BY <2>2, <3>2, <5>1, SMTT(30)
      <4> QED
        BY <4>1, SMTT(30)
    <3> QED
      BY <2>2, <3>1, <3>2, SMTT(30)
  <2> QED
    BY <1>1, <2>1, <2>3 DEF Gapless
<1> QED
  BY <1>2, <1>3

-----------------------------------------------------------------------------
(* What a step leaves as it was. *)

LEMMA IssuedKept ==
  ASSUME device' = device
  PROVE  \A id : Issued(id) => Issued(id)'
  BY DEF Issued

\* A step that adds nothing to the genesis Mac's chain keeps what is known of
\* a document.
LEMMA DocKept ==
  ASSUME Chain' = Chain, \A id : Issued(id) => Issued(id)'
  PROVE  \A doc : DocOK(doc) => DocOK(doc)'
<1>1. Numbers(shared[Genesis])' = Numbers(shared[Genesis])
  BY DEF Numbers, Chain
<1> QED
  BY <1>1 DEF DocOK

LEMMA ChainKept ==
  ASSUME Chain' = Chain, \A id : Issued(id) => Issued(id)', ChainInv
  PROVE  ChainInv'
  BY DEF ChainInv

LEMMA JobKept ==
  ASSUME NEW m \in Macs, JobOK(m), job'[m] = job[m], shared'[m] = shared[m],
         held'[m] = held[m], device'[m] = device[m], joined \subseteq joined'
  PROVE  JobOK(m)'
<1>1. Id(m)' = Id(m) /\ Materializes(m)' = Materializes(m)
  BY DEF Id, Materializes
<1> QED
  BY <1>1 DEF JobOK

\* A Mac without an operation has nothing to write.
LEMMA IdleOK ==
  ASSUME NEW m, job'[m] = NoJob
  PROVE  JobOK(m)'
<1>1. NoJob.op = "none" /\ NoJob.todo = {}
  BY DEF NoJob
<1> QED
  BY <1>1 DEF JobOK

\* The documents of a step that adds nothing to the chain.
LEMMA DocsKept ==
  ASSUME Chain' = Chain, \A id : Issued(id) => Issued(id)',
         \A doc \in zone' : DocOK(doc),
         \A m \in Macs : \A doc \in shared'[m] : DocOK(doc),
         \A m \in Macs : \A doc \in held'[m] : DocOK(doc),
         \A m \in Macs : \A doc \in job'[m].todo : DocOK(doc)
  PROVE  DocInv'
  BY DocKept DEF DocInv, AllOK

\* All generation documents anywhere are the genesis Mac's.
LEMMA PartOfChain ==
  ASSUME NEW docs, AllOK(docs), ChainInv
  PROVE  Generations(docs) \subseteq Chain /\ OnePerNumber(docs)
<1>1. Generations(docs) \subseteq Chain
  BY GenerationsOf DEF AllOK, DocOK
<1> QED
  BY <1>1 DEF OnePerNumber, ChainInv

LEMMA ChainNumbers ==
  ASSUME GapInv
  PROVE  \A c \in Chain : c.gen \in Nat \ {0}
<1>1. PICK n \in Nat : Numbers(shared[Genesis]) = 1..n
  BY MembershipAssumption DEF GapInv, Gapless
<1>2. \A c \in Chain : c.gen \in 1..n
  BY <1>1, NumbersOf DEF Chain
<1> QED
  BY <1>2, SMTT(30)

\* A daemon begins an operation, or ends one without an effect: nothing but
\* its job changes.
LEMMA JobChanges ==
  ASSUME MembershipInv, NEW m \in Macs, NEW j,
         UNCHANGED <<shared, zone, device, joined, secrets, held>>,
         job' = [job EXCEPT ![m] = j],
         j.op \in LifecycleOps, DOMAIN j = {"op", "todo", "target"},
         \A doc \in j.todo : DocOK(doc),
         JobOK(m)'
  PROVE  MembershipInv'
<1>1. Chain' = Chain /\ \A id : Issued(id) => Issued(id)'
  BY IssuedKept DEF Chain
<1>2. DOMAIN job = Macs
  BY DEF MembershipInv, StateInv
<1>3. job'[m] = j /\ \A o \in Macs \ {m} : job'[o] = job[o]
  BY <1>2
<1>4. StateInv'
  <2>1. DOMAIN job' = Macs
    BY <1>2
  <2>2. \A o \in Macs : job'[o].op \in LifecycleOps /\ DOMAIN job'[o] = {"op", "todo", "target"}
    BY <1>3 DEF MembershipInv, StateInv
  <2> QED
    BY <2>1, <2>2 DEF MembershipInv, StateInv
<1>5. ChainInv'
  BY <1>1, ChainKept DEF MembershipInv
<1>6. DocInv'
  <2>1. \A o \in Macs : \A doc \in job'[o].todo : DocOK(doc)
    BY <1>3 DEF MembershipInv, DocInv, AllOK
  <2> QED
    BY <1>1, <2>1, DocsKept DEF MembershipInv, DocInv, AllOK
<1>7. GapInv'
  BY DEF MembershipInv, GapInv
<1>8. JobInv'
  <2>1. \A o \in Macs \ {m} : JobOK(o)'
    BY <1>3, JobKept DEF MembershipInv, JobInv
  <2> QED
    BY <2>1 DEF JobInv
<1>9. MemberInv'
  BY DEF MembershipInv, MemberInv, Id
<1> QED
  BY <1>4, <1>5, <1>6, <1>7, <1>8, <1>9 DEF MembershipInv

\* A step that changes nothing but the zone, which gets documents of a Store
\* or a request.
LEMMA ZoneChanges ==
  ASSUME MembershipInv,
         UNCHANGED <<shared, device, joined, secrets, held, job>>,
         \A doc \in zone' : DocOK(doc), Gapless(zone')
  PROVE  MembershipInv'
<1>1. Chain' = Chain /\ \A id : Issued(id) => Issued(id)'
  BY IssuedKept DEF Chain
<1>2. StateInv'
  BY DEF MembershipInv, StateInv
<1>3. ChainInv'
  BY <1>1, ChainKept DEF MembershipInv
<1>4. DocInv'
  BY <1>1, DocsKept DEF MembershipInv, DocInv, AllOK
<1>5. GapInv'
  BY DEF MembershipInv, GapInv
<1>6. JobInv'
  BY JobKept DEF MembershipInv, JobInv
<1>7. MemberInv'
  BY DEF MembershipInv, MemberInv, Id
<1> QED
  BY <1>2, <1>3, <1>4, <1>5, <1>6, <1>7 DEF MembershipInv

-----------------------------------------------------------------------------
(* The initial state. *)

LEMMA MembershipStarts == MembershipInit => MembershipInv
<1> SUFFICES ASSUME MembershipInit PROVE MembershipInv
  OBVIOUS
<1> DEFINE first == Generation(1, {<<Genesis, 1>>}, {})
           docs == {Identity(<<m, 1>>) : m \in Members}
                     \cup {RequestOf(<<m, 1>>) : m \in Members \ {Genesis}}
                     \cup {Envelope(<<m, 1>>, 1, Genesis) : m \in Members \ {Genesis}}
                     \cup {Generation(1, {<<Genesis, 1>>}, {})}
<1>1. /\ \A m \in Macs : shared[m] = IF m \in Members THEN docs ELSE {}
      /\ \A m \in Macs : held[m] = IF m \in Members THEN docs ELSE {}
      /\ zone = docs /\ shared[Genesis] = docs
      /\ DOMAIN shared = Macs /\ DOMAIN held = Macs
      /\ device = [m \in Macs |-> 1] /\ joined = Members /\ secrets = {}
      /\ DOMAIN job = Macs /\ \A m \in Macs : job[m] = NoJob
  BY MembershipAssumption DEF MembershipInit
<1>2. first.kind = "generation" /\ first.gen = 1 /\ first.for = {<<Genesis, 1>>} /\ first.revoked = {}
  BY SMTT(30) DEF Generation
<1>3. ASSUME NEW doc \in docs
      PROVE  \/ doc = first
             \/ doc.kind \in {"identity", "request"} /\ \E m \in Members : doc.id = <<m, 1>>
             \/ doc.kind = "envelope" /\ doc.gen = 1
  BY <1>3, SMTT(30) DEF Identity, RequestOf, Envelope
<1>4. Generations(docs) = {first} /\ Numbers(docs) = {1} /\ Numbers({}) = {}
  <2>1. Generations(docs) = {first}
    <3>1. \A doc \in docs : doc.kind = "generation" => doc = first
      BY <1>3
    <3>2. first \in docs
      OBVIOUS
    <3> HIDE DEF first, docs
    <3> QED
      BY <1>2, <3>1, <3>2, SMTT(30) DEF Generations, OfKind
  <2> HIDE DEF first, docs
  <2> QED
    BY <1>2, <2>1, SMTT(30) DEF Numbers, Generations, OfKind
<1>5. <<Genesis, 1>> \in Identities(docs)
  <2>1. Identity(<<Genesis, 1>>) \in docs
    BY MembershipAssumption
  <2>2. Identity(<<Genesis, 1>>).kind = "identity" /\ Identity(<<Genesis, 1>>).id = <<Genesis, 1>>
    BY DEF Identity
  <2> HIDE DEF docs
  <2> QED
    BY <2>1, <2>2 DEF Identities, OfKind
<1>6. \A m \in Members : <<m, 1>> \in Ids /\ <<m, 1>>[1] = m /\ <<m, 1>>[2] = 1
  BY MembershipAssumption, SMTT(30) DEF Ids
<1>8. \A m \in Members : ReadsChain(docs, <<m, 1>>)
  <2>1. ASSUME NEW m \in Members, m # Genesis
        PROVE  Envelope(<<m, 1>>, 1, Genesis) \in docs
    BY <2>1
  <2>2. \A m : LET env == Envelope(<<m, 1>>, 1, Genesis)
               IN env.kind = "envelope" /\ env.id = <<m, 1>> /\ env.gen = 1
    BY SMTT(30) DEF Envelope
  <2> HIDE DEF docs, first
  <2>3. \A m \in Members : Unwraps(docs, <<m, 1>>, first)
    BY <1>2, <2>1, <2>2 DEF Unwraps, OfKind
  <2> QED
    BY <1>4, <2>3 DEF ReadsChain
<1> HIDE DEF first, docs
<1>9. Chain = {first}
  BY <1>1, <1>4 DEF Chain
<1>10. \A m \in Members : Issued(<<m, 1>>)
  <2>1. \A m \in Members : device[m] = 1
    BY <1>1, MembershipAssumption
  <2>2. 1 <= 1
    BY SMTT(30)
  <2> QED
    BY <1>6, <2>1, <2>2 DEF Issued
<1>11. AllOK(docs) /\ AllOK({})
  <2>1. ASSUME NEW doc \in docs PROVE DocOK(doc)
    BY <1>1, <1>2, <1>3, <1>4, <1>9, <1>10 DEF DocOK
  <2> QED
    BY <2>1 DEF AllOK
<1>12. Gapless(docs) /\ Gapless({})
  <2>1. 1..1 = {1} /\ 1..0 = {} /\ 1 \in Nat /\ 0 \in Nat
    BY SMTT(30)
  <2> QED
    BY <1>4, <2>1 DEF Gapless
<1>13. StateInv
  <2>1. device \in [Macs -> 1..MaxIdentities] /\ device[Genesis] = 1
    BY <1>1, MembershipAssumption, SMTT(30)
  <2>2. \A m \in Macs : job[m].op \in LifecycleOps /\ DOMAIN job[m] = {"op", "todo", "target"}
    BY <1>1, SMTT(30) DEF NoJob, LifecycleOps
  <2> QED
    BY <1>1, <1>5, <2>1, <2>2, MembershipAssumption DEF StateInv
<1>14. ChainInv
  BY <1>2, <1>9 DEF ChainInv
<1>15. DocInv
  <2>1. \A m \in Macs : job[m].todo = {}
    BY <1>1, SMTT(30) DEF NoJob
  <2> QED
    BY <1>1, <1>11, <2>1 DEF DocInv
<1>16. GapInv
  BY <1>1, <1>12 DEF GapInv
<1>17. JobInv
  <2>1. NoJob.op = "none" /\ NoJob.todo = {}
    BY DEF NoJob
  <2> QED
    BY <1>1, <2>1 DEF JobInv, JobOK
<1>18. MemberInv
  <2>1. \A m \in Members : device[m] = 1
    BY <1>1, MembershipAssumption
  <2> QED
    BY <1>1, <1>8, <2>1, MembershipAssumption DEF MemberInv, Id
<1> QED
  BY <1>13, <1>14, <1>15, <1>16, <1>17, <1>18 DEF MembershipInv

-----------------------------------------------------------------------------
(* The record zone. *)

LEMMA IdIssued == ASSUME StateInv, NEW m \in Macs PROVE Issued(Id(m))
<1>1. device[m] \in 1..MaxIdentities
  BY DEF StateInv
<1>2. <<m, device[m]>>[1] = m /\ <<m, device[m]>>[2] = device[m] /\ <<m, device[m]>> \in Ids
  BY <1>1 DEF Ids
<1>3. device[m] <= device[m]
  BY <1>1, SMTT(30)
<1> QED
  BY <1>2, <1>3 DEF Issued, Id

LEMMA RequestShape == \A id : RequestOf(id).kind = "request" /\ RequestOf(id).id = id
  BY DEF RequestOf

LEMMA RequestIsOK == ASSUME NEW id, Issued(id) PROVE DocOK(RequestOf(id))
  BY RequestShape DEF DocOK

\* A request leaves the chain as it is.
LEMMA RequestIsNoGeneration ==
  ASSUME NEW docs, NEW id, Gapless(docs)
  PROVE  Gapless(docs \cup {RequestOf(id)})
<1>1. RequestOf(id).kind # "generation"
  BY RequestShape
<1> QED
  BY <1>1, GaplessAdd

LEMMA PublishLifecycleKeeps ==
  ASSUME MembershipInv, NEW m \in Macs, PublishLifecycle(m) PROVE MembershipInv'
<1>1. zone' = zone \cup shared[m] /\ UNCHANGED <<shared, device, joined, secrets, held, job>>
  BY DEF PublishLifecycle
<1>2. \A doc \in zone' : DocOK(doc)
  BY <1>1 DEF MembershipInv, DocInv, AllOK
<1>3. Gapless(zone')
  BY <1>1, GaplessUnion DEF MembershipInv, GapInv
<1> QED
  BY <1>1, <1>2, <1>3, ZoneChanges

LEMMA RequestEnrollmentKeeps ==
  ASSUME MembershipInv, NEW m \in Macs, RequestEnrollment(m) PROVE MembershipInv'
<1>1. zone' = zone \cup {RequestOf(Id(m))} /\ UNCHANGED <<shared, device, joined, secrets, held, job>>
  BY DEF RequestEnrollment
<1>2. \A doc \in zone' : DocOK(doc)
  BY <1>1, IdIssued, RequestIsOK DEF MembershipInv, DocInv, AllOK
<1>3. Gapless(zone')
  BY <1>1, RequestIsNoGeneration DEF MembershipInv, GapInv
<1> QED
  BY <1>1, <1>2, <1>3, ZoneChanges

LEMMA LoadLifecycleKeeps ==
  ASSUME MembershipInv, NEW m \in Macs, LoadLifecycle(m) PROVE MembershipInv'
<1>1. /\ held' = [held EXCEPT ![m] = zone] /\ job[m].op = "none"
      /\ UNCHANGED <<shared, zone, device, joined, secrets, job>>
  BY DEF LoadLifecycle, NobodyBusy
<1>2. held'[m] = zone /\ \A o \in Macs \ {m} : held'[o] = held[o]
  BY <1>1 DEF MembershipInv, StateInv
<1>3. Chain' = Chain /\ \A id : Issued(id) => Issued(id)'
  BY <1>1, IssuedKept DEF Chain
<1>4. StateInv'
  BY <1>1 DEF MembershipInv, StateInv
<1>5. ChainInv'
  BY <1>3, ChainKept DEF MembershipInv
<1>6. DocInv'
  <2>1. \A o \in Macs : \A doc \in held'[o] : DocOK(doc)
    BY <1>2 DEF MembershipInv, DocInv, AllOK
  <2> QED
    BY <1>1, <1>3, <2>1, DocsKept DEF MembershipInv, DocInv, AllOK
<1>7. GapInv'
  BY <1>1, <1>2 DEF MembershipInv, GapInv
<1>8. JobInv'
  <2>1. \A o \in Macs \ {m} : JobOK(o)'
    BY <1>1, <1>2, JobKept DEF MembershipInv, JobInv
  <2>2. JobOK(m)'
    BY <1>1 DEF MembershipInv, JobInv, JobOK
  <2> QED
    BY <2>1, <2>2 DEF JobInv
<1>9. MemberInv'
  BY <1>1 DEF MembershipInv, MemberInv, Id
<1> QED
  BY <1>4, <1>5, <1>6, <1>7, <1>8, <1>9 DEF MembershipInv

LEMMA AddSecretKeeps ==
  ASSUME MembershipInv, NEW m \in Macs, AddSecret(m) PROVE MembershipInv'
<1>1. /\ m \notin joined /\ secrets' = secrets \cup {m}
      /\ UNCHANGED <<shared, zone, device, joined, held, job>>
  BY DEF AddSecret
<1>2. Chain' = Chain /\ \A id : Issued(id) => Issued(id)'
  BY <1>1, IssuedKept DEF Chain
<1>3. StateInv'
  BY <1>1 DEF MembershipInv, StateInv
<1>4. ChainInv'
  BY <1>2, ChainKept DEF MembershipInv
<1>5. DocInv'
  BY <1>1, <1>2, DocsKept DEF MembershipInv, DocInv, AllOK
<1>6. GapInv'
  BY <1>1 DEF MembershipInv, GapInv
<1>7. JobInv'
  BY <1>1, JobKept DEF MembershipInv, JobInv
<1>8. MemberInv'
  BY <1>1 DEF MembershipInv, MemberInv, Id
<1> QED
  BY <1>3, <1>4, <1>5, <1>6, <1>7, <1>8 DEF MembershipInv

-----------------------------------------------------------------------------
(* Operations that begin. *)

LEMMA BeginKeeps ==
  ASSUME MembershipInv, NEW m \in Macs, NEW op \in LifecycleOps, NEW todo, NEW target,
         Begin(m, op, todo, target),
         UNCHANGED <<shared, zone, device, joined, secrets, held>>,
         \A doc \in todo : DocOK(doc),
         job'[m].op = op /\ job'[m].todo = todo /\ job'[m].target = target => JobOK(m)'
  PROVE  MembershipInv'
<1> DEFINE j == [op |-> op, todo |-> todo, target |-> target]
<1>1. job' = [job EXCEPT ![m] = j]
  BY DEF Begin
<1>2. j.op = op /\ j.todo = todo /\ j.target = target /\ DOMAIN j = {"op", "todo", "target"}
  BY SMTT(30)
<1> HIDE DEF j
<1>3. job'[m] = j
  BY <1>1 DEF MembershipInv, StateInv
<1>4. JobOK(m)'
  BY <1>2, <1>3
<1> QED
  BY <1>1, <1>2, <1>4, JobChanges

LEMMA EnrollsDocs ==
  ASSUME NEW docs, NEW id, NEW doc \in Enrolls(docs, id)
  PROVE  \/ doc.kind = "identity" /\ doc.id = id
         \/ doc.kind = "envelope" /\ doc.id = id /\ doc.gen \in 1..CurrentGeneration(docs)
  BY SMTT(30) DEF Enrolls, Identity, Envelope

LEMMA ApproveEnrollmentKeeps ==
  ASSUME MembershipInv, NEW id, ApproveEnrollment(id) PROVE MembershipInv'
<1> DEFINE todo == Enrolls(shared[Genesis], id)
<1>1. /\ id \in Requests(held[Genesis]) /\ id \notin Revoked(shared[Genesis])
      /\ Begin(Genesis, "enroll", todo, id)
      /\ UNCHANGED <<shared, zone, device, joined, secrets, held>>
  BY DEF ApproveEnrollment
<1>2. Genesis \in Macs
  BY MembershipAssumption
<1>3. Issued(id)
  BY <1>1, <1>2 DEF Requests, OfKind, MembershipInv, DocInv, AllOK, DocOK
<1>4. Numbers(shared[Genesis]) = 1..CurrentGeneration(shared[Genesis])
  BY <1>2, Counted DEF MembershipInv, GapInv, ChainInv, Chain, OnePerNumber
<1>5. \A r \in Chain : id \notin r.revoked
  BY <1>1 DEF Revoked, Chain
<1>6. ASSUME NEW doc \in todo PROVE DocOK(doc) /\ doc.kind # "generation"
  <2>1. \/ doc.kind = "identity" /\ doc.id = id
        \/ doc.kind = "envelope" /\ doc.id = id /\ doc.gen \in 1..CurrentGeneration(shared[Genesis])
    BY <1>6, EnrollsDocs
  <2> QED
    BY <1>3, <1>4, <1>5, <2>1 DEF DocOK
<1> HIDE DEF todo
<1>7. Generations(todo) = {}
  BY <1>6, GenerationsOf
<1>8. job'[Genesis].op = "enroll" /\ job'[Genesis].todo = todo => JobOK(Genesis)'
  BY <1>7 DEF JobOK
<1> QED
  BY <1>1, <1>2, <1>6, <1>8, BeginKeeps DEF LifecycleOps

LEMMA RevokeDeviceKeeps ==
  ASSUME MembershipInv, NEW id, RevokeDevice(id) PROVE MembershipInv'
<1> DEFINE todo == held[Genesis] \ shared[Genesis]
<1>1. /\ HasAccess(held[Genesis], <<Genesis, 1>>) /\ id # <<Genesis, 1>>
      /\ Begin(Genesis, "revoke", todo, id)
      /\ UNCHANGED <<shared, zone, device, joined, secrets, held>>
  BY DEF RevokeDevice
<1>2. Genesis \in Macs
  BY MembershipAssumption
<1>3. ReadsChain(held[Genesis], Id(Genesis))
  BY <1>1 DEF HasAccess, Id, MembershipInv, StateInv
<1>4. ASSUME job'[Genesis].op = "revoke", job'[Genesis].todo = todo, job'[Genesis].target = id
      PROVE  JobOK(Genesis)'
  <2>1. Materializes(Genesis)'
    BY <1>1, <1>4 DEF Materializes
  <2>2. ReadsChain(held[Genesis], Id(Genesis))'
    BY <1>1, <1>3 DEF Id
  <2> QED
    BY <1>1, <1>4, <2>1, <2>2 DEF JobOK
<1>5. \A doc \in todo : DocOK(doc)
  BY <1>2 DEF MembershipInv, DocInv, AllOK
<1> QED
  BY <1>1, <1>2, <1>4, <1>5, BeginKeeps DEF LifecycleOps

LEMMA CountItemsKeeps ==
  ASSUME MembershipInv, NEW m \in Macs, CountItems(m) PROVE MembershipInv'
<1> DEFINE todo == held[m] \ shared[m]
<1>1. /\ HasAccess(held[m], Id(m)) /\ Begin(m, "activate", todo, Id(m))
      /\ UNCHANGED <<shared, zone, device, joined, secrets, held>>
  BY DEF CountItems
<1>2. ASSUME job'[m].op = "activate", job'[m].todo = todo
      PROVE  JobOK(m)'
  <2>1. Materializes(m)'
    BY <1>1, <1>2 DEF Materializes
  <2>2. ReadsChain(held[m], Id(m))'
    BY <1>1 DEF Id, HasAccess
  <2> QED
    BY <1>2, <2>1, <2>2 DEF JobOK
<1>3. \A doc \in todo : DocOK(doc)
  BY DEF MembershipInv, DocInv, AllOK
<1> QED
  BY <1>1, <1>2, <1>3, BeginKeeps DEF LifecycleOps

\* Rewraps gives the new identity every key of the Store, and nothing else.
LEMMA RewrapsDocs ==
  ASSUME NEW m, NEW fresh
  PROVE  /\ \A env \in Rewraps(m, fresh) :
              /\ env.kind = "envelope" /\ env.id = fresh
              /\ \E c \in Generations(shared[m]) : env.gen = c.gen
         /\ \A c \in Generations(shared[m]) : Unwraps(shared[m], Id(m), c) =>
              \E env \in Rewraps(m, fresh) : env.kind = "envelope" /\ env.id = fresh /\ env.gen = c.gen
<1>1. \A c : LET env == Envelope(fresh, c.gen, m)
             IN env.kind = "envelope" /\ env.id = fresh /\ env.gen = c.gen
  BY SMTT(30) DEF Envelope
<1> QED
  BY <1>1 DEF Rewraps

LEMMA RequestReenrollmentKeeps ==
  ASSUME MembershipInv, NEW m \in Macs, RequestReenrollment(m) PROVE MembershipInv'
<1> DEFINE fresh == <<m, device[m] + 1>>
           todo == Rewraps(m, fresh)
<1>1. /\ device[m] < MaxIdentities /\ m \in joined /\ m # Genesis
      /\ Begin(m, "rotate", todo, fresh)
      /\ UNCHANGED <<shared, zone, device, joined, secrets, held>>
  BY DEF RequestReenrollment
<1>2. ~Issued(fresh)
  <2>1. device[m] \in Nat
    BY SMTT(30) DEF MembershipInv, StateInv
  <2>2. ~(device[m] + 1 <= device[m])
    BY <2>1, SMTT(30)
  <2>3. fresh[1] = m /\ fresh[2] = device[m] + 1
    OBVIOUS
  <2> QED
    BY <2>2, <2>3 DEF Issued
<1> HIDE DEF fresh
<1>3. /\ \A env \in todo : /\ env.kind = "envelope" /\ env.id = fresh
                           /\ \E c \in Generations(shared[m]) : env.gen = c.gen
      /\ \A c \in Generations(shared[m]) : Unwraps(shared[m], Id(m), c) =>
           \E env \in todo : env.kind = "envelope" /\ env.id = fresh /\ env.gen = c.gen
  BY RewrapsDocs, SMTT(30)
<1>4. \A c \in Generations(shared[m]) : c.gen \in Numbers(shared[Genesis])
  BY PartOfChain, NumbersOf DEF MembershipInv, DocInv, Chain
<1>5. \A c \in Generations(shared[m]) : Unwraps(shared[m], Id(m), c)
  BY <1>1 DEF MembershipInv, MemberInv, ReadsChain
<1> HIDE DEF todo
<1>6. \A doc \in todo : DocOK(doc) /\ doc.kind # "generation"
  <2>1. \A r \in Chain : fresh \notin r.revoked
    BY <1>2 DEF MembershipInv, ChainInv
  <2> QED
    BY <1>3, <1>4, <2>1 DEF DocOK
<1>7. Generations(todo) = {}
  BY <1>6, GenerationsOf
<1>8. ReadsChain(shared[m] \cup todo, fresh)
  <2>1. \A c \in Generations(shared[m] \cup todo) : c \in Generations(shared[m])
    BY <1>6, GenerationsOf
  <2> QED
    BY <1>3, <1>5, <2>1 DEF ReadsChain, Unwraps, OfKind
<1>9. job'[m].op = "rotate" /\ job'[m].todo = todo /\ job'[m].target = fresh => JobOK(m)'
  BY <1>1, <1>7, <1>8 DEF JobOK, fresh
<1> QED
  BY <1>1, <1>6, <1>9, BeginKeeps DEF LifecycleOps

LEMMA NoJobShape ==
  NoJob.op = "none" /\ NoJob.todo = {} /\ DOMAIN NoJob = {"op", "todo", "target"}
  BY SMTT(30) DEF NoJob

LEMMA CrashOfMacKeeps ==
  ASSUME MembershipInv, NEW m \in Macs, CrashOfMac(m) PROVE MembershipInv'
<1>1. /\ job' = [job EXCEPT ![m] = NoJob]
      /\ UNCHANGED <<shared, zone, device, joined, secrets, held>>
  BY DEF CrashOfMac, EndJob
<1>2. job'[m] = NoJob
  BY <1>1 DEF MembershipInv, StateInv
<1> QED
  BY <1>1, <1>2, NoJobShape, IdleOK, JobChanges DEF LifecycleOps

\* Merging replaces the Store of a Mac that has not joined by a snapshot that
\* it reads.
LEMMA MergeSecretsKeeps ==
  ASSUME MembershipInv, NEW m \in Macs, MergeSecrets(m) PROVE MembershipInv'
<1>1. /\ m \notin joined /\ HasAccess(held[m], Id(m)) /\ job[m].op = "none"
      /\ shared' = [shared EXCEPT ![m] = held[m]]
      /\ joined' = joined \cup {m} /\ secrets' = secrets \ {m}
      /\ UNCHANGED <<zone, device, held, job>>
  BY DEF MergeSecrets, NobodyBusy
<1>2. m # Genesis
  BY <1>1 DEF MembershipInv, StateInv
<1>3. shared'[m] = held[m] /\ \A o \in Macs \ {m} : shared'[o] = shared[o]
  BY <1>1 DEF MembershipInv, StateInv
<1>4. shared'[Genesis] = shared[Genesis]
  BY <1>2, <1>3, MembershipAssumption
<1>5. Chain' = Chain /\ \A id : Issued(id) => Issued(id)'
  BY <1>1, <1>4, IssuedKept DEF Chain
<1>6. StateInv'
  BY <1>1, <1>4 DEF MembershipInv, StateInv
<1>7. ChainInv'
  BY <1>5, ChainKept DEF MembershipInv
<1>8. DocInv'
  <2>1. \A o \in Macs : \A doc \in shared'[o] : DocOK(doc)
    BY <1>3 DEF MembershipInv, DocInv, AllOK
  <2> QED
    BY <1>1, <1>5, <2>1, DocsKept DEF MembershipInv, DocInv, AllOK
<1>9. GapInv'
  BY <1>1, <1>3 DEF MembershipInv, GapInv
<1>10. JobInv'
  <2>1. \A o \in Macs \ {m} : JobOK(o)'
    BY <1>1, <1>3, JobKept DEF MembershipInv, JobInv
  <2>2. JobOK(m)'
    BY <1>1 DEF MembershipInv, JobInv, JobOK
  <2> QED
    BY <2>1, <2>2 DEF JobInv
<1>11. MemberInv'
  <2>1. \A o : Id(o)' = Id(o)
    BY <1>1 DEF Id
  <2> QED
    BY <1>1, <1>3, <2>1 DEF MembershipInv, StateInv, MemberInv, HasAccess
<1> QED
  BY <1>6, <1>7, <1>8, <1>9, <1>10, <1>11 DEF MembershipInv

-----------------------------------------------------------------------------
(* The files of an operation. *)

LEMMA UnwrapsMore ==
  ASSUME NEW docs, NEW others, NEW id, NEW c, docs \subseteq others, Unwraps(docs, id, c)
  PROVE  Unwraps(others, id, c)
  BY DEF Unwraps, OfKind

\* One Mac's Store and job change, and the genesis Mac's chain does not.
LEMMA StoreChanges ==
  ASSUME MembershipInv, NEW m \in Macs, NEW docs, NEW j,
         UNCHANGED <<zone, device, joined, secrets, held>>,
         shared' = [shared EXCEPT ![m] = docs], job' = [job EXCEPT ![m] = j],
         j.op \in LifecycleOps, DOMAIN j = {"op", "todo", "target"},
         m = Genesis => Generations(docs) = Chain /\ <<Genesis, 1>> \in Identities(docs),
         \A doc \in docs : DocOK(doc), \A doc \in j.todo : DocOK(doc),
         Gapless(docs), m \in joined => ReadsChain(docs, Id(m)),
         JobOK(m)'
  PROVE  MembershipInv'
<1>1. DOMAIN job = Macs /\ DOMAIN shared = Macs
  BY DEF MembershipInv, StateInv
<1>2. /\ job'[m] = j /\ shared'[m] = docs
      /\ \A o \in Macs \ {m} : job'[o] = job[o] /\ shared'[o] = shared[o]
  BY <1>1
<1>3. Genesis \in Macs
  BY MembershipAssumption
<1>4. Chain' = Chain
  BY <1>2, <1>3 DEF Chain
<1>5. \A id : Issued(id) => Issued(id)'
  BY IssuedKept
<1>6. StateInv'
  <2>1. DOMAIN job' = Macs /\ DOMAIN shared' = Macs
    BY <1>1
  <2>2. \A o \in Macs : job'[o].op \in LifecycleOps /\ DOMAIN job'[o] = {"op", "todo", "target"}
    BY <1>2 DEF MembershipInv, StateInv
  <2>3. <<Genesis, 1>> \in Identities(shared'[Genesis])
    BY <1>2, <1>3 DEF MembershipInv, StateInv
  <2> QED
    BY <2>1, <2>2, <2>3 DEF MembershipInv, StateInv
<1>7. ChainInv'
  BY <1>4, <1>5, ChainKept DEF MembershipInv
<1>8. DocInv'
  <2>1. \A o \in Macs : \A doc \in job'[o].todo : DocOK(doc)
    BY <1>2 DEF MembershipInv, DocInv, AllOK
  <2>2. \A o \in Macs : \A doc \in shared'[o] : DocOK(doc)
    BY <1>2 DEF MembershipInv, DocInv, AllOK
  <2> QED
    BY <1>4, <1>5, <2>1, <2>2, DocsKept DEF MembershipInv, DocInv, AllOK
<1>9. GapInv'
  BY <1>2 DEF MembershipInv, GapInv
<1>10. JobInv'
  <2>1. \A o \in Macs \ {m} : JobOK(o)'
    BY <1>2, JobKept DEF MembershipInv, JobInv
  <2> QED
    BY <2>1 DEF JobInv
<1>11. MemberInv'
  <2>1. \A o : Id(o)' = Id(o)
    BY DEF Id
  <2> QED
    BY <1>2, <2>1 DEF MembershipInv, StateInv, MemberInv
<1> QED
  BY <1>6, <1>7, <1>8, <1>9, <1>10, <1>11 DEF MembershipInv

LEMMA RankOf ==
  \A doc : /\ doc.kind = "envelope" => Rank(doc) = 3
           /\ doc.kind = "generation" => Rank(doc) = 3 + doc.gen
  BY SMTT(30) DEF Rank

\* A generation is written after the keys that open it and after every
\* generation before it.
LEMMA WrittenInOrder ==
  ASSUME MembershipInv, NEW m \in Macs, NEW doc \in job[m].todo, doc.kind = "generation",
         \A other \in job[m].todo : Rank(doc) <= Rank(other)
  PROVE  /\ doc.gen \in Nat \ {0} /\ 1..(doc.gen - 1) \subseteq Numbers(shared[m])
         /\ Unwraps(shared[m], Id(m), doc)
<1>1. DocOK(doc) /\ JobOK(m)
  BY DEF MembershipInv, DocInv, AllOK, JobInv
<1>2. doc \in Generations(job[m].todo)
  BY GenerationsOf
<1>3. Materializes(m) /\ ReadsChain(held[m], Id(m))
  BY <1>1, <1>2 DEF JobOK, MembershipInv, StateInv, LifecycleOps
<1>4. doc.gen \in Nat \ {0}
  BY <1>1, ChainNumbers DEF DocOK, MembershipInv
<1>5. doc \in Generations(held[m])
  BY <1>3, GenerationsOf DEF Materializes
<1>6. Rank(doc) = 3 + doc.gen
  BY RankOf
<1>7. ASSUME NEW i \in 1..(doc.gen - 1) PROVE i \in Numbers(shared[m])
  <2>1. PICK n \in Nat : Numbers(held[m]) = 1..n
    BY DEF MembershipInv, GapInv, Gapless
  <2>2. doc.gen \in 1..n
    BY <1>5, <2>1, NumbersOf
  <2>3. i \in 1..n /\ i \in Nat /\ i < doc.gen
    BY <1>4, <2>2, SMTT(30)
  <2>4. PICK d \in Generations(held[m]) : d.gen = i
    BY <2>1, <2>3, NumbersOf
  <2>5. d \notin job[m].todo
    <3>1. SUFFICES ASSUME d \in job[m].todo PROVE FALSE
      OBVIOUS
    <3>2. Rank(d) = 3 + i /\ Rank(doc) <= Rank(d)
      BY <2>4, <3>1, RankOf, GenerationsOf
    <3> QED
      BY <1>4, <1>6, <2>3, <3>2, SMTT(30)
  <2>6. d \in Generations(shared[m])
    BY <1>3, <2>4, <2>5, GenerationsOf DEF Materializes
  <2> QED
    BY <2>4, <2>6, NumbersOf
<1>8. Unwraps(shared[m], Id(m), doc)
  <2>1. Unwraps(held[m], Id(m), doc)
    BY <1>3, <1>5 DEF ReadsChain
  <2>2. \A env \in held[m] : env.kind = "envelope" => env \in shared[m]
    <3>1. SUFFICES ASSUME NEW env \in job[m].todo, env.kind = "envelope" PROVE FALSE
      BY <1>3 DEF Materializes
    <3>2. Rank(env) = 3 /\ Rank(doc) <= Rank(env)
      BY <3>1, RankOf
    <3> QED
      BY <1>4, <1>6, <3>2, SMTT(30)
  <2> QED
    BY <2>1, <2>2 DEF Unwraps, OfKind
<1> QED
  BY <1>4, <1>7, <1>8

LEMMA WriteFileKeeps ==
  ASSUME MembershipInv, NEW m \in Macs, WriteFile(m) PROVE MembershipInv'
<1>1. PICK doc \in job[m].todo :
        /\ \A other \in job[m].todo : Rank(doc) <= Rank(other)
        /\ IF Collides(doc, shared[m])
           THEN job' = [job EXCEPT ![m] = NoJob] /\ UNCHANGED shared
           ELSE /\ shared' = [shared EXCEPT ![m] = @ \cup {doc}]
                /\ job' = [job EXCEPT ![m].todo = @ \ {doc}]
        /\ UNCHANGED <<zone, device, joined, secrets, held>>
  BY DEF WriteFile
<1>2. CASE job' = [job EXCEPT ![m] = NoJob] /\ UNCHANGED shared
  <2>1. job'[m] = NoJob
    BY <1>2 DEF MembershipInv, StateInv
  <2> QED
    BY <1>1, <1>2, <2>1, NoJobShape, IdleOK, JobChanges DEF LifecycleOps
<1>3. CASE /\ shared' = [shared EXCEPT ![m] = @ \cup {doc}]
           /\ job' = [job EXCEPT ![m].todo = @ \ {doc}]
  <2> DEFINE docs == shared[m] \cup {doc}
             j == [job[m] EXCEPT !.todo = @ \ {doc}]
  <2>1. shared' = [shared EXCEPT ![m] = docs] /\ job' = [job EXCEPT ![m] = j]
    BY <1>3
  <2>2. DOMAIN job = Macs /\ DOMAIN job[m] = {"op", "todo", "target"} /\ job[m].op \in LifecycleOps
    BY DEF MembershipInv, StateInv
  <2>3. /\ DOMAIN j = {"op", "todo", "target"} /\ j.op = job[m].op
        /\ j.target = job[m].target /\ j.todo = job[m].todo \ {doc}
    BY <2>2, SMTT(30)
  <2> HIDE DEF j
  <2>4. job'[m] = j /\ shared'[m] = docs
    BY <2>1, <2>2 DEF MembershipInv, StateInv
  <2>5. DocOK(doc) /\ JobOK(m) /\ \A d \in shared[m] : DocOK(d)
    BY DEF MembershipInv, DocInv, AllOK, JobInv
  <2>6. m = Genesis => Generations(docs) = Chain /\ <<Genesis, 1>> \in Identities(docs)
    <3>1. SUFFICES ASSUME m = Genesis
                   PROVE  Generations(docs) = Chain /\ <<Genesis, 1>> \in Identities(docs)
      OBVIOUS
    <3>2. ASSUME NEW d \in Generations(docs) PROVE d \in Chain
      <4>1. d \in docs /\ d.kind = "generation"
        BY <3>2, GenerationsOf
      <4>2. DocOK(d)
        BY <2>5, <4>1
      <4> QED
        BY <4>1, <4>2 DEF DocOK
    <3>3. \A d \in Chain : d \in Generations(docs)
      BY <3>1, GenerationsOf DEF Chain
    <3>4. Identities(shared[m]) \subseteq Identities(docs)
      BY DEF Identities, OfKind
    <3>5. <<Genesis, 1>> \in Identities(docs)
      BY <3>1, <3>4 DEF MembershipInv, StateInv
    <3> QED
      BY <3>2, <3>3, <3>5
  <2>7. \A d \in docs : DocOK(d)
    BY <2>5
  <2>8. \A d \in j.todo : DocOK(d)
    BY <2>3 DEF MembershipInv, DocInv, AllOK
  <2>9. Gapless(docs)
    BY <1>1, WrittenInOrder, GaplessAdd DEF MembershipInv, GapInv
  <2>10. ASSUME m \in joined PROVE ReadsChain(docs, Id(m))
    <3>1. ASSUME NEW c \in Generations(docs) PROVE Unwraps(shared[m], Id(m), c)
      <4>1. CASE c \in shared[m]
        BY <2>10, <3>1, <4>1, GenerationsOf DEF MembershipInv, MemberInv, ReadsChain
      <4>2. CASE c = doc
        <5>1. doc.kind = "generation"
          BY <3>1, <4>2, GenerationsOf
        <5> QED
          BY <1>1, <4>2, <5>1, WrittenInOrder
      <4>3. c \in docs
        BY <3>1, GenerationsOf
      <4> QED
        BY <4>1, <4>2, <4>3
    <3> QED
      BY <3>1, UnwrapsMore DEF ReadsChain
  <2>11. JobOK(m)'
    <3>1. docs \cup j.todo = shared[m] \cup job[m].todo
      BY <2>3
    <3>2. Id(m)' = Id(m) /\ (Materializes(m) => Materializes(m)')
      BY <1>1, <2>3, <2>4, <3>1 DEF Id, Materializes
    <3>3. Generations(job[m].todo) = {} => Generations(j.todo) = {}
      BY <2>3, GenerationsOf
    <3>4. job[m].op # "none"
      BY <2>5 DEF JobOK
    <3>5. held'[m] = held[m] /\ device' = device /\ joined' = joined
      BY <1>1
    <3> HIDE DEF docs
    <3> QED
      BY <2>3, <2>4, <2>5, <3>1, <3>2, <3>3, <3>4, <3>5 DEF JobOK
  <2> HIDE DEF docs
  <2> QED
    BY <1>1, <2>1, <2>2, <2>3, <2>6, <2>7, <2>8, <2>9, <2>10, <2>11, StoreChanges
<1> QED
  BY <1>1, <1>2, <1>3

LEMMA FinishEnrollKeeps == ASSUME MembershipInv, FinishEnroll PROVE MembershipInv'
<1> DEFINE asked == RequestOf(job[Genesis].target)
           docs == shared[Genesis] \ {asked}
<1>1. /\ shared' = [shared EXCEPT ![Genesis] = docs] /\ job' = [job EXCEPT ![Genesis] = NoJob]
      /\ UNCHANGED <<zone, device, joined, secrets, held>>
  BY DEF FinishEnroll, EndJob
<1>2. Genesis \in Macs
  BY MembershipAssumption
<1>3. asked.kind = "request"
  BY RequestShape
<1> HIDE DEF asked
<1>4. Generations(docs) = Chain
  BY <1>3, GenerationsOf DEF Chain
<1>5. <<Genesis, 1>> \in Identities(docs)
  BY <1>3 DEF MembershipInv, StateInv, Identities, OfKind
<1>6. \A doc \in docs : DocOK(doc)
  BY <1>2 DEF MembershipInv, DocInv, AllOK
<1>7. Gapless(docs)
  <2>1. Numbers(docs) = Numbers(shared[Genesis])
    BY <1>4 DEF Numbers, Chain
  <2> QED
    BY <1>2, <2>1, GaplessSame DEF MembershipInv, GapInv
<1>8. ReadsChain(docs, Id(Genesis))
  <2>1. ReadsChain(shared[Genesis], Id(Genesis))
    BY DEF MembershipInv, StateInv, MemberInv
  <2> QED
    BY <1>3, <1>4, <2>1 DEF Chain, ReadsChain, Unwraps, OfKind
<1>9. job'[Genesis] = NoJob
  BY <1>1, <1>2 DEF MembershipInv, StateInv
<1>10. JobOK(Genesis)'
  BY <1>9, IdleOK
<1> HIDE DEF docs
<1> QED
  BY <1>1, <1>2, <1>4, <1>5, <1>6, <1>7, <1>8, <1>10, NoJobShape, StoreChanges DEF LifecycleOps

LEMMA FinishActivateKeeps ==
  ASSUME MembershipInv, NEW m \in Macs, FinishActivate(m) PROVE MembershipInv'
<1>1. /\ joined' = IF ReadsChain(shared[m], Id(m)) /\ m \notin secrets THEN joined \cup {m} ELSE joined
      /\ job' = [job EXCEPT ![m] = NoJob]
      /\ UNCHANGED <<shared, zone, device, secrets, held>>
  BY DEF FinishActivate, EndJob
<1>2. Chain' = Chain /\ \A id : Issued(id) => Issued(id)'
  BY <1>1, IssuedKept DEF Chain
<1>3. DOMAIN job = Macs
  BY DEF MembershipInv, StateInv
<1>4. job'[m] = NoJob /\ \A o \in Macs \ {m} : job'[o] = job[o]
  BY <1>1, <1>3
<1>5. joined \subseteq joined' /\ joined' \subseteq joined \cup {m}
  BY <1>1
<1>6. StateInv'
  <2>1. DOMAIN job' = Macs
    BY <1>1, <1>3
  <2>2. \A o \in Macs : job'[o].op \in LifecycleOps /\ DOMAIN job'[o] = {"op", "todo", "target"}
    BY <1>4, NoJobShape DEF MembershipInv, StateInv, LifecycleOps
  <2>3. joined' \in SUBSET Macs /\ Genesis \in joined' /\ joined' \cap secrets' = {}
    BY <1>1 DEF MembershipInv, StateInv
  <2> QED
    BY <1>1, <2>1, <2>2, <2>3 DEF MembershipInv, StateInv
<1>7. ChainInv'
  BY <1>2, ChainKept DEF MembershipInv
<1>8. DocInv'
  <2>1. \A o \in Macs : \A doc \in job'[o].todo : DocOK(doc)
    BY <1>4, NoJobShape DEF MembershipInv, DocInv, AllOK
  <2> QED
    BY <1>1, <1>2, <2>1, DocsKept DEF MembershipInv, DocInv, AllOK
<1>9. GapInv'
  BY <1>1 DEF MembershipInv, GapInv
<1>10. JobInv'
  <2>1. \A o \in Macs \ {m} : JobOK(o)'
    BY <1>1, <1>4, <1>5, JobKept DEF MembershipInv, JobInv
  <2> QED
    BY <1>4, <2>1, IdleOK DEF JobInv
<1>11. MemberInv'
  <2>1. \A o : Id(o)' = Id(o)
    BY <1>1 DEF Id
  <2> QED
    BY <1>1, <2>1 DEF MembershipInv, MemberInv
<1> QED
  BY <1>6, <1>7, <1>8, <1>9, <1>10, <1>11 DEF MembershipInv

\* The new identity is committed: it reads what the old one read.
LEMMA FinishRotateKeeps ==
  ASSUME MembershipInv, NEW m \in Macs, FinishRotate(m) PROVE MembershipInv'
<1>0. PICK fresh : fresh = <<m, device[m] + 1>>
  OBVIOUS
<1>1. /\ job[m].op = "rotate" /\ job[m].todo = {}
      /\ device' = [device EXCEPT ![m] = @ + 1]
      /\ zone' = zone \cup {RequestOf(job[m].target)}
      /\ job' = [job EXCEPT ![m] = NoJob]
      /\ UNCHANGED <<shared, joined, secrets, held>>
  BY DEF FinishRotate, AllWritten, EndJob
<1>2. /\ m # Genesis /\ m \in joined /\ job[m].target = fresh /\ device[m] < MaxIdentities
      /\ ReadsChain(shared[m] \cup job[m].todo, job[m].target)
  BY <1>0, <1>1 DEF MembershipInv, JobInv, JobOK
<1>3. ReadsChain(shared[m], fresh)
  <2>1. shared[m] \cup {} = shared[m]
    OBVIOUS
  <2> QED
    BY <1>1, <1>2, <2>1
<1>4. device \in [Macs -> 1..MaxIdentities] /\ DOMAIN job = Macs /\ Genesis \in Macs
  BY MembershipAssumption DEF MembershipInv, StateInv
<1>5. job'[m] = NoJob /\ \A o \in Macs \ {m} : job'[o] = job[o]
  BY <1>1, <1>4
<1>6. /\ device'[m] = device[m] + 1 /\ \A o \in Macs \ {m} : device'[o] = device[o]
      /\ device' \in [Macs -> 1..MaxIdentities]
  <2>1. device[m] + 1 \in 1..MaxIdentities
    BY <1>2, <1>4, MembershipAssumption, SMTT(30)
  <2> QED
    BY <1>1, <1>4, <2>1
<1>7. \A id : Issued(id) => Issued(id)'
  <2>1. ASSUME NEW id, Issued(id) PROVE id[2] <= device'[id[1]]
    <3>1. id[1] \in Macs /\ id[2] \in Nat /\ id[2] <= device[id[1]]
      BY <2>1, SMTT(30) DEF Issued, Ids
    <3>2. device[id[1]] \in Nat /\ device'[id[1]] \in Nat /\ device[id[1]] <= device'[id[1]]
      BY <1>4, <1>6, <3>1, SMTT(30)
    <3> QED
      BY <3>1, <3>2, SMTT(30)
  <2> QED
    BY <2>1 DEF Issued
<1>8. Issued(fresh)'
  <2>1. device[m] + 1 \in 1..MaxIdentities
    BY <1>2, <1>4, MembershipAssumption, SMTT(30)
  <2>2. device[m] + 1 <= device'[m]
    BY <1>4, <1>6, SMTT(30)
  <2>3. fresh \in Ids /\ fresh[1] = m /\ fresh[2] = device[m] + 1
    BY <1>0, <2>1 DEF Ids
  <2> QED
    BY <2>2, <2>3 DEF Issued
<1>9. Id(m)' = fresh /\ \A o \in Macs \ {m} : Id(o)' = Id(o)
  BY <1>0, <1>6 DEF Id
<1>10. Chain' = Chain
  BY <1>1 DEF Chain
<1>11. StateInv'
  <2>1. \A o \in Macs : job'[o].op \in LifecycleOps /\ DOMAIN job'[o] = {"op", "todo", "target"}
    BY <1>5, NoJobShape DEF MembershipInv, StateInv, LifecycleOps
  <2>2. DOMAIN job' = Macs /\ device'[Genesis] = 1
    BY <1>1, <1>2, <1>4, <1>6 DEF MembershipInv, StateInv
  <2> QED
    BY <1>1, <1>6, <2>1, <2>2 DEF MembershipInv, StateInv
<1>12. ChainInv'
  BY <1>7, <1>10, ChainKept DEF MembershipInv
<1>13. DocInv'
  <2>1. \A doc : DocOK(doc) => DocOK(doc)'
    BY <1>7, <1>10, DocKept
  <2>2. DocOK(RequestOf(fresh))'
    BY <1>8, RequestShape DEF DocOK
  <2>3. AllOK(zone)'
    BY <1>1, <1>2, <2>1, <2>2 DEF MembershipInv, DocInv, AllOK
  <2>4. \A o \in Macs : AllOK(job[o].todo)'
    BY <1>5, <2>1, NoJobShape DEF MembershipInv, DocInv, AllOK
  <2> QED
    BY <1>1, <2>1, <2>3, <2>4 DEF MembershipInv, DocInv, AllOK
<1>14. GapInv'
  BY <1>1, RequestIsNoGeneration DEF MembershipInv, GapInv
<1>15. JobInv'
  <2>1. \A o \in Macs \ {m} : JobOK(o)'
    BY <1>1, <1>5, <1>6, JobKept DEF MembershipInv, JobInv
  <2> QED
    BY <1>5, <2>1, IdleOK DEF JobInv
<1>16. MemberInv'
  BY <1>1, <1>3, <1>9 DEF MembershipInv, StateInv, MemberInv
<1> QED
  BY <1>11, <1>12, <1>13, <1>14, <1>15, <1>16 DEF MembershipInv

\* The new generation: its number is not used anywhere, so that every envelope
\* is of an earlier one, and it is for no Device that was removed.
LEMMA FinishRevokeKeeps == ASSUME MembershipInv, FinishRevoke PROVE MembershipInv'
<1>0. PICK docs, id, n, new :
        /\ docs = shared[Genesis] /\ id = job[Genesis].target /\ n = CurrentGeneration(docs)
        /\ new = Generation(n + 1, Survivors(docs, id), {id})
  OBVIOUS
<1>1. /\ job[Genesis].op = "revoke" /\ job' = [job EXCEPT ![Genesis] = NoJob]
      /\ shared' = [shared EXCEPT ![Genesis] =
           IF id \in Identities(docs) \ Revoked(docs) THEN docs \cup {new} ELSE docs]
      /\ UNCHANGED <<zone, device, joined, secrets, held>>
  BY <1>0 DEF FinishRevoke, AllWritten, EndJob
<1>2. Genesis \in Macs /\ DOMAIN job = Macs /\ DOMAIN shared = Macs /\ id # <<Genesis, 1>>
  BY <1>0, <1>1, MembershipAssumption DEF MembershipInv, StateInv, JobInv, JobOK
<1>3. job'[Genesis] = NoJob /\ \A o \in Macs \ {Genesis} : job'[o] = job[o]
  BY <1>1, <1>2
<1>4. CASE id \notin Identities(docs) \ Revoked(docs)
  <2>1. shared' = [shared EXCEPT ![Genesis] = docs]
    BY <1>1, <1>4
  <2>2. Generations(docs) = Chain /\ <<Genesis, 1>> \in Identities(docs) /\ Gapless(docs)
    BY <1>0, <1>2 DEF Chain, MembershipInv, StateInv, GapInv
  <2>3. \A doc \in docs : DocOK(doc)
    BY <1>0, <1>2 DEF MembershipInv, DocInv, AllOK
  <2>4. ReadsChain(docs, Id(Genesis))
    BY <1>0 DEF MembershipInv, StateInv, MemberInv
  <2>5. JobOK(Genesis)'
    BY <1>3, IdleOK
  <2> QED
    BY <1>1, <1>2, <2>1, <2>2, <2>3, <2>4, <2>5, NoJobShape, StoreChanges DEF LifecycleOps
<1>5. CASE id \in Identities(docs) \ Revoked(docs)
  <2>1. n \in Nat /\ Numbers(docs) = 1..n
    BY <1>0, <1>2, Counted DEF MembershipInv, GapInv, ChainInv, Chain, OnePerNumber
  <2>2. /\ new.kind = "generation" /\ new.gen = n + 1
        /\ new.for = Survivors(docs, id) /\ new.revoked = {id}
    BY <1>0, SMTT(30) DEF Generation
  <2>3. shared' = [shared EXCEPT ![Genesis] = docs \cup {new}]
    BY <1>1, <1>5
  <2>4. shared'[Genesis] = docs \cup {new} /\ \A o \in Macs \ {Genesis} : shared'[o] = shared[o]
    BY <1>2, <2>3
  <2>5. Chain' = Chain \cup {new}
    <3>1. Generations(docs \cup {new}) = Generations(docs) \cup {new}
      BY <2>2, SMTT(30) DEF Generations, OfKind
    <3> QED
      BY <1>0, <2>4, <3>1 DEF Chain
  <2>6. \A c \in Chain : c.gen \in 1..n
    BY <1>0, <2>1, NumbersOf DEF Chain
  <2>7. /\ \A c \in Chain : c.gen # n + 1 /\ ~(n + 1 <= c.gen)
        /\ \A i \in 1..n : i < n + 1
    BY <2>1, <2>6, SMTT(30)
  <2>8. \A x : Issued(x) => Issued(x)'
    BY <1>1, IssuedKept
  <2>9. Issued(id)
    BY <1>0, <1>2, <1>5 DEF Identities, OfKind, MembershipInv, DocInv, AllOK, DocOK
  <2>10. ChainInv'
    <3>1. \A c, d \in Chain' : c.gen = d.gen => c = d
      BY <2>2, <2>5, <2>7 DEF MembershipInv, ChainInv
    <3>2. \A c \in Chain' : \A x \in c.revoked : x # <<Genesis, 1>> /\ Issued(x)'
      BY <1>2, <2>2, <2>5, <2>8, <2>9 DEF MembershipInv, ChainInv
    <3>3. \A c, r \in Chain' : \A x \in r.revoked : r.gen <= c.gen => x \notin c.for
      <4>1. \A r \in Chain' : \A x \in r.revoked : x \notin new.for
        <5>1. \A r \in Chain : \A x \in r.revoked : x \in Revoked(docs)
          BY <1>0 DEF Revoked, Chain
        <5> QED
          BY <2>2, <2>5, <5>1 DEF Survivors
      <4>2. \A c \in Chain : ~(new.gen <= c.gen)
        BY <2>2, <2>7
      <4> QED
        BY <2>5, <4>1, <4>2 DEF MembershipInv, ChainInv
    <3> QED
      BY <3>1, <3>2, <3>3 DEF ChainInv
  <2>11. ASSUME NEW doc, DocOK(doc) PROVE DocOK(doc)'
    <3>1. Numbers(docs) \subseteq Numbers(shared'[Genesis])
      BY <1>0, <2>5 DEF Numbers, Chain
    <3>2. doc.kind = "envelope" => doc.gen \in Numbers(docs) /\ doc.gen < new.gen
      BY <1>0, <2>1, <2>2, <2>7, <2>11 DEF DocOK
    <3> QED
      BY <2>5, <2>8, <2>11, <3>1, <3>2 DEF DocOK
  <2>12. DocOK(new)'
    BY <2>2, <2>5 DEF DocOK
  <2>13. DocInv'
    <3>1. \A o \in Macs : AllOK(job[o].todo)'
      BY <1>3, <2>11, NoJobShape DEF MembershipInv, DocInv, AllOK
    <3>2. \A o \in Macs : AllOK(shared[o])'
      BY <1>0, <1>2, <2>4, <2>11, <2>12 DEF MembershipInv, DocInv, AllOK
    <3> QED
      BY <1>1, <2>11, <3>1, <3>2 DEF MembershipInv, DocInv, AllOK
  <2>14. GapInv'
    <3>1. new.gen \in Nat \ {0} /\ new.gen - 1 = n
      BY <2>1, <2>2, SMTT(30)
    <3>2. Gapless(docs \cup {new})
      BY <1>0, <1>2, <2>1, <3>1, GaplessAdd DEF MembershipInv, GapInv
    <3> QED
      BY <1>1, <2>4, <3>2 DEF MembershipInv, GapInv
  <2>15. JobInv'
    <3>1. \A o \in Macs \ {Genesis} : JobOK(o)'
      BY <1>1, <1>3, <2>4, JobKept DEF MembershipInv, JobInv
    <3> QED
      BY <1>3, <3>1, IdleOK DEF JobInv
  <2>16. MemberInv'
    <3>1. \A o : Id(o)' = Id(o)
      BY <1>1 DEF Id
    <3>2. Id(Genesis) \in new.for
      <4>1. Id(Genesis) = <<Genesis, 1>> /\ <<Genesis, 1>> \in Identities(docs)
        BY <1>0 DEF Id, MembershipInv, StateInv
      <4>2. <<Genesis, 1>> \notin Revoked(docs)
        BY <1>0 DEF Revoked, MembershipInv, ChainInv, Chain
      <4> QED
        BY <1>2, <2>2, <4>1, <4>2 DEF Survivors
    <3>3. Unwraps(docs, Id(Genesis), new)
      BY <3>2 DEF Unwraps
    <3>4. ASSUME NEW c \in Generations(docs \cup {new}) PROVE Unwraps(docs, Id(Genesis), c)
      <4>1. c = new \/ c \in Generations(docs)
        BY <3>4, SMTT(30) DEF Generations, OfKind
      <4>2. ReadsChain(docs, Id(Genesis))
        BY <1>0 DEF MembershipInv, StateInv, MemberInv
      <4> QED
        BY <3>3, <4>1, <4>2 DEF ReadsChain
    <3>5. ReadsChain(docs \cup {new}, Id(Genesis))
      BY <3>4, UnwrapsMore DEF ReadsChain
    <3> QED
      BY <1>1, <2>4, <3>1, <3>5 DEF MembershipInv, StateInv, MemberInv
  <2>17. StateInv'
    <3>1. \A o \in Macs : job'[o].op \in LifecycleOps /\ DOMAIN job'[o] = {"op", "todo", "target"}
      BY <1>3, NoJobShape DEF MembershipInv, StateInv, LifecycleOps
    <3>2. DOMAIN job' = Macs /\ DOMAIN shared' = Macs
      BY <1>1, <1>2, <2>3
    <3>3. Identities(docs) \subseteq Identities(docs \cup {new})
      BY DEF Identities, OfKind
    <3> QED
      BY <1>0, <1>1, <2>4, <3>1, <3>2, <3>3 DEF MembershipInv, StateInv
  <2> QED
    BY <2>10, <2>13, <2>14, <2>15, <2>16, <2>17 DEF MembershipInv
<1> QED
  BY <1>4, <1>5

-----------------------------------------------------------------------------
(* The theorems. *)

LEMMA MembershipStep == MembershipInv /\ [MembershipNext]_membershipVars => MembershipInv'
<1> SUFFICES ASSUME MembershipInv, [MembershipNext]_membershipVars PROVE MembershipInv'
  OBVIOUS
<1>1. ASSUME NEW m \in Macs, PublishLifecycle(m) PROVE MembershipInv'
  BY <1>1, PublishLifecycleKeeps
<1>2. ASSUME NEW m \in Macs, LoadLifecycle(m) PROVE MembershipInv'
  BY <1>2, LoadLifecycleKeeps
<1>3. ASSUME NEW m \in Macs, RequestEnrollment(m) PROVE MembershipInv'
  BY <1>3, RequestEnrollmentKeeps
<1>4. ASSUME NEW m \in Macs, CountItems(m) PROVE MembershipInv'
  BY <1>4, CountItemsKeeps
<1>5. ASSUME NEW m \in Macs, MergeSecrets(m) PROVE MembershipInv'
  BY <1>5, MergeSecretsKeeps
<1>6. ASSUME NEW m \in Macs, AddSecret(m) PROVE MembershipInv'
  BY <1>6, AddSecretKeeps
<1>7. ASSUME NEW m \in Macs, RequestReenrollment(m) PROVE MembershipInv'
  BY <1>7, RequestReenrollmentKeeps
<1>8. ASSUME NEW m \in Macs, WriteFile(m) PROVE MembershipInv'
  BY <1>8, WriteFileKeeps
<1>9. ASSUME NEW m \in Macs, FinishActivate(m) PROVE MembershipInv'
  BY <1>9, FinishActivateKeeps
<1>10. ASSUME NEW m \in Macs, FinishRotate(m) PROVE MembershipInv'
  BY <1>10, FinishRotateKeeps
<1>11. ASSUME NEW m \in Macs, CrashOfMac(m) PROVE MembershipInv'
  BY <1>11, CrashOfMacKeeps
<1>12. ASSUME NEW id \in Ids, ApproveEnrollment(id) PROVE MembershipInv'
  BY <1>12, ApproveEnrollmentKeeps
<1>13. ASSUME NEW id \in Ids, RevokeDevice(id) PROVE MembershipInv'
  BY <1>13, RevokeDeviceKeeps
<1>14. CASE FinishEnroll
  BY <1>14, FinishEnrollKeeps
<1>15. CASE FinishRevoke
  BY <1>15, FinishRevokeKeeps
<1>16. CASE UNCHANGED membershipVars
  BY <1>16, ZoneChanges DEF membershipVars, MembershipInv, DocInv, AllOK, GapInv
<1> QED
  BY <1>1, <1>2, <1>3, <1>4, <1>5, <1>6, <1>7, <1>8, <1>9, <1>10, <1>11, <1>12, <1>13, <1>14,
     <1>15, <1>16 DEF MembershipNext

(* The inductive invariant of the Vault's lifecycle holds in every state.  *)
THEOREM MembershipInvariant == MembershipSpec => []MembershipInv
  BY MembershipStarts, MembershipStep, PTL DEF MembershipSpec

(* What the run checks of every state follows from it. *)
LEMMA MembershipSafe ==
  MembershipInv => /\ MembershipTypeOK /\ MembersUnwrapEveryGeneration
                   /\ RemovedDevicesGetNoNewKey /\ SwitchesKeepSecrets
<1> SUFFICES ASSUME MembershipInv
             PROVE  /\ MembershipTypeOK /\ MembersUnwrapEveryGeneration
                    /\ RemovedDevicesGetNoNewKey /\ SwitchesKeepSecrets
  OBVIOUS
<1>1. MembershipTypeOK
  <2>1. ASSUME NEW m \in Macs
        PROVE  {doc.gen : doc \in Generations(shared[m])} = 1..CurrentGeneration(shared[m])
    <3>1. OnePerNumber(shared[m]) /\ Gapless(shared[m])
      BY PartOfChain DEF MembershipInv, DocInv, GapInv
    <3> QED
      BY <3>1, Counted DEF Numbers
  <2> QED
    BY <2>1 DEF MembershipTypeOK, MembershipInv, StateInv, LifecycleOps
<1>2. MembersUnwrapEveryGeneration
  BY DEF MembersUnwrapEveryGeneration, HasAccess, MembershipInv, MemberInv
<1>3. RemovedDevicesGetNoNewKey
  <2>1. SUFFICES ASSUME NEW docs \in {zone} \cup {shared[m] : m \in Macs},
                        NEW revoking \in Generations(docs), NEW id \in revoking.revoked,
                        NEW doc \in Generations(docs), doc.gen >= revoking.gen,
                        Unwraps(docs, id, doc)
                 PROVE  FALSE
    BY DEF RemovedDevicesGetNoNewKey
  <2>2. AllOK(docs) /\ revoking \in Chain /\ doc \in Chain
    BY PartOfChain DEF MembershipInv, DocInv
  <2>3. revoking.gen \in Nat /\ doc.gen \in Nat /\ revoking.gen <= doc.gen
    BY <2>1, <2>2, ChainNumbers, SMTT(30) DEF MembershipInv
  <2>4. id \notin doc.for
    BY <2>2, <2>3 DEF MembershipInv, ChainInv
  <2>5. PICK env \in docs : env.kind = "envelope" /\ env.id = id /\ env.gen = doc.gen
    BY <2>1, <2>4 DEF Unwraps, OfKind
  <2>6. doc.gen < revoking.gen
    BY <2>2, <2>5 DEF AllOK, DocOK
  <2> QED
    BY <2>3, <2>6, SMTT(30)
<1>4. SwitchesKeepSecrets
  BY DEF SwitchesKeepSecrets, MembershipInv, StateInv
<1> QED
  BY <1>1, <1>2, <1>3, <1>4

\* The generations that a member's Store shows are never taken out of it.
LEMMA GenerationsStay ==
  ASSUME MembershipInv, [MembershipNext]_membershipVars, NEW m \in joined
  PROVE  m \in joined' /\ Generations(shared[m]) \subseteq Generations(shared'[m])
<1>1. m \in Macs /\ Genesis \in Macs /\ DOMAIN shared = Macs
  BY MembershipAssumption DEF MembershipInv, StateInv
<1>2. CASE shared' = shared /\ joined \subseteq joined'
  BY <1>2
<1>3. ASSUME NEW o \in Macs, MergeSecrets(o)
      PROVE  m \in joined' /\ Generations(shared[m]) \subseteq Generations(shared'[m])
  BY <1>1, <1>3 DEF MergeSecrets
<1>4. ASSUME NEW o \in Macs, WriteFile(o)
      PROVE  m \in joined' /\ Generations(shared[m]) \subseteq Generations(shared'[m])
  <2>1. joined' = joined /\ shared[m] \subseteq shared'[m]
    BY <1>1, <1>4 DEF WriteFile
  <2> QED
    BY <2>1, GenerationsOf
<1>5. CASE FinishEnroll
  <2>1. joined' = joined /\ shared[m] \subseteq shared'[m] \cup {RequestOf(job[Genesis].target)}
    BY <1>1, <1>5 DEF FinishEnroll
  <2>2. RequestOf(job[Genesis].target).kind # "generation"
    BY RequestShape
  <2> QED
    BY <2>1, <2>2 DEF Generations, OfKind
<1>6. CASE FinishRevoke
  <2>1. joined' = joined /\ shared[m] \subseteq shared'[m]
    BY <1>1, <1>6 DEF FinishRevoke
  <2> QED
    BY <2>1, GenerationsOf
<1>7. CASE shared' # shared \/ ~(joined \subseteq joined')
  <2>1. \/ \E o \in Macs : MergeSecrets(o) \/ WriteFile(o)
        \/ FinishEnroll \/ FinishRevoke
    BY <1>7 DEF MembershipNext, membershipVars, PublishLifecycle, LoadLifecycle, RequestEnrollment,
       CountItems, AddSecret, RequestReenrollment, FinishActivate, FinishRotate, CrashOfMac,
       ApproveEnrollment, RevokeDevice
  <2> QED
    BY <1>3, <1>4, <1>5, <1>6, <2>1
<1> QED
  BY <1>2, <1>7

(* For any number of Macs, identities, key generations and crashes: a Mac  *)
(* that joined unwraps every generation its Store shows, no envelope gives *)
(* a removed Device the key of a later generation, secrets of another      *)
(* Vault are never left behind by a switch, and what a library could read  *)
(* stays readable across materialize_lifecycle, enroll_device,             *)
(* rotate_generation and rotate_device_identity.                           *)
THEOREM MembersRead == MembershipSpec => MembersCanRead
<1> DEFINE Kept == \A m \in joined : Readable(m) \subseteq Readable(m)'
<1>1. MembershipInv /\ MembershipInv' /\ [MembershipNext]_membershipVars => [Kept]_membershipVars
  <2> SUFFICES ASSUME MembershipInv, MembershipInv', [MembershipNext]_membershipVars,
                      NEW m \in joined
               PROVE  Readable(m) \subseteq Readable(m)'
    OBVIOUS
  <2>1. m \in joined' /\ Generations(shared[m]) \subseteq Generations(shared'[m])
    BY GenerationsStay
  <2>2. \A c \in Generations(shared'[m]) : Unwraps(shared'[m], Id(m)', c)
    BY <2>1 DEF MembershipInv, MemberInv, ReadsChain
  <2> QED
    BY <2>1, <2>2 DEF Readable
<1>2. MembershipInv => /\ MembershipTypeOK /\ MembersUnwrapEveryGeneration
                       /\ RemovedDevicesGetNoNewKey /\ SwitchesKeepSecrets
  BY MembershipSafe
<1>3. MembershipSpec => [][Kept]_membershipVars
  BY <1>1, MembershipInvariant, PTL DEF MembershipSpec
<1>4. MembershipSpec => LibrariesStayReadable
  BY <1>3 DEF LibrariesStayReadable
<1> QED
  BY <1>2, <1>4, MembershipInvariant, PTL DEF MembersCanRead
===========================================================================
