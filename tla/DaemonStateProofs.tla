------------------------- MODULE DaemonStateProofs -------------------------
(* Proofs about DaemonState, for any set of keys and any bounds.            *)
EXTENDS DaemonState, TLAPS

(* The leaves are first-order steps; those with arithmetic or records cite SMT. *)
USE ZenonT(60)

IsRecord(r) == r \in Records /\ \A d \in Domains : r[d] \in StateEnvelopes(d)

IsCopies(c) ==
  /\ c \in [Domains -> SUBSET (Envelopes("grants") \cup Envelopes("policy"))]
  /\ \A d \in Domains : c[d] \subseteq Envelopes(d)

IsJobs(f) ==
  /\ f \in [Domains -> Jobs("grants") \cup Jobs("policy") \cup {NoState}]
  /\ \A d \in Domains : f[d] \in Jobs(d) \cup {NoState}

(* The checkpoint of a domain, in the record or in the account of an older *)
(* version.                                                                *)
KnownIn(record, old, d) == IF record[d] = NoState THEN old[d] ELSE record[d]

StateInv ==
  /\ credential \in {"none", "raw", "record"}
  /\ IsRecord(checkpoints) /\ IsRecord(legacy) /\ IsRecord(files)
  /\ IsCopies(copies)
  /\ writeLock \in Domains \cup {NoState}
  /\ running \in BOOLEAN /\ degraded \in BOOLEAN
  /\ entries \subseteq Timed \cup UntilLock
  /\ generations \in [Domains -> Nat \cup {NoState}]
  /\ status \in Statuses
  /\ IsJobs(job)
  /\ absent \subseteq Keys

(* The wall clock runs behind the monotonic one by what it was set back. *)
ClockInv ==
  /\ clock \in 0 .. MaxClock /\ faults \in 0 .. MaxStateFaults
  /\ unix \in Int /\ 0 - faults <= unix /\ unix <= clock

(* Only a running daemon saves, and the write lock is held by the domain   *)
(* that is about to store the record.                                      *)
LockInv ==
  \A d \in Domains : /\ job[d] # NoState => running
                     /\ writeLock = d <=> job[d] # NoState /\ job[d].step = "store"

(* A file is written only above its checkpoint, and the record that is     *)
(* written back is the one that is there.                                  *)
JobInv ==
  \A d \in Domains : job[d] # NoState /\ job[d].step # "persist" =>
    /\ job[d].generation \in Nat
    /\ Generation(KnownIn(checkpoints, legacy, d)) <= job[d].generation
    /\ job[d].step = "store" => job[d].record = checkpoints

(* The cache is locked while it is saved: what is written is what it holds. *)
SaveInv ==
  LET j == job["grants"] IN
  j # NoState =>
    /\ j.document = Document(entries)
    /\ j.step # "persist" =>
         files["grants"] = [generation |-> j.generation + 1, document |-> j.document]

(* The checkpoint holds no grant that an acknowledged save removed. *)
AbsentInv ==
  LET k == KnownIn(checkpoints, legacy, "grants") IN
  k # NoState => \A p \in k.document : p.key \notin absent

DaemonInv ==
  /\ StateInv
  /\ ClockInv
  /\ LockInv
  /\ JobInv
  /\ SaveInv
  /\ AbsentInv
  /\ RemovedStaysRemoved
  /\ GrantsAreDurable
  /\ LifetimeIsBounded

NeverFalls == \A d \in Domains : Known(d)' >= Known(d)

---------------------------------------------------------------------------
LEMMA DomainsAre == "grants" \in Domains /\ "policy" \in Domains /\ "grants" # "policy"
  BY DEF Domains

LEMMA SetRecord ==
  ASSUME NEW r, IsRecord(r), NEW d \in Domains, NEW v \in StateEnvelopes(d)
  PROVE  /\ IsRecord([r EXCEPT ![d] = v])
         /\ [r EXCEPT ![d] = v][d] = v
         /\ \A e \in Domains : e # d => [r EXCEPT ![d] = v][e] = r[e]
<1>1. v \in StateEnvelopes("grants") \cup StateEnvelopes("policy")
  BY DEF Domains
<1>2. r \in [Domains -> StateEnvelopes("grants") \cup StateEnvelopes("policy")]
  BY DEF IsRecord, Records
<1>3. [r EXCEPT ![d] = v] \in [Domains -> StateEnvelopes("grants") \cup StateEnvelopes("policy")]
  BY <1>1, <1>2
<1>4. /\ [r EXCEPT ![d] = v][d] = v
      /\ \A e \in Domains : e # d => [r EXCEPT ![d] = v][e] = r[e]
  BY <1>2
<1> QED
  BY <1>3, <1>4 DEF IsRecord, Records

LEMMA SetJob ==
  ASSUME NEW f, IsJobs(f), NEW d \in Domains, NEW v \in Jobs(d) \cup {NoState}
  PROVE  /\ IsJobs([f EXCEPT ![d] = v])
         /\ [f EXCEPT ![d] = v][d] = v
         /\ \A e \in Domains : e # d => [f EXCEPT ![d] = v][e] = f[e]
<1>1. v \in Jobs("grants") \cup Jobs("policy") \cup {NoState}
  BY DEF Domains
<1>2. f \in [Domains -> Jobs("grants") \cup Jobs("policy") \cup {NoState}]
  BY DEF IsJobs
<1>3. [f EXCEPT ![d] = v] \in [Domains -> Jobs("grants") \cup Jobs("policy") \cup {NoState}]
  BY <1>1, <1>2
<1>4. /\ [f EXCEPT ![d] = v][d] = v
      /\ \A e \in Domains : e # d => [f EXCEPT ![d] = v][e] = f[e]
  BY <1>2
<1> QED
  BY <1>3, <1>4 DEF IsJobs

LEMMA NoStateIsNone ==
  ASSUME NEW d \in Domains
  PROVE  /\ NoState \notin Envelopes(d) /\ NoState \notin Jobs(d)
         /\ NoState \notin Nat /\ NoState \notin Domains
  BY NoStateAssumption, SMTT(30)

LEMMA GenerationIsNat ==
  ASSUME NEW d \in Domains, NEW c \in StateEnvelopes(d)
  PROVE  Generation(c) \in Nat
  BY DEF Generation, StateEnvelopes, Envelopes

(* CheckpointStore::load returns the checkpoint, and merging the account   *)
(* of an older version changes no checkpoint.                              *)
LEMMA LoadKeepsKnown ==
  ASSUME NEW d \in Domains, NEW record, IsRecord(record), NEW old, IsRecord(old),
         NEW l \in LoadCheckpoint(d, record, old)
  PROVE  /\ IsRecord(l.record) /\ IsRecord(l.legacy) /\ l.fault \in {0, 1} /\ l.ok \in BOOLEAN
         /\ \A e \in Domains : KnownIn(l.record, l.legacy, e) = KnownIn(record, old, e)
         /\ \A e \in Domains : e # d => l.record[e] = record[e]
         /\ l.ok => l.checkpoint = KnownIn(record, old, d) /\ l.record[d] = l.checkpoint
<1> DEFINE merged == [record EXCEPT ![d] = old[d]]
           deleted == [old EXCEPT ![d] = NoState]
<1>1. old[d] \in StateEnvelopes(d) /\ NoState \in StateEnvelopes(d) /\ record[d] \in StateEnvelopes(d)
  BY DEF IsRecord, StateEnvelopes
<1>2. /\ IsRecord(merged) /\ merged[d] = old[d]
      /\ \A e \in Domains : e # d => merged[e] = record[e]
  BY <1>1, SetRecord, SMTT(30)
<1>3. /\ IsRecord(deleted) /\ deleted[d] = NoState
      /\ \A e \in Domains : e # d => deleted[e] = old[e]
  BY <1>1, SetRecord, SMTT(30)
<1>4. \/ l = Loaded(FALSE, NoState, record, old, 1)
      \/ (record[d] # NoState \/ old[d] = NoState) /\ l = Loaded(TRUE, record[d], record, old, 0)
      \/ /\ record[d] = NoState /\ old[d] # NoState
         /\ \/ l = Loaded(TRUE, old[d], merged, deleted, 0)
            \/ l = Loaded(TRUE, old[d], merged, old, 1)
            \/ l = Loaded(FALSE, NoState, merged, old, 1)
  BY DEF LoadCheckpoint
<1> HIDE DEF merged, deleted
<1>5. CASE l = Loaded(FALSE, NoState, record, old, 1)
  BY <1>5 DEF Loaded
<1>6. CASE (record[d] # NoState \/ old[d] = NoState) /\ l = Loaded(TRUE, record[d], record, old, 0)
  BY <1>6 DEF Loaded, KnownIn
<1>7. CASE record[d] = NoState /\ old[d] # NoState /\ l = Loaded(TRUE, old[d], merged, deleted, 0)
  BY <1>2, <1>3, <1>7 DEF Loaded, KnownIn
<1>8. CASE record[d] = NoState /\ old[d] # NoState /\ l = Loaded(TRUE, old[d], merged, old, 1)
  BY <1>2, <1>8 DEF Loaded, KnownIn
<1>9. CASE record[d] = NoState /\ old[d] # NoState /\ l = Loaded(FALSE, NoState, merged, old, 1)
  BY <1>2, <1>9 DEF Loaded, KnownIn
<1> QED
  BY <1>4, <1>5, <1>6, <1>7, <1>8, <1>9

(* A step of one domain's save keeps the invariant when it leaves the      *)
(* other domain's checkpoint, file, job and lock alone.                    *)
LEMMA JobStep ==
  ASSUME DaemonInv, NEW d \in Domains, StateInv', ClockInv',
         UNCHANGED <<running, entries, clock>>, job[d] # NoState,
         \A e \in Domains : e # d =>
           /\ job'[e] = job[e] /\ files'[e] = files[e] /\ checkpoints'[e] = checkpoints[e]
           /\ KnownIn(checkpoints', legacy', e) = KnownIn(checkpoints, legacy, e)
           /\ writeLock' = e <=> writeLock = e
           /\ writeLock = e => checkpoints' = checkpoints,
         writeLock' = d <=> job'[d] # NoState /\ job'[d].step = "store",
         Generation(KnownIn(checkpoints', legacy', d)) >= Generation(KnownIn(checkpoints, legacy, d)),
         job'[d] # NoState /\ job'[d].step # "persist" =>
           /\ job'[d].generation \in Nat
           /\ Generation(KnownIn(checkpoints', legacy', d)) <= job'[d].generation
           /\ job'[d].step = "store" => job'[d].record = checkpoints',
         d = "grants" => SaveInv' /\ AbsentInv' /\ RemovedStaysRemoved' /\ GrantsAreDurable',
         d # "grants" => UNCHANGED <<absent, generations["grants"]>> /\ (degraded => degraded')
  PROVE  DaemonInv' /\ NeverFalls
<1>1. LockInv'
  BY DEF DaemonInv, LockInv
<1>2. JobInv'
  <2> SUFFICES ASSUME NEW e \in Domains, job'[e] # NoState, job'[e].step # "persist"
      PROVE /\ job'[e].generation \in Nat
            /\ Generation(KnownIn(checkpoints', legacy', e)) <= job'[e].generation
            /\ job'[e].step = "store" => job'[e].record = checkpoints'
    BY DEF JobInv
  <2>1. CASE e = d
    BY <2>1
  <2>2. CASE e # d
    <3>1. /\ job'[e] = job[e] /\ writeLock = e => checkpoints' = checkpoints
          /\ KnownIn(checkpoints', legacy', e) = KnownIn(checkpoints, legacy, e)
      BY <2>2
    <3>2. job[e].step = "store" => writeLock = e
      BY <2>2 DEF DaemonInv, LockInv
    <3> QED
      BY <2>2, <3>1, <3>2 DEF DaemonInv, JobInv
  <2> QED
    BY <2>1, <2>2
<1>3. NeverFalls
  <2>1. ASSUME NEW e \in Domains PROVE Known(e)' >= Known(e)
    <3>1. CASE e = d
      BY <3>1 DEF Known, KnownIn
    <3>2. CASE e # d
      <4>1. Generation(KnownIn(checkpoints, legacy, e)) \in Nat
        BY GenerationIsNat DEF DaemonInv, StateInv, IsRecord, KnownIn
      <4>2. KnownIn(checkpoints', legacy', e) = KnownIn(checkpoints, legacy, e)
        BY <3>2
      <4> QED
        BY <4>1, <4>2, SMTT(30) DEF Known, KnownIn
    <3> QED
      BY <3>1, <3>2
  <2> QED
    BY <2>1 DEF NeverFalls
<1>4. LifetimeIsBounded'
  BY DEF DaemonInv, LifetimeIsBounded
<1>5. SaveInv' /\ AbsentInv' /\ RemovedStaysRemoved' /\ GrantsAreDurable'
  <2>1. CASE d = "grants"
    BY <2>1
  <2>2. CASE d # "grants"
    <3>1. /\ job'["grants"] = job["grants"] /\ files'["grants"] = files["grants"]
          /\ checkpoints'["grants"] = checkpoints["grants"]
          /\ KnownIn(checkpoints', legacy', "grants") = KnownIn(checkpoints, legacy, "grants")
          /\ UNCHANGED <<absent, generations["grants"]>> /\ (degraded => degraded')
      BY <2>2, DomainsAre
    <3>2. SaveInv' /\ AbsentInv'
      BY <3>1 DEF DaemonInv, SaveInv, AbsentInv
    <3>3. RemovedStaysRemoved' /\ GrantsAreDurable'
      BY <3>1 DEF DaemonInv, RemovedStaysRemoved, GrantsAreDurable
    <3> QED
      BY <3>2, <3>3
  <2> QED
    BY <2>1, <2>2
<1> QED
  BY <1>1, <1>2, <1>3, <1>4, <1>5 DEF DaemonInv

LEMMA JobIsTyped ==
  ASSUME StateInv, NEW d \in Domains, NEW g \in Nat \cup {NoState}, NEW document \in Documents(d),
         NEW attempt \in {1, 2}
  PROVE  /\ Job(g, document, attempt) \in Jobs(d) /\ Job(g, document, attempt) # NoState
         /\ Job(g, document, attempt).step = "persist"
         /\ Job(g, document, attempt).document = document
<1>1. checkpoints \in Records
  BY DEF StateInv, IsRecord
<1>2. Job(g, document, attempt) \in Jobs(d)
  BY <1>1 DEF Job, Jobs
<1> QED
  BY <1>2, NoStateIsNone DEF Job

(* The error path: a retry saves the same document, and otherwise the      *)
(* grants are memory-only.  No checkpoint changes beyond the record given. *)
LEMMA FailureIsNoted ==
  ASSUME StateInv, ClockInv, NEW d \in Domains, job[d] # NoState,
         NEW record, IsRecord(record), NEW old, IsRecord(old), NEW n \in Nat,
         PersistFailed(d, record, old, n)
  PROVE  /\ faults' \in 0 .. MaxStateFaults /\ faults <= faults'
         /\ IsRecord(checkpoints') /\ IsRecord(legacy')
         /\ \A e \in Domains : KnownIn(checkpoints', legacy', e) = KnownIn(record, old, e)
         /\ \A e \in Domains : e # d => checkpoints'[e] = record[e]
         /\ writeLock' # NoState => checkpoints' = record
         /\ IsJobs(job') /\ \A e \in Domains : e # d => job'[e] = job[e]
         /\ job'[d] # NoState => job'[d].step = "persist" /\ job'[d].document = job[d].document
         /\ generations' \in [Domains -> Nat \cup {NoState}] /\ degraded' \in BOOLEAN
         /\ d = "grants" /\ job'[d] = NoState => degraded'
         /\ d # "grants" => UNCHANGED <<degraded, generations["grants"]>>
<1>1. /\ job[d] \in Jobs(d) /\ IsJobs(job) /\ generations \in [Domains -> Nat \cup {NoState}]
      /\ degraded \in BOOLEAN /\ faults \in 0 .. MaxStateFaults /\ MaxStateFaults \in Nat
  BY DaemonStateAssumption DEF StateInv, IsJobs, ClockInv
<1>2. /\ job[d].document \in Documents(d) /\ job[d].generation \in Nat \cup {NoState}
  BY <1>1 DEF Jobs
<1>3. /\ IsJobs([job EXCEPT ![d] = NoState]) /\ [job EXCEPT ![d] = NoState][d] = NoState
      /\ \A e \in Domains : e # d => [job EXCEPT ![d] = NoState][e] = job[e]
  BY <1>1, SetJob, SMTT(30)
<1>4. CASE d = "policy"
  <2>1. /\ Fails(n) /\ checkpoints' = record /\ legacy' = old /\ job' = [job EXCEPT ![d] = NoState]
        /\ UNCHANGED <<generations, degraded>>
    BY <1>4, DomainsAre DEF PersistFailed
  <2>2. faults' \in 0 .. MaxStateFaults /\ faults <= faults'
    BY <1>1, <2>1, SMTT(30) DEF Fails
  <2> QED
    BY <1>1, <1>3, <1>4, <2>1, <2>2, DomainsAre
<1>5. CASE d = "grants"
  <2>1. PICK l \in LoadCheckpoint(d, record, old) :
          /\ Fails(n + l.fault)
          /\ l.record # record => writeLock' = NoState
          /\ checkpoints' = l.record /\ legacy' = l.legacy
          /\ LET g == IF l.ok THEN Generation(l.checkpoint) ELSE job[d].generation IN
             IF l.ok /\ job[d].attempt = 1
             THEN /\ job' = [job EXCEPT ![d] = Job(g, job[d].document, 2)]
                  /\ UNCHANGED <<generations, degraded>>
             ELSE /\ job' = [job EXCEPT ![d] = NoState]
                  /\ generations' = [generations EXCEPT ![d] = g]
                  /\ degraded' = TRUE
    BY <1>5, DomainsAre DEF PersistFailed
  <2> DEFINE g == IF l.ok THEN Generation(l.checkpoint) ELSE job[d].generation
  <2>2. /\ IsRecord(l.record) /\ IsRecord(l.legacy) /\ l.fault \in {0, 1} /\ l.ok \in BOOLEAN
        /\ \A e \in Domains : KnownIn(l.record, l.legacy, e) = KnownIn(record, old, e)
        /\ \A e \in Domains : e # d => l.record[e] = record[e]
        /\ l.ok => l.checkpoint = KnownIn(record, old, d)
    BY LoadKeepsKnown, SMTT(30)
  <2>3. faults' \in 0 .. MaxStateFaults /\ faults <= faults'
    BY <1>1, <2>1, <2>2, SMTT(30) DEF Fails
  <2>4. g \in Nat \cup {NoState}
    <3>1. KnownIn(record, old, d) \in StateEnvelopes(d)
      BY DEF KnownIn, IsRecord
    <3>2. l.ok => Generation(l.checkpoint) \in Nat
      BY <2>2, <3>1, GenerationIsNat
    <3> QED
      BY <1>2, <3>2
  <2>5. CASE l.ok /\ job[d].attempt = 1
    <3> DEFINE j == Job(g, job[d].document, 2)
    <3>1. job' = [job EXCEPT ![d] = j] /\ UNCHANGED <<generations, degraded>>
      BY <2>1, <2>5
    <3> HIDE DEF g
    <3>2. j \in Jobs(d) /\ j # NoState /\ j.step = "persist" /\ j.document = job[d].document
      <4>1. 2 \in {1, 2} /\ job[d].document \in Documents(d)
        BY <1>2
      <4>2. /\ Job(g, job[d].document, 2) \in Jobs(d) /\ Job(g, job[d].document, 2) # NoState
            /\ Job(g, job[d].document, 2).step = "persist"
            /\ Job(g, job[d].document, 2).document = job[d].document
        BY <2>4, <4>1, JobIsTyped
      <4> QED
        BY <4>2
    <3> HIDE DEF j
    <3>3. IsJobs(job') /\ job'[d] = j /\ \A e \in Domains : e # d => job'[e] = job[e]
      <4>1. j \in Jobs(d) \cup {NoState} /\ IsJobs(job)
        BY <1>1, <3>2
      <4>2. /\ IsJobs([job EXCEPT ![d] = j]) /\ [job EXCEPT ![d] = j][d] = j
            /\ \A e \in Domains : e # d => [job EXCEPT ![d] = j][e] = job[e]
        BY <4>1, SetJob, SMTT(30)
      <4> QED
        BY <3>1, <4>2
    <3> QED
      BY <1>1, <1>5, <2>1, <2>2, <2>3, <3>1, <3>2, <3>3
  <2>6. CASE ~ (l.ok /\ job[d].attempt = 1)
    <3>1. /\ job' = [job EXCEPT ![d] = NoState] /\ generations' = [generations EXCEPT ![d] = g]
          /\ degraded' = TRUE
      BY <2>1, <2>6
    <3> HIDE DEF g
    <3>2. generations' \in [Domains -> Nat \cup {NoState}]
      BY <1>1, <2>4, <3>1
    <3> QED
      BY <1>3, <1>5, <2>1, <2>2, <2>3, <3>1, <3>2
  <2> QED
    BY <2>5, <2>6
<1> QED
  BY <1>4, <1>5 DEF Domains

LEMMA LaterIsLess ==
  ASSUME NEW a \in Int, NEW b \in Int, NEW u \in Int, a <= b, 0 - a <= u
  PROVE  0 - b <= u
  BY SMTT(30)

LEMMA ClockStays ==
  ASSUME ClockInv, UNCHANGED <<clock, unix>>, faults' \in 0 .. MaxStateFaults, faults <= faults'
  PROVE  ClockInv'
<1>1. MaxStateFaults \in Nat
  BY DaemonStateAssumption
<1>2. faults \in Int /\ faults' \in Int /\ unix \in Int /\ 0 - faults <= unix
  BY <1>1, SMTT(30) DEF ClockInv
<1>3. 0 - faults' <= unix
  BY <1>2, LaterIsLess
<1> QED
  BY <1>3 DEF ClockInv

(* What would be saved now was not removed. *)
LEMMA DocumentIsPresent ==
  ASSUME RemovedStaysRemoved, NEW p \in Document(entries)
  PROVE  p.key \notin absent
<1>1. PICK e \in {x \in entries : x.scope = "timed"} :
        p = [key |-> e.key, allowed |-> e.allowed, unix |-> e.unix]
  BY DEF Document
<1>2. p.key = e.key /\ e \in entries
  BY <1>1
<1> QED
  BY <1>2 DEF RemovedStaysRemoved

(* A failed save keeps the invariant, whether the record it was to store   *)
(* was stored or not.                                                      *)
LEMMA FailureKeeps ==
  ASSUME DaemonInv, NEW d \in Domains, job[d] # NoState,
         NEW record, IsRecord(record), NEW old, IsRecord(old), NEW n \in Nat,
         PersistFailed(d, record, old, n),
         UNCHANGED <<credential, running, entries, clock, unix, status, absent>>,
         writeLock' \in {writeLock, NoState}, writeLock' # d,
         IsRecord(files'), IsCopies(copies'),
         \A e \in Domains : e # d =>
           /\ files'[e] = files[e] /\ record[e] = checkpoints[e]
           /\ KnownIn(record, old, e) = KnownIn(checkpoints, legacy, e)
           /\ writeLock' = e <=> writeLock = e
           /\ writeLock = e => record = checkpoints,
         Generation(KnownIn(record, old, d)) >= Generation(KnownIn(checkpoints, legacy, d)),
         \/ KnownIn(record, old, d) = KnownIn(checkpoints, legacy, d)
         \/ KnownIn(record, old, d).document = job[d].document
  PROVE  DaemonInv' /\ NeverFalls
<1>1. /\ faults' \in 0 .. MaxStateFaults /\ faults <= faults'
      /\ IsRecord(checkpoints') /\ IsRecord(legacy')
      /\ \A e \in Domains : KnownIn(checkpoints', legacy', e) = KnownIn(record, old, e)
      /\ \A e \in Domains : e # d => checkpoints'[e] = record[e]
      /\ writeLock' # NoState => checkpoints' = record
      /\ IsJobs(job') /\ \A e \in Domains : e # d => job'[e] = job[e]
      /\ job'[d] # NoState => job'[d].step = "persist" /\ job'[d].document = job[d].document
      /\ generations' \in [Domains -> Nat \cup {NoState}] /\ degraded' \in BOOLEAN
      /\ d = "grants" /\ job'[d] = NoState => degraded'
      /\ d # "grants" => UNCHANGED <<degraded, generations["grants"]>>
  BY FailureIsNoted DEF DaemonInv
<1>2. StateInv'
  BY <1>1 DEF DaemonInv, StateInv
<1>3. ClockInv'
  BY <1>1, ClockStays DEF DaemonInv
<1>4. ASSUME NEW e \in Domains, e # d
      PROVE  /\ job'[e] = job[e] /\ files'[e] = files[e] /\ checkpoints'[e] = checkpoints[e]
             /\ KnownIn(checkpoints', legacy', e) = KnownIn(checkpoints, legacy, e)
             /\ writeLock' = e <=> writeLock = e
             /\ writeLock = e => checkpoints' = checkpoints
  BY <1>1, <1>4, NoStateIsNone
<1>5. d = "grants" => SaveInv' /\ AbsentInv' /\ RemovedStaysRemoved' /\ GrantsAreDurable'
  <2> SUFFICES ASSUME d = "grants"
      PROVE SaveInv' /\ AbsentInv' /\ RemovedStaysRemoved' /\ GrantsAreDurable'
    OBVIOUS
  <2>1. SaveInv'
    BY <1>1 DEF DaemonInv, SaveInv
  <2>2. AbsentInv'
    <3>1. CASE KnownIn(record, old, d) = KnownIn(checkpoints, legacy, d)
      BY <1>1, <3>1 DEF DaemonInv, AbsentInv
    <3>2. CASE KnownIn(record, old, d).document = job[d].document
      <4>1. \A p \in job[d].document : p.key \notin absent
        BY DocumentIsPresent DEF DaemonInv, SaveInv
      <4> QED
        BY <1>1, <3>2, <4>1 DEF AbsentInv
    <3> QED
      BY <3>1, <3>2
  <2>3. RemovedStaysRemoved'
    BY DEF DaemonInv, RemovedStaysRemoved
  <2>4. GrantsAreDurable'
    BY <1>1 DEF GrantsAreDurable
  <2> QED
    BY <2>1, <2>2, <2>3, <2>4
<1>6. writeLock' = d <=> job'[d] # NoState /\ job'[d].step = "store"
  BY <1>1
<1>7. Generation(KnownIn(checkpoints', legacy', d)) >= Generation(KnownIn(checkpoints, legacy, d))
  BY <1>1
<1> QED
  BY <1>1, <1>2, <1>3, <1>4, <1>5, <1>6, <1>7, JobStep, SMTT(30)

LEMMA KnownIsTyped ==
  ASSUME NEW record, IsRecord(record), NEW old, IsRecord(old), NEW d \in Domains
  PROVE  /\ KnownIn(record, old, d) \in StateEnvelopes(d)
         /\ Generation(KnownIn(record, old, d)) \in Nat
  BY GenerationIsNat DEF KnownIn, IsRecord

LEMMA ResolveKeeps ==
  ASSUME DaemonInv, NEW d \in Domains, PersistResolve(d)
  PROVE  DaemonInv' /\ NeverFalls
<1>1. PICK l \in LoadCheckpoint(d, checkpoints, legacy) :
        /\ Fails(l.fault)
        /\ Merge(l)
        /\ IF l.ok
           THEN /\ job' = [job EXCEPT ![d].generation = Generation(l.checkpoint)]
                /\ UNCHANGED degraded
           ELSE job' = [job EXCEPT ![d] = NoState] /\ degraded' = TRUE
  BY DEF PersistResolve
<1>2. /\ job[d] # NoState /\ job[d].step = "persist"
      /\ UNCHANGED <<credential, running, entries, clock, unix, writeLock, files, copies,
                     generations, status, absent>>
  BY DEF PersistResolve, jobUnchanged
<1>3. IsRecord(checkpoints) /\ IsRecord(legacy) /\ IsJobs(job) /\ job[d] \in Jobs(d)
  BY <1>2 DEF DaemonInv, StateInv, IsJobs
<1>4. /\ IsRecord(l.record) /\ IsRecord(l.legacy) /\ l.fault \in {0, 1} /\ l.ok \in BOOLEAN
      /\ \A e \in Domains : KnownIn(l.record, l.legacy, e) = KnownIn(checkpoints, legacy, e)
      /\ \A e \in Domains : e # d => l.record[e] = checkpoints[e]
      /\ l.ok => l.checkpoint = KnownIn(checkpoints, legacy, d)
  BY <1>3, LoadKeepsKnown, SMTT(30)
<1>5. faults' \in 0 .. MaxStateFaults /\ faults <= faults'
  BY <1>1, <1>4, DaemonStateAssumption, SMTT(30) DEF Fails, DaemonInv, ClockInv
<1>6. /\ checkpoints' = l.record /\ legacy' = l.legacy
      /\ writeLock # NoState => checkpoints' = checkpoints
  BY <1>1 DEF Merge
<1>7. /\ IsJobs(job') /\ \A e \in Domains : e # d => job'[e] = job[e]
      /\ job'[d] # NoState => job'[d].step = "persist" /\ job'[d].document = job[d].document
      /\ degraded' \in BOOLEAN /\ (degraded => degraded') /\ (job'[d] = NoState => degraded')
  <2>1. CASE l.ok
    <3> DEFINE j == [job[d] EXCEPT !.generation = Generation(l.checkpoint)]
    <3>1. Generation(l.checkpoint) \in Nat
      BY <1>3, <1>4, <2>1, KnownIsTyped
    <3>2. j \in Jobs(d) /\ j.step = "persist" /\ j.document = job[d].document
      BY <1>2, <1>3, <3>1 DEF Jobs
    <3>3. job' = [job EXCEPT ![d] = j] /\ degraded' = degraded
      BY <1>1, <2>1
    <3> HIDE DEF j
    <3>4. j \in Jobs(d) \cup {NoState} /\ j # NoState
      BY <3>2, NoStateIsNone
    <3>5. /\ IsJobs([job EXCEPT ![d] = j]) /\ [job EXCEPT ![d] = j][d] = j
          /\ \A e \in Domains : e # d => [job EXCEPT ![d] = j][e] = job[e]
      BY <1>3, <3>4, SetJob, SMTT(30)
    <3> QED
      BY <3>2, <3>3, <3>4, <3>5 DEF DaemonInv, StateInv
  <2>2. CASE ~ l.ok
    <3>1. job' = [job EXCEPT ![d] = NoState] /\ degraded' = TRUE
      BY <1>1, <2>2
    <3>2. NoState \in Jobs(d) \cup {NoState}
      OBVIOUS
    <3>3. /\ IsJobs([job EXCEPT ![d] = NoState]) /\ [job EXCEPT ![d] = NoState][d] = NoState
          /\ \A e \in Domains : e # d => [job EXCEPT ![d] = NoState][e] = job[e]
      BY <1>3, <3>2, SetJob, SMTT(30)
    <3> QED
      BY <3>1, <3>3
  <2> QED
    BY <2>1, <2>2
<1>8. StateInv'
  BY <1>2, <1>4, <1>6, <1>7 DEF DaemonInv, StateInv
<1>9. ClockInv'
  BY <1>2, <1>5, ClockStays DEF DaemonInv
<1>10. writeLock' # d
  BY <1>2 DEF DaemonInv, LockInv
<1>11. ASSUME NEW e \in Domains, e # d
       PROVE  /\ job'[e] = job[e] /\ files'[e] = files[e] /\ checkpoints'[e] = checkpoints[e]
              /\ KnownIn(checkpoints', legacy', e) = KnownIn(checkpoints, legacy, e)
              /\ writeLock' = e <=> writeLock = e
              /\ writeLock = e => checkpoints' = checkpoints
  BY <1>2, <1>4, <1>6, <1>7, <1>11, NoStateIsNone
<1>12. KnownIn(checkpoints', legacy', d) = KnownIn(checkpoints, legacy, d)
  BY <1>4, <1>6
<1>13. Generation(KnownIn(checkpoints', legacy', d)) >= Generation(KnownIn(checkpoints, legacy, d))
  BY <1>3, <1>12, KnownIsTyped, SMTT(30)
<1>14. d = "grants" => SaveInv' /\ AbsentInv' /\ RemovedStaysRemoved' /\ GrantsAreDurable'
  <2> SUFFICES ASSUME d = "grants"
      PROVE SaveInv' /\ AbsentInv' /\ RemovedStaysRemoved' /\ GrantsAreDurable'
    OBVIOUS
  <2>1. SaveInv'
    BY <1>2, <1>7 DEF DaemonInv, SaveInv
  <2>2. AbsentInv' /\ RemovedStaysRemoved'
    BY <1>2, <1>12 DEF DaemonInv, AbsentInv, RemovedStaysRemoved
  <2>3. GrantsAreDurable'
    BY <1>7 DEF GrantsAreDurable
  <2> QED
    BY <2>1, <2>2, <2>3
<1> QED
  BY <1>2, <1>7, <1>8, <1>9, <1>10, <1>11, <1>13, <1>14, JobStep

LEMMA FileKeeps ==
  ASSUME DaemonInv, NEW d \in Domains, PersistFile(d)
  PROVE  DaemonInv' /\ NeverFalls
<1> DEFINE j == job[d]
           envelope == [generation |-> j.generation + 1, document |-> j.document]
           Replaced == /\ files' = [files EXCEPT ![d] = envelope]
                       /\ copies' = [copies EXCEPT ![d] = @ \cup {envelope}]
           refused(l) == ~l.ok \/ Generation(l.checkpoint) > j.generation
<1>1. PICK l \in LoadCheckpoint(d, checkpoints, legacy) :
        /\ l.record # checkpoints => writeLock = NoState
        /\ \/ /\ PersistFailed(d, l.record, l.legacy, l.fault)
              /\ UNCHANGED <<files, copies>>
           \/ /\ PersistFailed(d, l.record, l.legacy, l.fault + 1)
              /\ Replaced \/ UNCHANGED <<files, copies>>
           \/ /\ ~refused(l)
              /\ Fails(l.fault)
              /\ checkpoints' = l.record /\ legacy' = l.legacy
              /\ Replaced
              /\ job' = [job EXCEPT ![d].step = "read"]
              /\ UNCHANGED <<generations, degraded>>
  BY DEF PersistFile
<1>2. /\ j # NoState /\ j.step = "persist" /\ j.generation # NoState
      /\ UNCHANGED <<credential, running, entries, clock, unix, status, absent, writeLock>>
  BY DEF PersistFile, jobUnchanged
<1>3. /\ IsRecord(checkpoints) /\ IsRecord(legacy) /\ IsRecord(files) /\ IsCopies(copies)
      /\ IsJobs(job) /\ j \in Jobs(d)
  BY <1>2 DEF DaemonInv, StateInv, IsJobs
<1>4. /\ IsRecord(l.record) /\ IsRecord(l.legacy) /\ l.fault \in {0, 1} /\ l.ok \in BOOLEAN
      /\ \A e \in Domains : KnownIn(l.record, l.legacy, e) = KnownIn(checkpoints, legacy, e)
      /\ \A e \in Domains : e # d => l.record[e] = checkpoints[e]
      /\ l.ok => l.checkpoint = KnownIn(checkpoints, legacy, d)
  BY <1>3, LoadKeepsKnown, SMTT(30)
<1>5. j.generation \in Nat /\ j.document \in Documents(d) /\ envelope \in Envelopes(d)
  BY <1>2, <1>3, SMTT(30) DEF Jobs, Envelopes
<1>6. Replaced => /\ IsRecord(files') /\ files'[d] = envelope
                  /\ \A e \in Domains : e # d => files'[e] = files[e]
                  /\ IsCopies(copies')
  <2> SUFFICES ASSUME Replaced
      PROVE /\ IsRecord(files') /\ files'[d] = envelope
            /\ \A e \in Domains : e # d => files'[e] = files[e]
            /\ IsCopies(copies')
    OBVIOUS
  <2>0. envelope \in StateEnvelopes(d) /\ envelope \in Envelopes("grants") \cup Envelopes("policy")
    BY <1>5 DEF StateEnvelopes, Domains
  <2> HIDE DEF envelope
  <2>1. /\ IsRecord(files') /\ files'[d] = envelope
        /\ \A e \in Domains : e # d => files'[e] = files[e]
    <3>1. files' = [files EXCEPT ![d] = envelope]
      OBVIOUS
    <3> HIDE DEF Replaced
    <3>2. /\ IsRecord([files EXCEPT ![d] = envelope]) /\ [files EXCEPT ![d] = envelope][d] = envelope
          /\ \A e \in Domains : e # d => [files EXCEPT ![d] = envelope][e] = files[e]
      BY <1>3, <2>0, SetRecord, SMTT(30)
    <3> QED
      BY <3>1, <3>2
  <2>2. IsCopies(copies')
    <3>1. copies' \in [Domains -> SUBSET (Envelopes("grants") \cup Envelopes("policy"))]
      BY <1>3, <2>0 DEF IsCopies
    <3>2. \A e \in Domains : copies'[e] \subseteq Envelopes(e)
      BY <1>3, <1>5 DEF IsCopies
    <3> QED
      BY <3>1, <3>2 DEF IsCopies
  <2> QED
    BY <2>1, <2>2
<1>7. writeLock' # d /\ writeLock # d
  BY <1>2 DEF DaemonInv, LockInv
<1>8. ASSUME NEW e \in Domains, e # d
      PROVE  /\ l.record[e] = checkpoints[e]
             /\ KnownIn(l.record, l.legacy, e) = KnownIn(checkpoints, legacy, e)
             /\ writeLock' = e <=> writeLock = e
             /\ writeLock = e => l.record = checkpoints
  BY <1>1, <1>2, <1>4, <1>8, NoStateIsNone
<1>9. /\ KnownIn(l.record, l.legacy, d) = KnownIn(checkpoints, legacy, d)
      /\ Generation(KnownIn(l.record, l.legacy, d)) >= Generation(KnownIn(checkpoints, legacy, d))
  BY <1>3, <1>4, KnownIsTyped, SMTT(30)
<1>10. ASSUME NEW n \in Nat, PersistFailed(d, l.record, l.legacy, n),
              Replaced \/ UNCHANGED <<files, copies>>
       PROVE  DaemonInv' /\ NeverFalls
  <2>1. /\ IsRecord(files') /\ IsCopies(copies')
        /\ \A e \in Domains : e # d => files'[e] = files[e]
    BY <1>3, <1>6, <1>10
  <2> HIDE DEF Replaced, envelope
  <2> QED
    BY <1>2, <1>4, <1>7, <1>8, <1>9, <1>10, <2>1, FailureKeeps, SMTT(30)
<1>11. ASSUME ~refused(l), Fails(l.fault), checkpoints' = l.record, legacy' = l.legacy, Replaced,
              job' = [job EXCEPT ![d].step = "read"], UNCHANGED <<generations, degraded>>
       PROVE  DaemonInv' /\ NeverFalls
  <2> DEFINE next == [j EXCEPT !.step = "read"]
  <2>1. /\ next \in Jobs(d) /\ next.step = "read" /\ next.generation = j.generation
        /\ next.document = j.document
    BY <1>3 DEF Jobs
  <2>2. job' = [job EXCEPT ![d] = next]
    BY <1>11
  <2>3. Generation(KnownIn(checkpoints, legacy, d)) <= j.generation
    <3>1. Generation(KnownIn(checkpoints, legacy, d)) \in Nat
      BY <1>3, KnownIsTyped
    <3> QED
      BY <1>4, <1>5, <1>11, <3>1, SMTT(30)
  <2>4. faults' \in 0 .. MaxStateFaults /\ faults <= faults'
    BY <1>4, <1>11, DaemonStateAssumption, SMTT(30) DEF Fails, DaemonInv, ClockInv
  <2> HIDE DEF next, refused
  <2>5. next \in Jobs(d) \cup {NoState} /\ next # NoState
    BY <2>1, NoStateIsNone
  <2>6. IsJobs(job') /\ job'[d] = next /\ \A e \in Domains : e # d => job'[e] = job[e]
    <3>1. /\ IsJobs([job EXCEPT ![d] = next]) /\ [job EXCEPT ![d] = next][d] = next
          /\ \A e \in Domains : e # d => [job EXCEPT ![d] = next][e] = job[e]
      BY <1>3, <2>5, SetJob, SMTT(30)
    <3> QED
      BY <2>2, <3>1
  <2>7. StateInv'
    BY <1>2, <1>4, <1>6, <1>11, <2>6 DEF DaemonInv, StateInv
  <2>8. ClockInv'
    BY <1>2, <2>4, ClockStays DEF DaemonInv
  <2>9. ASSUME NEW e \in Domains, e # d
        PROVE  /\ job'[e] = job[e] /\ files'[e] = files[e] /\ checkpoints'[e] = checkpoints[e]
               /\ KnownIn(checkpoints', legacy', e) = KnownIn(checkpoints, legacy, e)
               /\ writeLock' = e <=> writeLock = e
               /\ writeLock = e => checkpoints' = checkpoints
    BY <1>6, <1>8, <1>11, <2>6, <2>9
  <2>10. /\ job'[d].generation \in Nat
         /\ Generation(KnownIn(checkpoints', legacy', d)) <= job'[d].generation
         /\ job'[d].step # "store"
    BY <1>5, <1>9, <1>11, <2>1, <2>3, <2>6
  <2>11. d = "grants" => SaveInv' /\ AbsentInv' /\ RemovedStaysRemoved' /\ GrantsAreDurable'
    <3> SUFFICES ASSUME d = "grants"
        PROVE SaveInv' /\ AbsentInv' /\ RemovedStaysRemoved' /\ GrantsAreDurable'
      OBVIOUS
    <3>1. SaveInv'
      BY <1>2, <1>6, <1>11, <2>1, <2>6 DEF DaemonInv, SaveInv
    <3>2. AbsentInv' /\ RemovedStaysRemoved'
      BY <1>2, <1>9, <1>11 DEF DaemonInv, AbsentInv, RemovedStaysRemoved
    <3>3. GrantsAreDurable'
      BY <2>5, <2>6 DEF GrantsAreDurable
    <3> QED
      BY <3>1, <3>2, <3>3
  <2>12. Generation(KnownIn(checkpoints', legacy', d)) >= Generation(KnownIn(checkpoints, legacy, d))
    BY <1>9, <1>11
  <2>13. UNCHANGED <<running, entries, clock, absent, generations["grants"]>> /\ (degraded => degraded')
    BY <1>2, <1>11
  <2>14. writeLock' = d <=> job'[d] # NoState /\ job'[d].step = "store"
    BY <1>7, <2>10
  <2> HIDE DEF Replaced, envelope
  <2> QED
    BY <1>2, <2>7, <2>8, <2>9, <2>10, <2>11, <2>12, <2>13, <2>14, JobStep
<1>12. l.fault \in Nat /\ l.fault + 1 \in Nat
  BY <1>4, SMTT(30)
<1> QED
  BY <1>1, <1>10, <1>11, <1>12

LEMMA ReadKeeps ==
  ASSUME DaemonInv, NEW d \in Domains, PersistRead(d)
  PROVE  DaemonInv' /\ NeverFalls
<1> DEFINE j == job[d]
<1>1. /\ j # NoState /\ j.step = "read" /\ writeLock = NoState
      /\ UNCHANGED <<credential, running, entries, clock, unix, status, absent, files, copies>>
  BY DEF PersistRead, jobUnchanged
<1>2. /\ IsRecord(checkpoints) /\ IsRecord(legacy) /\ IsRecord(files) /\ IsCopies(copies)
      /\ IsJobs(job) /\ j \in Jobs(d)
  BY <1>1 DEF DaemonInv, StateInv, IsJobs
<1>3. Generation(KnownIn(checkpoints, legacy, d)) \in Nat
  BY <1>2, KnownIsTyped
<1>4. CASE writeLock' = writeLock /\ PersistFailed(d, checkpoints, legacy, 1)
  <2>1. /\ writeLock' \in {writeLock, NoState} /\ writeLock' # d
        /\ \A e \in Domains : writeLock' = e <=> writeLock = e
        /\ IsRecord(files') /\ IsCopies(copies') /\ \A e \in Domains : files'[e] = files[e]
    BY <1>1, <1>2, <1>4, NoStateIsNone
  <2>2. Generation(KnownIn(checkpoints, legacy, d)) >= Generation(KnownIn(checkpoints, legacy, d))
    BY <1>3, SMTT(30)
  <2> QED
    BY <1>1, <1>2, <1>4, <2>1, <2>2, FailureKeeps
<1>5. ASSUME Fails(0), writeLock' = d,
             job' = [job EXCEPT ![d].step = "store", ![d].record = checkpoints],
             UNCHANGED <<checkpoints, legacy, generations, degraded>>
      PROVE  DaemonInv' /\ NeverFalls
  <2> DEFINE next == [j EXCEPT !.step = "store", !.record = checkpoints]
  <2>1. /\ next \in Jobs(d) /\ next.step = "store" /\ next.generation = j.generation
        /\ next.document = j.document /\ next.record = checkpoints
    BY <1>2 DEF Jobs, IsRecord
  <2>2. job' = [job EXCEPT ![d] = next]
    BY <1>2, <1>5 DEF IsJobs, Jobs
  <2>3. /\ j.generation \in Nat /\ Generation(KnownIn(checkpoints, legacy, d)) <= j.generation
    BY <1>1 DEF DaemonInv, JobInv
  <2>4. faults' \in 0 .. MaxStateFaults /\ faults <= faults'
    BY <1>5, DaemonStateAssumption, SMTT(30) DEF Fails, DaemonInv, ClockInv
  <2> HIDE DEF next
  <2>5. next \in Jobs(d) \cup {NoState} /\ next # NoState
    BY <2>1, NoStateIsNone
  <2>6. IsJobs(job') /\ job'[d] = next /\ \A e \in Domains : e # d => job'[e] = job[e]
    <3>1. /\ IsJobs([job EXCEPT ![d] = next]) /\ [job EXCEPT ![d] = next][d] = next
          /\ \A e \in Domains : e # d => [job EXCEPT ![d] = next][e] = job[e]
      BY <1>2, <2>5, SetJob, SMTT(30)
    <3> QED
      BY <2>2, <3>1
  <2>7. StateInv'
    BY <1>1, <1>2, <1>5, <2>6 DEF DaemonInv, StateInv
  <2>8. ClockInv'
    BY <1>1, <2>4, ClockStays DEF DaemonInv
  <2>9. ASSUME NEW e \in Domains, e # d
        PROVE  /\ job'[e] = job[e] /\ files'[e] = files[e] /\ checkpoints'[e] = checkpoints[e]
               /\ KnownIn(checkpoints', legacy', e) = KnownIn(checkpoints, legacy, e)
               /\ writeLock' = e <=> writeLock = e
               /\ writeLock = e => checkpoints' = checkpoints
    BY <1>1, <1>5, <2>6, <2>9, NoStateIsNone
  <2>10. /\ job'[d].generation \in Nat
         /\ Generation(KnownIn(checkpoints', legacy', d)) <= job'[d].generation
         /\ job'[d].record = checkpoints' /\ job'[d] # NoState /\ job'[d].step = "store"
    BY <1>5, <2>1, <2>3, <2>5, <2>6
  <2>11. d = "grants" => SaveInv' /\ AbsentInv' /\ RemovedStaysRemoved' /\ GrantsAreDurable'
    <3> SUFFICES ASSUME d = "grants"
        PROVE SaveInv' /\ AbsentInv' /\ RemovedStaysRemoved' /\ GrantsAreDurable'
      OBVIOUS
    <3>1. SaveInv'
      BY <1>1, <2>1, <2>6 DEF DaemonInv, SaveInv
    <3>2. AbsentInv' /\ RemovedStaysRemoved'
      BY <1>1, <1>5 DEF DaemonInv, AbsentInv, RemovedStaysRemoved
    <3>3. GrantsAreDurable'
      BY <2>5, <2>6 DEF GrantsAreDurable
    <3> QED
      BY <3>1, <3>2, <3>3
  <2>12. Generation(KnownIn(checkpoints', legacy', d)) >= Generation(KnownIn(checkpoints, legacy, d))
    BY <1>3, <1>5, SMTT(30)
  <2>13. UNCHANGED <<running, entries, clock, absent, generations["grants"]>> /\ (degraded => degraded')
    BY <1>1, <1>5
  <2> QED
    BY <1>1, <1>5, <2>7, <2>8, <2>9, <2>10, <2>11, <2>12, <2>13, JobStep
<1> QED
  BY <1>4, <1>5 DEF PersistRead

LEMMA StoreKeeps ==
  ASSUME DaemonInv, NEW d \in Domains, PersistStore(d)
  PROVE  DaemonInv' /\ NeverFalls
<1> DEFINE j == job[d]
           envelope == [generation |-> j.generation + 1, document |-> j.document]
           record == [checkpoints EXCEPT ![d] = envelope]
<1>1. /\ j # NoState /\ j.step = "store" /\ writeLock' = NoState
      /\ UNCHANGED <<credential, running, entries, clock, unix, files, copies>>
  BY DEF PersistStore, jobUnchanged
<1>2. /\ IsRecord(checkpoints) /\ IsRecord(legacy) /\ IsRecord(files) /\ IsCopies(copies)
      /\ IsJobs(job) /\ j \in Jobs(d)
  BY <1>1 DEF DaemonInv, StateInv, IsJobs
<1>3. /\ j.generation \in Nat /\ Generation(KnownIn(checkpoints, legacy, d)) <= j.generation
      /\ j.record = checkpoints /\ writeLock = d
  BY <1>1 DEF DaemonInv, JobInv, LockInv
<1>4. \/ /\ Fails(0) /\ checkpoints' = record /\ Acknowledged(d) /\ legacy' = legacy
      \/ /\ PersistFailed(d, record, legacy, 1) \/ PersistFailed(d, checkpoints, legacy, 1)
         /\ UNCHANGED <<status, absent>>
  BY <1>3 DEF PersistStore
<1>5. /\ envelope \in Envelopes(d) /\ envelope \in StateEnvelopes(d) /\ j.document \in Documents(d)
      /\ Generation(envelope) = j.generation + 1 /\ envelope.document = j.document
      /\ envelope.generation = j.generation + 1 /\ envelope # NoState
  <2>1. envelope \in Envelopes(d) /\ j.document \in Documents(d)
    BY <1>2, <1>3, SMTT(30) DEF Jobs, Envelopes
  <2>2. envelope # NoState
    BY <2>1, NoStateIsNone
  <2> QED
    BY <2>1, <2>2 DEF StateEnvelopes, Generation
<1>6. files'["grants"] = files["grants"]
      /\ (d = "grants" => files["grants"] = envelope /\ j.document = Document(entries))
  BY <1>1 DEF DaemonInv, SaveInv
<1> HIDE DEF envelope
<1>7. /\ IsRecord(record) /\ record[d] = envelope
      /\ \A e \in Domains : e # d => record[e] = checkpoints[e]
  BY <1>2, <1>5, SetRecord, SMTT(30)
<1> HIDE DEF record
<1>8. /\ KnownIn(record, legacy, d) = envelope
      /\ \A e \in Domains : e # d => KnownIn(record, legacy, e) = KnownIn(checkpoints, legacy, e)
  BY <1>5, <1>7 DEF KnownIn
<1>9. Generation(KnownIn(checkpoints, legacy, d)) \in Nat
  BY <1>2, KnownIsTyped
<1>10. Generation(KnownIn(record, legacy, d)) >= Generation(KnownIn(checkpoints, legacy, d))
  BY <1>3, <1>5, <1>8, <1>9, SMTT(30)
<1>11. ASSUME PersistFailed(d, record, legacy, 1) \/ PersistFailed(d, checkpoints, legacy, 1),
              UNCHANGED <<status, absent>>
       PROVE  DaemonInv' /\ NeverFalls
  <2>1. /\ writeLock' \in {writeLock, NoState} /\ writeLock' # d
        /\ \A e \in Domains : e # d => (writeLock' = e <=> writeLock = e) /\ writeLock # e
        /\ IsRecord(files') /\ IsCopies(copies') /\ \A e \in Domains : files'[e] = files[e]
    BY <1>1, <1>2, <1>3, NoStateIsNone
  <2>2. CASE PersistFailed(d, record, legacy, 1)
    <3>1. KnownIn(record, legacy, d).document = j.document
      BY <1>5, <1>8
    <3> QED
      BY <1>1, <1>2, <1>7, <1>8, <1>10, <1>11, <2>1, <2>2, <3>1, FailureKeeps, SMTT(30)
  <2>3. CASE PersistFailed(d, checkpoints, legacy, 1)
    <3>1. Generation(KnownIn(checkpoints, legacy, d)) >= Generation(KnownIn(checkpoints, legacy, d))
      BY <1>9, SMTT(30)
    <3> QED
      BY <1>1, <1>2, <1>11, <2>1, <2>3, <3>1, FailureKeeps
  <2> QED
    BY <1>11, <2>2, <2>3
<1>12. ASSUME Fails(0), checkpoints' = record, Acknowledged(d), legacy' = legacy
       PROVE  DaemonInv' /\ NeverFalls
  <2>1. /\ job' = [job EXCEPT ![d] = NoState]
        /\ generations' = [generations EXCEPT ![d] = j.generation + 1]
        /\ degraded' = (degraded /\ d # "grants")
        /\ status' = IF d = "policy" THEN j.document ELSE status
        /\ absent' = IF d = "grants" THEN Keys \ {e.key : e \in entries} ELSE absent
    BY <1>12 DEF Acknowledged
  <2>2. IsJobs(job') /\ job'[d] = NoState /\ \A e \in Domains : e # d => job'[e] = job[e]
    <3>1. NoState \in Jobs(d) \cup {NoState}
      OBVIOUS
    <3>2. /\ IsJobs([job EXCEPT ![d] = NoState]) /\ [job EXCEPT ![d] = NoState][d] = NoState
          /\ \A e \in Domains : e # d => [job EXCEPT ![d] = NoState][e] = job[e]
      BY <1>2, <3>1, SetJob, SMTT(30)
    <3> QED
      BY <2>1, <3>2
  <2>3. faults' \in 0 .. MaxStateFaults /\ faults <= faults'
    BY <1>12, DaemonStateAssumption, SMTT(30) DEF Fails, DaemonInv, ClockInv
  <2>4. generations \in [Domains -> Nat \cup {NoState}] /\ j.generation + 1 \in Nat
    BY <1>3, SMTT(30) DEF DaemonInv, StateInv
  <2>5. /\ generations' \in [Domains -> Nat \cup {NoState}] /\ generations'[d] = j.generation + 1
        /\ \A e \in Domains : e # d => generations'[e] = generations[e]
    BY <2>1, <2>4
  <2>6. StateInv'
    <3>1. status' \in Statuses /\ absent' \subseteq Keys /\ degraded' \in BOOLEAN
      BY <1>5, <2>1 DEF DaemonInv, StateInv, Documents
    <3>2. IsRecord(checkpoints') /\ IsRecord(legacy') /\ IsRecord(files') /\ IsCopies(copies')
      BY <1>1, <1>2, <1>7, <1>12
    <3> QED
      BY <1>1, <2>2, <2>5, <3>1, <3>2 DEF DaemonInv, StateInv
  <2>7. ClockInv'
    BY <1>1, <2>3, ClockStays DEF DaemonInv
  <2>8. ASSUME NEW e \in Domains, e # d
        PROVE  /\ job'[e] = job[e] /\ files'[e] = files[e] /\ checkpoints'[e] = checkpoints[e]
               /\ KnownIn(checkpoints', legacy', e) = KnownIn(checkpoints, legacy, e)
               /\ writeLock' = e <=> writeLock = e
               /\ writeLock = e => checkpoints' = checkpoints
    BY <1>1, <1>3, <1>7, <1>8, <1>12, <2>2, <2>8, NoStateIsNone
  <2>9. d = "grants" => SaveInv' /\ AbsentInv' /\ RemovedStaysRemoved' /\ GrantsAreDurable'
    <3> SUFFICES ASSUME d = "grants"
        PROVE SaveInv' /\ AbsentInv' /\ RemovedStaysRemoved' /\ GrantsAreDurable'
      OBVIOUS
    <3>1. SaveInv'
      BY <2>2 DEF SaveInv
    <3>2. RemovedStaysRemoved'
      BY <1>1, <2>1 DEF RemovedStaysRemoved
    <3>3. AbsentInv'
      <4>1. \A p \in Document(entries) : p.key \notin absent'
        <5> SUFFICES ASSUME NEW p \in Document(entries) PROVE p.key \notin absent'
          OBVIOUS
        <5>1. PICK e \in {x \in entries : x.scope = "timed"} :
                p = [key |-> e.key, allowed |-> e.allowed, unix |-> e.unix]
          BY DEF Document
        <5>2. p.key = e.key /\ e \in entries
          BY <5>1
        <5> QED
          BY <2>1, <5>2
      <4> QED
        BY <1>5, <1>6, <1>8, <1>12, <4>1 DEF AbsentInv
    <3>4. GrantsAreDurable'
      <4>1. generations'["grants"] = Generation(checkpoints'["grants"])
        BY <1>5, <1>7, <1>12, <2>5
      <4>2. /\ files'["grants"] = checkpoints'["grants"]
            /\ Document(entries') = files'["grants"].document
        BY <1>1, <1>5, <1>6, <1>7, <1>12
      <4> QED
        BY <4>1, <4>2 DEF GrantsAreDurable
    <3> QED
      BY <3>1, <3>2, <3>3, <3>4
  <2>10. Generation(KnownIn(checkpoints', legacy', d)) >= Generation(KnownIn(checkpoints, legacy, d))
    BY <1>10, <1>12
  <2>11. d # "grants" => UNCHANGED <<absent, generations["grants"]>> /\ (degraded => degraded')
    BY <2>1, <2>5, DomainsAre
  <2>12. writeLock' # d
    BY <1>1, NoStateIsNone
  <2> QED
    BY <1>1, <2>2, <2>6, <2>7, <2>8, <2>9, <2>10, <2>11, <2>12, JobStep
<1> QED
  BY <1>4, <1>11, <1>12

---------------------------------------------------------------------------
(* A mutation of one domain begins a save and leaves the disk alone. *)
LEMMA BeginSave ==
  ASSUME DaemonInv, NEW d \in Domains, Mutation(d), NEW document \in Documents(d), Persist(d, document),
         UNCHANGED <<keychain, files, copies, running, generations, degraded, clock, unix, faults>>,
         entries' \subseteq Timed \cup UntilLock, status' \in Statuses,
         absent' \subseteq absent, RemovedStaysRemoved', LifetimeIsBounded',
         d = "grants" => document = Document(entries'),
         d # "grants" => UNCHANGED <<entries, absent>>
  PROVE  DaemonInv' /\ NeverFalls
<1> DEFINE j == Job(generations[d], document, 1)
<1>1. /\ running /\ job[d] = NoState /\ job' = [job EXCEPT ![d] = j]
      /\ UNCHANGED <<credential, checkpoints, legacy, writeLock>>
  BY DEF Mutation, Persist, keychain
<1>2. j \in Jobs(d) /\ j # NoState /\ j.step = "persist" /\ j.document = document
  <2>1. generations[d] \in Nat \cup {NoState} /\ 1 \in {1, 2} /\ StateInv
    BY DEF DaemonInv, StateInv
  <2>2. ASSUME NEW g \in Nat \cup {NoState}, NEW a \in {1, 2}
        PROVE  /\ Job(g, document, a) \in Jobs(d) /\ Job(g, document, a) # NoState
               /\ Job(g, document, a).step = "persist" /\ Job(g, document, a).document = document
    BY <2>1, JobIsTyped
  <2> QED
    BY <2>1, <2>2
<1> HIDE DEF j
<1>3. IsJobs(job') /\ job'[d] = j /\ \A e \in Domains : e # d => job'[e] = job[e]
  <2>1. j \in Jobs(d) \cup {NoState} /\ IsJobs(job)
    BY <1>2 DEF DaemonInv, StateInv
  <2>2. /\ IsJobs([job EXCEPT ![d] = j]) /\ [job EXCEPT ![d] = j][d] = j
        /\ \A e \in Domains : e # d => [job EXCEPT ![d] = j][e] = job[e]
    BY <2>1, SetJob, SMTT(30)
  <2> QED
    BY <1>1, <2>2
<1>4. StateInv' /\ ClockInv'
  <2>1. StateInv'
    BY <1>1, <1>3 DEF DaemonInv, StateInv
  <2>2. ClockInv'
    BY DEF DaemonInv, ClockInv
  <2> QED
    BY <2>1, <2>2
<1>5. LockInv' /\ JobInv'
  <2>1. LockInv'
    BY <1>1, <1>2, <1>3 DEF DaemonInv, LockInv
  <2>2. JobInv'
    BY <1>1, <1>2, <1>3 DEF DaemonInv, JobInv
  <2> QED
    BY <2>1, <2>2
<1>6. AbsentInv'
  BY <1>1 DEF DaemonInv, AbsentInv
<1>7. SaveInv' /\ GrantsAreDurable'
  <2>1. CASE d = "grants"
    BY <1>2, <1>3, <2>1 DEF SaveInv, GrantsAreDurable
  <2>2. CASE d # "grants"
    <3>1. job'["grants"] = job["grants"]
      BY <1>3, <2>2, DomainsAre
    <3>2. SaveInv'
      BY <2>2, <3>1 DEF DaemonInv, SaveInv
    <3>3. GrantsAreDurable'
      BY <1>1, <2>2, <3>1 DEF DaemonInv, GrantsAreDurable
    <3> QED
      BY <3>2, <3>3
  <2> QED
    BY <2>1, <2>2
<1>8. NeverFalls
  <2>1. ASSUME NEW e \in Domains PROVE Known(e)' >= Known(e)
    <3>1. Generation(KnownIn(checkpoints, legacy, e)) \in Nat
      BY KnownIsTyped DEF DaemonInv, StateInv
    <3> QED
      BY <1>1, <3>1, SMTT(30) DEF Known, KnownIn
  <2> QED
    BY <2>1 DEF NeverFalls
<1> QED
  BY <1>4, <1>5, <1>6, <1>7, <1>8 DEF DaemonInv

LEMMA DocumentIsTyped ==
  ASSUME NEW es, es \subseteq Timed \cup UntilLock
  PROVE  Document(es) \in Documents("grants")
<1>1. ASSUME NEW e \in {x \in es : x.scope = "timed"}
      PROVE  [key |-> e.key, allowed |-> e.allowed, unix |-> e.unix] \in Persisted
  <2>1. e \in Timed
    BY DEF UntilLock
  <2> QED
    BY <2>1 DEF Timed, Persisted
<1> QED
  BY <1>1 DEF Document, Documents

LEMMA SaveKeeps ==
  ASSUME DaemonInv, Mutation("grants"), NEW es, SaveEntries(es), es \subseteq Timed \cup UntilLock,
         absent' \subseteq absent,
         \A e \in es : /\ e.key \notin absent'
                       /\ e.scope = "timed" => e.monotonic <= clock + MaximumTtl
  PROVE  DaemonInv' /\ NeverFalls
<1>1. /\ entries' = es /\ Persist("grants", Document(es))
      /\ UNCHANGED <<keychain, files, copies, running, generations, degraded, status, clock, unix, faults>>
  BY DEF SaveEntries
<1>2. Document(es) \in Documents("grants")
  BY DocumentIsTyped
<1>3. status' \in Statuses
  BY <1>1 DEF DaemonInv, StateInv
<1>4. RemovedStaysRemoved' /\ LifetimeIsBounded'
  BY <1>1 DEF RemovedStaysRemoved, LifetimeIsBounded
<1> QED
  BY <1>1, <1>2, <1>3, <1>4, DomainsAre, BeginSave

(* Removing grants from the cache. *)
LEMMA RemovalKeeps ==
  ASSUME DaemonInv, Mutation("grants"), NEW es, es \subseteq entries, SaveEntries(es), absent' = absent
  PROVE  DaemonInv' /\ NeverFalls
<1>1. /\ es \subseteq Timed \cup UntilLock
      /\ \A e \in es : /\ e.key \notin absent'
                       /\ e.scope = "timed" => e.monotonic <= clock + MaximumTtl
  BY DEF DaemonInv, StateInv, RemovedStaysRemoved, LifetimeIsBounded
<1> QED
  BY <1>1, SaveKeeps

LEMMA TimesArithmetic ==
  ASSUME NEW c \in Int, NEW u \in Int, NEW f \in Int, NEW mf \in Nat, NEW mc \in Nat, NEW mt \in Nat,
         NEW t \in Int, 1 <= t, t <= mt, 0 <= c, c <= mc, f <= mf, 0 - f <= u, u <= c
  PROVE  c + t \in (0 - mf) .. (mc + mt) /\ u + t \in (0 - mf) .. (mc + mt)
  BY SMTT(30)

LEMMA InsertKeeps ==
  ASSUME DaemonInv, NEW k \in Keys, NEW allowed \in BOOLEAN, Insert(k, allowed)
  PROVE  DaemonInv' /\ NeverFalls
<1>1. PICK new \in {[key |-> k, allowed |-> allowed, scope |-> "until_lock"]} \cup
                   {[key |-> k, allowed |-> allowed, scope |-> "timed",
                     monotonic |-> clock + ttl, unix |-> unix + ttl] : ttl \in 1 .. MaximumTtl} :
        SaveEntries({e \in entries : e.key # k} \cup {new})
  BY DEF Insert
<1>2. Mutation("grants") /\ absent' = absent \ {k}
  BY DEF Insert
<1>3. /\ MaximumTtl \in Nat /\ MaxClock \in Nat /\ MaxStateFaults \in Nat
      /\ clock \in Int /\ unix \in Int /\ faults \in Int
      /\ 0 <= clock /\ clock <= MaxClock /\ faults <= MaxStateFaults
      /\ 0 - faults <= unix /\ unix <= clock
  BY DaemonStateAssumption, SMTT(30) DEF DaemonInv, ClockInv
<1>4. /\ new \in Timed \cup UntilLock /\ new.key = k
      /\ new.scope = "timed" => new.monotonic <= clock + MaximumTtl
  <2>1. CASE new = [key |-> k, allowed |-> allowed, scope |-> "until_lock"]
    BY <2>1 DEF UntilLock
  <2>2. ASSUME NEW ttl \in 1 .. MaximumTtl,
               new = [key |-> k, allowed |-> allowed, scope |-> "timed",
                      monotonic |-> clock + ttl, unix |-> unix + ttl]
        PROVE  /\ new \in Timed \cup UntilLock /\ new.key = k
               /\ new.monotonic <= clock + MaximumTtl
    <3>1. ttl \in Int /\ 1 <= ttl /\ ttl <= MaximumTtl
      BY <1>3, SMTT(30)
    <3>2. clock + ttl \in Times /\ unix + ttl \in Times
      BY <1>3, <3>1, TimesArithmetic DEF Times
    <3>3. new \in Timed
      BY <2>2, <3>2 DEF Timed
    <3>4. new.monotonic = clock + ttl /\ new.key = k
      BY <2>2
    <3>5. clock + ttl <= clock + MaximumTtl
      BY <1>3, <3>1, SMTT(30)
    <3> QED
      BY <3>3, <3>4, <3>5
  <2> QED
    BY <2>1, <2>2
<1>5. /\ {e \in entries : e.key # k} \cup {new} \subseteq Timed \cup UntilLock
      /\ absent' \subseteq absent
      /\ \A e \in {x \in entries : x.key # k} \cup {new} :
           /\ e.key \notin absent'
           /\ e.scope = "timed" => e.monotonic <= clock + MaximumTtl
  BY <1>2, <1>4 DEF DaemonInv, StateInv, RemovedStaysRemoved, LifetimeIsBounded
<1> QED
  BY <1>1, <1>2, <1>5, SaveKeeps

(* The policy mode. *)
LEMMA PolicyKeeps ==
  ASSUME DaemonInv, Mutation("policy"), NEW document \in Statuses, Persist("policy", document),
         UNCHANGED policyUnchanged, status' \in Statuses
  PROVE  DaemonInv' /\ NeverFalls
<1>1. UNCHANGED <<keychain, files, copies, running, entries, generations, degraded, clock, unix,
                  faults, absent>>
  BY DEF policyUnchanged
<1>2. document \in Documents("policy")
  BY DEF Documents
<1>3. RemovedStaysRemoved' /\ LifetimeIsBounded' /\ entries' \subseteq Timed \cup UntilLock
  BY <1>1 DEF DaemonInv, StateInv, RemovedStaysRemoved, LifetimeIsBounded
<1> QED
  BY <1>1, <1>2, <1>3, DomainsAre, BeginSave

---------------------------------------------------------------------------
(* Opening the two states. *)
LEMMA RestoredArithmetic ==
  ASSUME NEW c \in Int, NEW u \in Int, NEW f \in Int, NEW mf \in Nat, NEW mc \in Nat, NEW mt \in Nat,
         NEW t \in Int, t > u, t - u <= mt, 0 <= c, c <= mc, f <= mf, 0 - f <= u, u <= c
  PROVE  c + (t - u) \in (0 - mf) .. (mc + mt) /\ c + (t - u) <= c + mt
  BY SMTT(30)

(* What a restart restores of a valid document lives MAXIMUM_TTL at most. *)
LEMMA RestoredIsBounded ==
  ASSUME ClockInv, NEW document \in SUBSET Persisted, Valid(document)
  PROVE  /\ Restored(document) \subseteq Timed
         /\ \A e \in Restored(document) : e.monotonic <= clock + MaximumTtl
         /\ \A e \in Restored(document) : \E p \in document : e.key = p.key
         /\ Document(Restored(document)) \subseteq document
<1>1. /\ MaximumTtl \in Nat /\ MaxClock \in Nat /\ MaxStateFaults \in Nat
      /\ clock \in Int /\ unix \in Int /\ faults \in Int
      /\ 0 <= clock /\ clock <= MaxClock /\ faults <= MaxStateFaults
      /\ 0 - faults <= unix /\ unix <= clock
  BY DaemonStateAssumption, SMTT(30) DEF ClockInv
<1>2. ASSUME NEW e \in Restored(document)
      PROVE  /\ e \in Timed /\ e.monotonic <= clock + MaximumTtl
             /\ \E p \in document : e.key = p.key
             /\ [key |-> e.key, allowed |-> e.allowed, unix |-> e.unix] \in document
  <2>1. PICK p \in {q \in document : q.unix > unix} :
          e = [key |-> p.key, allowed |-> p.allowed, scope |-> "timed",
               monotonic |-> clock + (p.unix - unix), unix |-> p.unix]
    BY DEF Restored
  <2>2. p \in Persisted /\ p \in document /\ p.unix > unix /\ p.unix - unix <= MaximumTtl
    BY DEF Valid
  <2>3. p.key \in Keys /\ p.allowed \in BOOLEAN /\ p.unix \in Times /\ p.unix \in Int
    BY <2>2, SMTT(30) DEF Persisted, Times
  <2>4. clock + (p.unix - unix) \in Times /\ clock + (p.unix - unix) <= clock + MaximumTtl
    BY <1>1, <2>2, <2>3, RestoredArithmetic DEF Times
  <2>5. e \in Timed
    BY <2>1, <2>3, <2>4 DEF Timed
  <2>6. e.key = p.key /\ e.allowed = p.allowed /\ e.unix = p.unix
        /\ e.monotonic = clock + (p.unix - unix)
    BY <2>1
  <2>7. p = [key |-> p.key, allowed |-> p.allowed, unix |-> p.unix]
    BY <2>2 DEF Persisted
  <2>8. [key |-> e.key, allowed |-> e.allowed, unix |-> e.unix] = p
    BY <2>6, <2>7
  <2> QED
    BY <2>2, <2>4, <2>5, <2>6, <2>8
<1>3. Document(Restored(document)) \subseteq document
  BY <1>2 DEF Document
<1> QED
  BY <1>2, <1>3

(* GrantCache::open finds what was not removed, bounded by the longest     *)
(* lifetime, and the generation of the checkpoint; or nothing.             *)
LEMMA GrantsAreOpened ==
  ASSUME DaemonInv, NEW g \in OpenGrants
  PROVE  /\ IsRecord(g.record) /\ IsRecord(g.legacy) /\ g.fault \in Nat
         /\ \A e \in Domains : KnownIn(g.record, g.legacy, e) = KnownIn(checkpoints, legacy, e)
         /\ g.generation \in Nat \cup {NoState}
         /\ g.value \subseteq Timed
         /\ \A e \in g.value : e.key \notin absent /\ e.monotonic <= clock + MaximumTtl
         /\ g.rejected \in BOOLEAN
         /\ g.rejected => g.value = {}
         /\ ~ g.rejected =>
              /\ g.generation = Generation(g.record["grants"])
              /\ Document(g.value) # {} => /\ files["grants"] = g.record["grants"]
                                           /\ Document(g.value) \subseteq files["grants"].document
<1> DEFINE r(l) == Load("grants", l.checkpoint)
<1>1. PICK l \in LoadCheckpoint("grants", checkpoints, legacy) :
        g \in IF ~l.ok \/ r(l).kind = "rejected" THEN OpenRejected("grants", l, {}, NoState)
              ELSE IF r(l).kind = "missing" THEN {Opened({}, r(l).generation, l, 0, r(l).generation # 0)}
              ELSE IF Valid(r(l).document)
                THEN {Opened(Restored(r(l).document), r(l).generation, l, 0, FALSE)}
              ELSE {Opened({}, r(l).generation, l, 0, TRUE)}
  BY DEF OpenGrants
<1>2. /\ IsRecord(checkpoints) /\ IsRecord(legacy) /\ IsRecord(files)
      /\ files["grants"] \in StateEnvelopes("grants")
  BY DomainsAre DEF DaemonInv, StateInv, IsRecord
<1>3. /\ IsRecord(l.record) /\ IsRecord(l.legacy) /\ l.fault \in {0, 1} /\ l.ok \in BOOLEAN
      /\ \A e \in Domains : KnownIn(l.record, l.legacy, e) = KnownIn(checkpoints, legacy, e)
      /\ l.ok => /\ l.checkpoint = KnownIn(checkpoints, legacy, "grants")
                 /\ l.record["grants"] = l.checkpoint
  BY <1>2, DomainsAre, LoadKeepsKnown, SMTT(30)
<1>4. Document({}) = {}
  BY DEF Document
<1>5. CASE ~l.ok \/ r(l).kind = "rejected"
  <2>1. g \in OpenRejected("grants", l, {}, NoState)
    BY <1>1, <1>5
  <2> HIDE DEF r
  <2>2. PICK k \in LoadCheckpoint("grants", l.record, l.legacy) :
          g = Opened({}, IF k.ok THEN Generation(k.checkpoint) ELSE NoState, k, l.fault, TRUE)
    BY <2>1 DEF OpenRejected
  <2>3. /\ IsRecord(k.record) /\ IsRecord(k.legacy) /\ k.fault \in {0, 1} /\ k.ok \in BOOLEAN
        /\ \A e \in Domains : KnownIn(k.record, k.legacy, e) = KnownIn(l.record, l.legacy, e)
        /\ k.ok => k.checkpoint = KnownIn(l.record, l.legacy, "grants")
    BY <1>3, DomainsAre, LoadKeepsKnown, SMTT(30)
  <2>4. k.ok => Generation(k.checkpoint) \in Nat
    BY <1>3, <2>3, DomainsAre, KnownIsTyped
  <2>5. /\ g.value = {} /\ g.record = k.record /\ g.legacy = k.legacy /\ g.rejected = TRUE
        /\ g.fault = l.fault + k.fault
        /\ g.generation = IF k.ok THEN Generation(k.checkpoint) ELSE NoState
    BY <2>2 DEF Opened
  <2>6. g.fault \in Nat
    BY <1>3, <2>3, <2>5, SMTT(30)
  <2>7. g.generation \in Nat \cup {NoState}
    BY <2>4, <2>5
  <2> QED
    BY <1>3, <2>3, <2>5, <2>6, <2>7
<1>6. ASSUME l.ok, files["grants"] = NoState,
             g = Opened({}, Generation(l.checkpoint), l, 0, Generation(l.checkpoint) # 0)
      PROVE  /\ g.fault \in Nat /\ g.record = l.record /\ g.legacy = l.legacy
             /\ g.generation = Generation(g.record["grants"]) /\ g.generation \in Nat
             /\ g.value = {} /\ g.rejected \in BOOLEAN
  <2>1. /\ g.fault = 0 + l.fault /\ g.record = l.record /\ g.legacy = l.legacy
        /\ g.generation = Generation(l.checkpoint) /\ g.value = {}
        /\ g.rejected = (Generation(l.checkpoint) # 0)
    BY <1>6 DEF Opened
  <2>2. Generation(l.checkpoint) \in Nat
    BY <1>2, <1>3, <1>6, DomainsAre, KnownIsTyped
  <2>3. g.fault \in Nat
    BY <1>3, <2>1, SMTT(30)
  <2>4. g.rejected \in BOOLEAN
    BY <2>1
  <2> QED
    BY <1>3, <1>6, <2>1, <2>2, <2>3, <2>4
<1>7. ASSUME l.ok, files["grants"] = l.checkpoint, files["grants"] # NoState
      PROVE  /\ l.checkpoint \in Envelopes("grants") /\ l.checkpoint.generation \in Nat
             /\ l.checkpoint.document \in SUBSET Persisted
             /\ l.checkpoint.generation = Generation(l.record["grants"])
             /\ \A p \in l.checkpoint.document : p.key \notin absent
  <2>1. l.checkpoint \in Envelopes("grants")
    BY <1>2, <1>7 DEF StateEnvelopes
  <2>2. l.checkpoint.generation \in Nat /\ l.checkpoint.document \in SUBSET Persisted
    BY <2>1 DEF Envelopes, Documents
  <2>3. \A p \in l.checkpoint.document : p.key \notin absent
    BY <1>3, <1>7 DEF DaemonInv, AbsentInv
  <2>4. l.checkpoint.generation = Generation(l.record["grants"])
    BY <1>3, <1>7 DEF Generation
  <2> QED
    BY <2>1, <2>2, <2>3, <2>4
<1>8. ASSUME l.ok, files["grants"] = l.checkpoint, files["grants"] # NoState, Valid(l.checkpoint.document),
             g = Opened(Restored(l.checkpoint.document), l.checkpoint.generation, l, 0, FALSE)
      PROVE  /\ g.fault \in Nat /\ g.record = l.record /\ g.legacy = l.legacy
             /\ g.generation = Generation(g.record["grants"]) /\ g.generation \in Nat
             /\ g.value \subseteq Timed
             /\ \A e \in g.value : e.key \notin absent /\ e.monotonic <= clock + MaximumTtl
             /\ g.rejected = FALSE /\ files["grants"] = g.record["grants"]
             /\ Document(g.value) \subseteq files["grants"].document
  <2>1. /\ g.fault = 0 + l.fault /\ g.record = l.record /\ g.legacy = l.legacy
        /\ g.generation = l.checkpoint.generation /\ g.value = Restored(l.checkpoint.document)
        /\ g.rejected = FALSE
    BY <1>8 DEF Opened
  <2>2. /\ l.checkpoint.generation \in Nat /\ l.checkpoint.document \in SUBSET Persisted
        /\ l.checkpoint.generation = Generation(l.record["grants"])
        /\ \A p \in l.checkpoint.document : p.key \notin absent
    BY <1>7, <1>8
  <2>3. /\ g.value \subseteq Timed
        /\ \A e \in g.value : e.monotonic <= clock + MaximumTtl
        /\ \A e \in g.value : \E p \in l.checkpoint.document : e.key = p.key
        /\ Document(g.value) \subseteq l.checkpoint.document
    <3> DEFINE document == l.checkpoint.document
    <3>1. ClockInv /\ document \in SUBSET Persisted /\ Valid(document)
      BY <1>8, <2>2 DEF DaemonInv
    <3>2. g.value = Restored(document)
      BY <2>1
    <3> HIDE DEF document
    <3>3. /\ Restored(document) \subseteq Timed
          /\ \A e \in Restored(document) : e.monotonic <= clock + MaximumTtl
          /\ \A e \in Restored(document) : \E p \in document : e.key = p.key
          /\ Document(Restored(document)) \subseteq document
      BY <3>1, RestoredIsBounded
    <3> QED
      BY <3>2, <3>3 DEF document
  <2>4. g.fault \in Nat
    BY <1>3, <2>1, SMTT(30)
  <2> QED
    BY <1>3, <1>8, <2>1, <2>2, <2>3, <2>4
<1>9. ASSUME l.ok, files["grants"] = l.checkpoint, files["grants"] # NoState,
             g = Opened({}, l.checkpoint.generation, l, 0, TRUE)
      PROVE  /\ g.fault \in Nat /\ g.record = l.record /\ g.legacy = l.legacy
             /\ g.generation \in Nat /\ g.value = {} /\ g.rejected = TRUE
  <2>1. /\ g.fault = 0 + l.fault /\ g.record = l.record /\ g.legacy = l.legacy
        /\ g.generation = l.checkpoint.generation /\ g.value = {} /\ g.rejected = TRUE
    BY <1>9 DEF Opened
  <2>2. l.checkpoint.generation \in Nat
    BY <1>7, <1>9
  <2>3. g.fault \in Nat
    BY <1>3, <2>1, SMTT(30)
  <2> QED
    BY <2>1, <2>2, <2>3
<1>10. CASE l.ok /\ r(l).kind # "rejected"
  <2>1. CASE files["grants"] = NoState
    <3>1. r(l) = [kind |-> "missing", generation |-> Generation(l.checkpoint)]
      BY <2>1 DEF Load
    <3>a. r(l).kind = "missing" /\ r(l).kind # "rejected" /\ r(l).generation = Generation(l.checkpoint)
      BY <3>1, SMTT(30)
    <3> HIDE DEF r
    <3>2. g = Opened({}, Generation(l.checkpoint), l, 0, Generation(l.checkpoint) # 0)
      BY <1>1, <1>10, <3>a
    <3> QED
      BY <1>3, <1>4, <1>6, <1>10, <2>1, <3>2
  <2>2. CASE files["grants"] # NoState
    <3>1. files["grants"] = l.checkpoint
      BY <1>10, <2>2 DEF Load
    <3>2. r(l) = [kind |-> "document", generation |-> l.checkpoint.generation,
                  document |-> l.checkpoint.document]
      BY <2>2, <3>1 DEF Load
    <3>a. /\ r(l).kind # "missing" /\ r(l).kind # "rejected" /\ r(l).document = l.checkpoint.document
          /\ r(l).generation = l.checkpoint.generation
      BY <3>2, SMTT(30)
    <3> HIDE DEF r
    <3>3. \/ /\ Valid(l.checkpoint.document)
             /\ g = Opened(Restored(l.checkpoint.document), l.checkpoint.generation, l, 0, FALSE)
          \/ g = Opened({}, l.checkpoint.generation, l, 0, TRUE)
      BY <1>1, <1>10, <3>a
    <3> QED
      BY <1>3, <1>4, <1>8, <1>9, <1>10, <2>2, <3>1, <3>3
  <2> QED
    BY <2>1, <2>2
<1> QED
  BY <1>3, <1>5, <1>10

(* PolicyModeState::open leaves the grants' checkpoint alone. *)
LEMMA PolicyIsOpened ==
  ASSUME DaemonInv, NEW g, IsRecord(g.record), IsRecord(g.legacy), NEW p \in OpenPolicy(g)
  PROVE  /\ IsRecord(p.record) /\ IsRecord(p.legacy) /\ p.fault \in Nat
         /\ \A e \in Domains : KnownIn(p.record, p.legacy, e) = KnownIn(g.record, g.legacy, e)
         /\ p.record["grants"] = g.record["grants"]
         /\ p.generation \in Nat /\ p.value \in Statuses
<1> DEFINE r(l) == Load("policy", l.checkpoint)
<1>1. PICK l \in LoadCheckpoint("policy", g.record, g.legacy) :
        p \in IF ~l.ok \/ r(l).kind = "rejected" THEN OpenRejected("policy", l, Normal, 0)
              ELSE {Opened(IF r(l).kind = "missing" THEN Normal ELSE r(l).document,
                           r(l).generation, l, 0, FALSE)}
  BY DEF OpenPolicy
<1>2. files["policy"] \in StateEnvelopes("policy")
  BY DomainsAre DEF DaemonInv, StateInv, IsRecord
<1>3. /\ IsRecord(l.record) /\ IsRecord(l.legacy) /\ l.fault \in {0, 1} /\ l.ok \in BOOLEAN
      /\ \A e \in Domains : KnownIn(l.record, l.legacy, e) = KnownIn(g.record, g.legacy, e)
      /\ l.record["grants"] = g.record["grants"]
      /\ l.ok => l.checkpoint = KnownIn(g.record, g.legacy, "policy")
  BY DomainsAre, LoadKeepsKnown, SMTT(30)
<1>4. Normal \in Statuses
  BY DEF Normal, Statuses
<1>5. CASE ~l.ok \/ r(l).kind = "rejected"
  <2>1. p \in OpenRejected("policy", l, Normal, 0)
    BY <1>1, <1>5
  <2> HIDE DEF r
  <2>2. PICK k \in LoadCheckpoint("policy", l.record, l.legacy) :
          p = Opened(Normal, IF k.ok THEN Generation(k.checkpoint) ELSE 0, k, l.fault, TRUE)
    BY <2>1 DEF OpenRejected
  <2>3. /\ IsRecord(k.record) /\ IsRecord(k.legacy) /\ k.fault \in {0, 1} /\ k.ok \in BOOLEAN
        /\ \A e \in Domains : KnownIn(k.record, k.legacy, e) = KnownIn(l.record, l.legacy, e)
        /\ k.record["grants"] = l.record["grants"]
        /\ k.ok => k.checkpoint = KnownIn(l.record, l.legacy, "policy")
    BY <1>3, DomainsAre, LoadKeepsKnown, SMTT(30)
  <2>4. k.ok => Generation(k.checkpoint) \in Nat
    BY <1>3, <2>3, DomainsAre, KnownIsTyped
  <2>5. /\ p.value = Normal /\ p.record = k.record /\ p.legacy = k.legacy
        /\ p.fault = l.fault + k.fault
        /\ p.generation = IF k.ok THEN Generation(k.checkpoint) ELSE 0
    BY <2>2 DEF Opened
  <2>6. p.fault \in Nat
    BY <1>3, <2>3, <2>5, SMTT(30)
  <2>7. p.generation \in Nat
    BY <2>4, <2>5, SMTT(30)
  <2> QED
    BY <1>3, <1>4, <2>3, <2>5, <2>6, <2>7
<1>6. CASE l.ok /\ r(l).kind # "rejected"
  <2>1. p = Opened(IF r(l).kind = "missing" THEN Normal ELSE r(l).document, r(l).generation, l, 0, FALSE)
    BY <1>1, <1>6
  <2>2. /\ r(l).generation \in Nat
        /\ r(l).kind # "missing" => r(l).document \in Statuses
    <3>1. CASE files["policy"] = NoState
      <4>1. Generation(l.checkpoint) \in Nat
        BY <1>3, <1>6, DomainsAre, KnownIsTyped
      <4> QED
        BY <3>1, <4>1 DEF Load
    <3>2. CASE files["policy"] # NoState
      <4>1. files["policy"] = l.checkpoint
        BY <1>6, <3>2 DEF Load
      <4>2. l.checkpoint \in Envelopes("policy")
        BY <1>2, <3>2, <4>1 DEF StateEnvelopes
      <4>3. l.checkpoint.generation \in Nat /\ l.checkpoint.document \in Statuses
        BY <4>2 DEF Envelopes, Documents
      <4> QED
        BY <3>2, <4>1, <4>3 DEF Load
    <3> QED
      BY <3>1, <3>2
  <2> HIDE DEF r
  <2>3. /\ p.record = l.record /\ p.legacy = l.legacy /\ p.fault = 0 + l.fault
        /\ p.generation = r(l).generation
        /\ p.value = IF r(l).kind = "missing" THEN Normal ELSE r(l).document
    BY <2>1 DEF Opened
  <2>4. p.fault \in Nat
    BY <1>3, <2>3, SMTT(30)
  <2>5. p.value \in Statuses
    BY <1>4, <2>2, <2>3
  <2> QED
    BY <1>3, <2>2, <2>3, <2>4, <2>5
<1> QED
  BY <1>3, <1>5, <1>6

LEMMA PairIsFunction ==
  ASSUME NEW a, NEW b, NEW S, a \in S, b \in S
  PROVE  /\ [grants |-> a, policy |-> b] \in [Domains -> S]
         /\ [grants |-> a, policy |-> b]["grants"] = a
         /\ [grants |-> a, policy |-> b]["policy"] = b
  BY SMTT(30) DEF Domains

(* The faults counted so far only grow, up to their bound. *)
LEMMA FaultsGrow ==
  ASSUME NEW before \in Int, 0 <= before, NEW bound \in Nat,
         NEW m \in Nat, NEW n \in Nat, NEW k \in Int, 0 <= k,
         before + (m + n + k) <= bound
  PROVE  before + (m + n + k) \in 0 .. bound /\ before <= before + (m + n + k)
  BY SMTT(30)

LEMMA StuckIsCounted ==
  ASSUME NEW rejected, NEW stuck \in IF rejected THEN 0 .. 1 ELSE {0}
  PROVE  stuck \in Int /\ 0 <= stuck
<1>1. CASE rejected
  BY <1>1, SMTT(30)
<1>2. CASE ~ rejected
  BY <1>2, SMTT(30)
<1> QED
  BY <1>1, <1>2

LEMMA StartKeeps ==
  ASSUME DaemonInv, Start
  PROVE  DaemonInv' /\ NeverFalls
<1>1. PICK g \in OpenGrants : \E p \in OpenPolicy(g) : \E stuck \in IF g.rejected THEN 0 .. 1 ELSE {0} :
        /\ Fails(g.fault + p.fault + stuck)
        /\ checkpoints' = p.record /\ legacy' = p.legacy
        /\ files' = IF g.rejected /\ stuck = 0 THEN Quarantined ELSE files
        /\ entries' = g.value
        /\ degraded' = g.rejected
        /\ generations' = [grants |-> g.generation, policy |-> p.generation]
        /\ status' = IF OverrideExpired(p.value) THEN Normal ELSE p.value
        /\ job' = [grants |-> IF g.rejected THEN Job(g.generation, {}, 1) ELSE NoState,
                   policy |-> IF OverrideExpired(p.value) THEN Job(p.generation, Normal, 1) ELSE NoState]
  BY DEF Start
<1>2. PICK p \in OpenPolicy(g) : \E stuck \in IF g.rejected THEN 0 .. 1 ELSE {0} :
        /\ Fails(g.fault + p.fault + stuck)
        /\ checkpoints' = p.record /\ legacy' = p.legacy
        /\ files' = IF g.rejected /\ stuck = 0 THEN Quarantined ELSE files
        /\ entries' = g.value
        /\ degraded' = g.rejected
        /\ generations' = [grants |-> g.generation, policy |-> p.generation]
        /\ status' = IF OverrideExpired(p.value) THEN Normal ELSE p.value
        /\ job' = [grants |-> IF g.rejected THEN Job(g.generation, {}, 1) ELSE NoState,
                   policy |-> IF OverrideExpired(p.value) THEN Job(p.generation, Normal, 1) ELSE NoState]
  BY <1>1
<1> DEFINE jg == IF g.rejected THEN Job(g.generation, {}, 1) ELSE NoState
           jp == IF OverrideExpired(p.value) THEN Job(p.generation, Normal, 1) ELSE NoState
<1>3. PICK stuck \in Int :
        /\ 0 <= stuck
        /\ Fails(g.fault + p.fault + stuck)
        /\ files' = IF g.rejected /\ stuck = 0 THEN Quarantined ELSE files
  BY <1>2, StuckIsCounted
<1>4. /\ checkpoints' = p.record /\ legacy' = p.legacy /\ entries' = g.value
      /\ degraded' = g.rejected
      /\ generations' = [grants |-> g.generation, policy |-> p.generation]
      /\ status' = IF OverrideExpired(p.value) THEN Normal ELSE p.value
      /\ job' = [grants |-> jg, policy |-> jp]
  BY <1>2
<1>5. /\ credential' = "record" /\ running' = TRUE
      /\ UNCHANGED <<writeLock, copies, clock, unix, absent>>
      /\ ~ running
  BY DEF Start
<1>6. /\ IsRecord(g.record) /\ IsRecord(g.legacy) /\ g.fault \in Nat
      /\ \A e \in Domains : KnownIn(g.record, g.legacy, e) = KnownIn(checkpoints, legacy, e)
      /\ g.generation \in Nat \cup {NoState}
      /\ g.value \subseteq Timed
      /\ \A e \in g.value : e.key \notin absent /\ e.monotonic <= clock + MaximumTtl
      /\ g.rejected \in BOOLEAN
      /\ g.rejected => g.value = {}
      /\ ~ g.rejected =>
           /\ g.generation = Generation(g.record["grants"])
           /\ Document(g.value) # {} => /\ files["grants"] = g.record["grants"]
                                        /\ Document(g.value) \subseteq files["grants"].document
  BY GrantsAreOpened
<1>7. /\ IsRecord(p.record) /\ IsRecord(p.legacy) /\ p.fault \in Nat
      /\ \A e \in Domains : KnownIn(p.record, p.legacy, e) = KnownIn(g.record, g.legacy, e)
      /\ p.record["grants"] = g.record["grants"]
      /\ p.generation \in Nat /\ p.value \in Statuses
  BY <1>6, PolicyIsOpened
<1>8. \A d \in Domains : job[d] = NoState /\ writeLock # d
  BY <1>5 DEF DaemonInv, LockInv
<1>9. StateInv /\ {} \in Documents("grants") /\ Normal \in Documents("policy") /\ 1 \in {1, 2}
  BY DEF DaemonInv, Documents, Normal, Statuses
<1>10. /\ jg \in Jobs("grants") \cup {NoState}
       /\ g.rejected => jg # NoState /\ jg.step = "persist" /\ jg.document = {}
       /\ ~ g.rejected => jg = NoState
  <2>1. /\ Job(g.generation, {}, 1) \in Jobs("grants") /\ Job(g.generation, {}, 1) # NoState
        /\ Job(g.generation, {}, 1).step = "persist" /\ Job(g.generation, {}, 1).document = {}
    BY <1>6, <1>9, DomainsAre, JobIsTyped
  <2>2. CASE g.rejected
    BY <2>1, <2>2
  <2>3. CASE ~ g.rejected
    BY <2>3
  <2> QED
    BY <2>2, <2>3
<1>11. /\ jp \in Jobs("policy") \cup {NoState}
       /\ jp # NoState => jp.step = "persist"
  <2>1. /\ Job(p.generation, Normal, 1) \in Jobs("policy")
        /\ Job(p.generation, Normal, 1).step = "persist"
    BY <1>7, <1>9, DomainsAre, JobIsTyped, SMTT(30)
  <2>2. CASE OverrideExpired(p.value)
    BY <2>1, <2>2
  <2>3. CASE ~ OverrideExpired(p.value)
    BY <2>3
  <2> QED
    BY <2>2, <2>3
<1> HIDE DEF jg, jp
<1>12. IsJobs(job') /\ job'["grants"] = jg /\ job'["policy"] = jp
  <2>1. /\ jg \in Jobs("grants") \cup Jobs("policy") \cup {NoState}
        /\ jp \in Jobs("grants") \cup Jobs("policy") \cup {NoState}
    BY <1>10, <1>11
  <2>2. /\ job' \in [Domains -> Jobs("grants") \cup Jobs("policy") \cup {NoState}]
        /\ job'["grants"] = jg /\ job'["policy"] = jp
    BY <1>4, <2>1, PairIsFunction
  <2> QED
    BY <1>10, <1>11, <2>2 DEF IsJobs, Domains
<1>13. generations' \in [Domains -> Nat \cup {NoState}] /\ generations'["grants"] = g.generation
  <2>1. p.generation \in Nat \cup {NoState}
    BY <1>7
  <2> QED
    BY <1>4, <1>6, <2>1, PairIsFunction
<1>14. IsRecord(files') /\ (~ g.rejected => files' = files)
  <2>1. IsRecord(files)
    BY DEF DaemonInv, StateInv
  <2>2. IsRecord(Quarantined)
    <3>1. "grants" \in Domains /\ NoState \in StateEnvelopes("grants")
      BY DomainsAre DEF StateEnvelopes
    <3> QED
      BY <2>1, <3>1, SetRecord DEF Quarantined
  <2> QED
    BY <1>3, <2>1, <2>2
<1>15. StateInv'
  <2>1. status' \in Statuses
    BY <1>4, <1>7 DEF Normal, Statuses
  <2>2. entries' \subseteq Timed \cup UntilLock /\ degraded' \in BOOLEAN
    BY <1>4, <1>6
  <2>3. IsRecord(checkpoints') /\ IsRecord(legacy')
    BY <1>4, <1>7
  <2> QED
    BY <1>5, <1>12, <1>13, <1>14, <2>1, <2>2, <2>3 DEF DaemonInv, StateInv
<1>16. ClockInv'
  <2>1. faults \in Int /\ 0 <= faults /\ MaxStateFaults \in Nat
    BY DaemonStateAssumption, SMTT(30) DEF DaemonInv, ClockInv
  <2>2. /\ faults' = faults + (g.fault + p.fault + stuck)
        /\ faults + (g.fault + p.fault + stuck) <= MaxStateFaults
    BY <1>3 DEF Fails
  <2>3. /\ faults + (g.fault + p.fault + stuck) \in 0 .. MaxStateFaults
        /\ faults <= faults + (g.fault + p.fault + stuck)
    BY <1>3, <1>6, <1>7, <2>1, <2>2, FaultsGrow
  <2>4. faults' \in 0 .. MaxStateFaults /\ faults <= faults'
    BY <2>2, <2>3
  <2> QED
    BY <1>5, <2>4, ClockStays DEF DaemonInv
<1>17. LockInv' /\ JobInv'
  <2>1. \A d \in Domains : job'[d] # NoState => job'[d].step = "persist"
    BY <1>10, <1>11, <1>12, <1>6 DEF Domains
  <2>2. \A d \in Domains : writeLock' # d
    BY <1>5, <1>8
  <2> QED
    BY <1>5, <2>1, <2>2 DEF LockInv, JobInv
<1>18. \A d \in Domains : KnownIn(checkpoints', legacy', d) = KnownIn(checkpoints, legacy, d)
  BY <1>4, <1>6, <1>7
<1>19. SaveInv'
  <2>1. CASE g.rejected
    <3>1. Document(entries') = {}
      BY <1>4, <1>6, <2>1 DEF Document
    <3> QED
      BY <1>10, <1>12, <2>1, <3>1 DEF SaveInv
  <2>2. CASE ~ g.rejected
    BY <1>10, <1>12, <2>2 DEF SaveInv
  <2> QED
    BY <2>1, <2>2
<1>20. AbsentInv'
  BY <1>5, <1>18, DomainsAre DEF DaemonInv, AbsentInv
<1>21. RemovedStaysRemoved' /\ LifetimeIsBounded'
  BY <1>4, <1>5, <1>6 DEF RemovedStaysRemoved, LifetimeIsBounded
<1>22. GrantsAreDurable'
  <2>1. CASE g.rejected
    BY <1>4, <2>1 DEF GrantsAreDurable
  <2>2. CASE ~ g.rejected
    <3>1. /\ generations'["grants"] = Generation(checkpoints'["grants"])
          /\ Document(entries') # {} => /\ files'["grants"] = checkpoints'["grants"]
                                        /\ Document(entries') \subseteq files'["grants"].document
      BY <1>4, <1>6, <1>7, <1>13, <1>14, <2>2
    <3> QED
      BY <3>1 DEF GrantsAreDurable
  <2> QED
    BY <2>1, <2>2
<1>23. NeverFalls
  <2>1. ASSUME NEW e \in Domains PROVE Known(e)' >= Known(e)
    <3>1. Generation(KnownIn(checkpoints, legacy, e)) \in Nat
      BY KnownIsTyped DEF DaemonInv, StateInv
    <3>2. KnownIn(checkpoints', legacy', e) = KnownIn(checkpoints, legacy, e)
      BY <1>18
    <3> QED
      BY <3>1, <3>2, SMTT(30) DEF Known, KnownIn
  <2> QED
    BY <2>1 DEF NeverFalls
<1> QED
  BY <1>15, <1>16, <1>17, <1>19, <1>20, <1>21, <1>22, <1>23 DEF DaemonInv

---------------------------------------------------------------------------
(* Crashes, restored files and the clocks. *)
LEMMA KnownStays ==
  ASSUME DaemonInv, UNCHANGED <<checkpoints, legacy>>
  PROVE  NeverFalls
<1>1. ASSUME NEW e \in Domains PROVE Known(e)' >= Known(e)
  <2>1. Generation(KnownIn(checkpoints, legacy, e)) \in Nat
    BY KnownIsTyped DEF DaemonInv, StateInv
  <2> QED
    BY <2>1, SMTT(30) DEF Known, KnownIn
<1> QED
  BY <1>1 DEF NeverFalls

(* What is in memory and in the Keychain does not change. *)
LEMMA MemoryStays ==
  ASSUME DaemonInv, StateInv', ClockInv', clock <= clock',
         UNCHANGED <<checkpoints, legacy, writeLock, running, entries, generations, degraded, job, absent>>,
         UNCHANGED files \/ ~ running
  PROVE  DaemonInv' /\ NeverFalls
<1>1. LockInv' /\ JobInv' /\ AbsentInv' /\ RemovedStaysRemoved'
  BY DEF DaemonInv, LockInv, JobInv, AbsentInv, RemovedStaysRemoved
<1>2. LifetimeIsBounded'
  <2> SUFFICES ASSUME NEW e \in entries, e.scope = "timed" PROVE e.monotonic <= clock' + MaximumTtl
    BY DEF LifetimeIsBounded
  <2>1. e.monotonic <= clock + MaximumTtl
    BY DEF DaemonInv, LifetimeIsBounded
  <2>2. MaxClock \in Nat /\ MaximumTtl \in Int /\ MaxStateFaults \in Int
    BY DaemonStateAssumption, SMTT(30)
  <2>3. clock \in Int /\ clock' \in Int
    BY <2>2, SMTT(30) DEF DaemonInv, ClockInv
  <2>4. e \in Timed
    BY DEF DaemonInv, StateInv, UntilLock
  <2>5. e.monotonic \in Int
    BY <2>2, <2>4, SMTT(30) DEF Timed, Times
  <2> QED
    BY <2>1, <2>2, <2>3, <2>5, SMTT(30)
<1>3. SaveInv' /\ GrantsAreDurable'
  <2>1. CASE files' = files
    BY <2>1 DEF DaemonInv, SaveInv, GrantsAreDurable
  <2>2. CASE ~ running
    <3>1. job["grants"] = NoState
      BY <2>2, DomainsAre DEF DaemonInv, LockInv
    <3> QED
      BY <2>2, <3>1 DEF SaveInv, GrantsAreDurable
  <2> QED
    BY <2>1, <2>2
<1> QED
  BY <1>1, <1>2, <1>3, KnownStays DEF DaemonInv

LEMMA FaultIsCounted ==
  ASSUME ClockInv, Fails(1), UNCHANGED clock, unix' \in {unix, unix - 1}
  PROVE  ClockInv' /\ clock <= clock'
<1>1. MaxClock \in Nat /\ MaxStateFaults \in Nat
  BY DaemonStateAssumption
<1>2. /\ faults' = faults + 1 /\ faults' <= MaxStateFaults /\ faults \in Int /\ 0 <= faults
      /\ clock \in Int /\ unix \in Int /\ 0 - faults <= unix /\ unix <= clock
  BY <1>1, SMTT(30) DEF Fails, ClockInv
<1>3. unix' \in Int /\ unix' <= clock
  BY <1>2, SMTT(30)
<1>4. 0 - (faults + 1) <= unix'
  <2>1. ASSUME NEW f \in Int, NEW u \in Int, 0 - f <= u
        PROVE  0 - (f + 1) <= u /\ 0 - (f + 1) <= u - 1
    BY <2>1, SMTT(30)
  <2> QED
    BY <1>2, <2>1
<1>5. faults' \in 0 .. MaxStateFaults
  BY <1>1, <1>2, SMTT(30)
<1> QED
  BY <1>2, <1>3, <1>4, <1>5, SMTT(30) DEF ClockInv

LEMMA OutsideKeeps ==
  ASSUME DaemonInv,
         StartFails \/ (\E d \in Domains : RestoreFile(d)) \/ Tick \/ SetClock \/ UNCHANGED daemonVars
  PROVE  DaemonInv' /\ NeverFalls
<1>1. CASE StartFails
  <2>1. /\ Fails(1) /\ credential' \in {credential, "record"}
        /\ UNCHANGED <<checkpoints, legacy, writeLock, files, copies, running, entries, generations,
                       degraded, status, job, clock, unix, absent>>
    BY <1>1 DEF StartFails, memory
  <2>2. StateInv'
    BY <2>1 DEF DaemonInv, StateInv
  <2>3. ClockInv' /\ clock <= clock'
    BY <2>1, FaultIsCounted DEF DaemonInv
  <2> QED
    BY <2>1, <2>2, <2>3, MemoryStays
<1>2. ASSUME NEW d \in Domains, RestoreFile(d) PROVE DaemonInv' /\ NeverFalls
  <2>1. /\ Fails(1) /\ ~ running
        /\ UNCHANGED <<credential, checkpoints, legacy, writeLock, copies, running, entries, generations,
                       degraded, status, job, clock, unix, absent>>
    BY <1>2 DEF RestoreFile, memory, keychain
  <2>2. PICK f \in copies[d] \cup {NoState} : files' = [files EXCEPT ![d] = f]
    BY <1>2 DEF RestoreFile
  <2>3. f \in StateEnvelopes(d) /\ IsRecord(files)
    BY DEF DaemonInv, StateInv, IsCopies, StateEnvelopes
  <2>4. IsRecord(files')
    BY <2>2, <2>3, SetRecord
  <2>5. StateInv'
    BY <2>1, <2>4 DEF DaemonInv, StateInv
  <2>6. ClockInv' /\ clock <= clock'
    BY <2>1, FaultIsCounted DEF DaemonInv
  <2> QED
    BY <2>1, <2>5, <2>6, MemoryStays
<1>3. CASE Tick
  <2>1. /\ clock < MaxClock /\ clock' = clock + 1 /\ unix' = unix + 1 /\ faults' = faults
        /\ UNCHANGED <<credential, checkpoints, legacy, writeLock, files, copies, running, entries,
                       generations, degraded, status, job, absent>>
    BY <1>3 DEF Tick, memory, keychain, budget
  <2>2. StateInv'
    BY <2>1 DEF DaemonInv, StateInv
  <2>3. /\ MaxClock \in Nat /\ clock \in Int /\ unix \in Int /\ faults \in Int /\ 0 <= clock
        /\ 0 - faults <= unix /\ unix <= clock /\ faults \in 0 .. MaxStateFaults
    BY DaemonStateAssumption, SMTT(30) DEF DaemonInv, ClockInv
  <2>4. 0 - faults <= unix + 1 /\ unix + 1 <= clock + 1 /\ clock <= clock + 1
        /\ clock + 1 \in 0 .. MaxClock /\ unix + 1 \in Int
    <3>1. ASSUME NEW f \in Int, NEW u \in Int, 0 - f <= u PROVE 0 - f <= u + 1
      BY <3>1, SMTT(30)
    <3>2. 0 - faults <= unix + 1
      BY <2>3, <3>1
    <3> QED
      BY <2>1, <2>3, <3>2, SMTT(30)
  <2>5. ClockInv' /\ clock <= clock'
    BY <2>1, <2>3, <2>4 DEF ClockInv
  <2> QED
    BY <2>1, <2>2, <2>5, MemoryStays
<1>4. CASE SetClock
  <2>1. /\ Fails(1) /\ unix' = unix - 1 /\ clock' = clock
        /\ UNCHANGED <<credential, checkpoints, legacy, writeLock, files, copies, running, entries,
                       generations, degraded, status, job, absent>>
    BY <1>4 DEF SetClock, memory, keychain
  <2>2. StateInv'
    BY <2>1 DEF DaemonInv, StateInv
  <2>3. ClockInv' /\ clock <= clock'
    BY <2>1, FaultIsCounted DEF DaemonInv
  <2> QED
    BY <2>1, <2>2, <2>3, MemoryStays
<1>5. CASE UNCHANGED daemonVars
  <2>1. UNCHANGED <<credential, checkpoints, legacy, writeLock, files, copies, running, entries,
                    generations, degraded, status, job, clock, unix, absent, faults>>
    BY <1>5 DEF daemonVars, memory, keychain, budget
  <2>2. StateInv' /\ ClockInv'
    BY <2>1 DEF DaemonInv, StateInv, ClockInv
  <2>3. clock <= clock'
    BY <2>1, DaemonStateAssumption, SMTT(30) DEF DaemonInv, ClockInv
  <2> QED
    BY <2>1, <2>2, <2>3, MemoryStays
<1> QED
  BY <1>1, <1>2, <1>3, <1>4, <1>5

LEMMA CrashKeeps ==
  ASSUME DaemonInv, Crash
  PROVE  DaemonInv' /\ NeverFalls
<1>1. /\ Fails(1) /\ running' = FALSE /\ entries' = {} /\ degraded' = FALSE /\ status' = Normal
      /\ generations' = [d \in Domains |-> 0]
      /\ job' = [d \in Domains |-> NoState]
      /\ writeLock' = NoState
      /\ UNCHANGED <<credential, checkpoints, legacy, files, copies, clock, unix, absent>>
  BY DEF Crash
<1>2. \A d \in Domains : job'[d] = NoState /\ writeLock' # d
  BY <1>1, NoStateIsNone
<1>3. StateInv'
  <2>1. IsJobs(job')
    BY <1>1 DEF IsJobs
  <2>2. generations' \in [Domains -> Nat \cup {NoState}] /\ status' \in Statuses
    BY <1>1 DEF Normal, Statuses
  <2> QED
    BY <1>1, <2>1, <2>2 DEF DaemonInv, StateInv
<1>4. ClockInv'
  BY <1>1, FaultIsCounted DEF DaemonInv
<1>5. LockInv' /\ JobInv' /\ SaveInv'
  BY <1>2, DomainsAre DEF LockInv, JobInv, SaveInv
<1>6. AbsentInv' /\ RemovedStaysRemoved' /\ GrantsAreDurable' /\ LifetimeIsBounded'
  BY <1>1 DEF DaemonInv, AbsentInv, RemovedStaysRemoved, GrantsAreDurable, LifetimeIsBounded
<1>7. NeverFalls
  BY <1>1, KnownStays
<1> QED
  BY <1>3, <1>4, <1>5, <1>6, <1>7 DEF DaemonInv

LEMMA PolicyStepKeeps ==
  ASSUME DaemonInv,
         \/ SetPolicyMode("normal", NoState)
         \/ \E expires \in {NoState, unix + 1} : SetPolicyMode("audit_only", expires)
         \/ ModeStatus
  PROVE  DaemonInv' /\ NeverFalls
<1>1. unix + 1 \in Times
  <2>1. /\ MaximumTtl \in Nat /\ MaxClock \in Nat /\ MaxStateFaults \in Nat /\ 1 <= MaximumTtl
        /\ clock \in Int /\ unix \in Int /\ faults \in Int
        /\ 0 <= clock /\ clock <= MaxClock /\ faults <= MaxStateFaults
        /\ 0 - faults <= unix /\ unix <= clock
    BY DaemonStateAssumption, SMTT(30) DEF DaemonInv, ClockInv
  <2>2. 1 \in Int /\ 1 <= 1
    BY SMTT(30)
  <2> QED
    BY <2>1, <2>2, TimesArithmetic DEF Times
<1>2. Normal \in Statuses /\ status \in Statuses
  BY DEF Normal, Statuses, DaemonInv, StateInv
<1>3. ASSUME NEW mode \in {"normal", "audit_only"}, NEW expires \in {NoState, unix + 1},
             SetPolicyMode(mode, expires)
      PROVE  DaemonInv' /\ NeverFalls
  <2> DEFINE document == [mode |-> mode, expires |-> expires]
  <2>1. document \in Statuses
    BY <1>1 DEF Statuses
  <2>2. Mutation("policy") /\ Persist("policy", document) /\ status' = status /\ UNCHANGED policyUnchanged
    BY <1>3 DEF SetPolicyMode
  <2> HIDE DEF document
  <2> QED
    BY <1>2, <2>1, <2>2, PolicyKeeps
<1>4. CASE ModeStatus
  <2>1. Mutation("policy") /\ Persist("policy", Normal) /\ status' = Normal /\ UNCHANGED policyUnchanged
    BY <1>4 DEF ModeStatus
  <2> QED
    BY <1>2, <2>1, PolicyKeeps
<1> QED
  BY <1>3, <1>4

LEMMA GrantStepKeeps ==
  ASSUME DaemonInv,
         \/ \E k \in Keys : (\E allowed \in BOOLEAN : Insert(k, allowed)) \/ Decision(k) \/ Revoke(k)
         \/ Active \/ ClearLockBound \/ Clear
  PROVE  DaemonInv' /\ NeverFalls
<1>1. ASSUME NEW k \in Keys, NEW allowed \in BOOLEAN, Insert(k, allowed) PROVE DaemonInv' /\ NeverFalls
  BY <1>1, InsertKeeps
<1>2. ASSUME NEW k \in Keys, Decision(k) \/ Revoke(k) PROVE DaemonInv' /\ NeverFalls
  <2>1. Mutation("grants") /\ SaveEntries({e \in entries : e.key # k}) /\ absent' = absent
    BY <1>2 DEF Decision, Revoke
  <2> QED
    BY <2>1, RemovalKeeps
<1>3. CASE Active
  <2>1. Mutation("grants") /\ SaveEntries({e \in entries : ~EntryExpired(e)}) /\ absent' = absent
    BY <1>3 DEF Active
  <2> QED
    BY <2>1, RemovalKeeps
<1>4. CASE ClearLockBound
  <2>1. Mutation("grants") /\ SaveEntries({e \in entries : e.scope # "until_lock"}) /\ absent' = absent
    BY <1>4 DEF ClearLockBound
  <2> QED
    BY <2>1, RemovalKeeps
<1>5. CASE Clear
  <2>1. Mutation("grants") /\ SaveEntries({}) /\ absent' = absent
    BY <1>5 DEF Clear
  <2> QED
    BY <2>1, RemovalKeeps
<1> QED
  BY <1>1, <1>2, <1>3, <1>4, <1>5

LEMMA InitiallyInv ==
  ASSUME DaemonInit
  PROVE  DaemonInv
<1>1. PICK old \in SUBSET Domains :
        legacy = [d \in Domains |-> IF d \in old THEN [generation |-> 1, document |-> Empty(d)] ELSE NoState]
  BY DEF DaemonInit
<1>2. /\ credential \in {"none", "raw"} /\ checkpoints = [d \in Domains |-> NoState] /\ files = legacy
      /\ copies = [d \in Domains |-> {legacy[d]} \ {NoState}]
      /\ writeLock = NoState /\ running = FALSE /\ entries = {}
      /\ generations = [d \in Domains |-> 0] /\ degraded = FALSE /\ status = Normal
      /\ job = [d \in Domains |-> NoState] /\ clock = 0 /\ unix = 0 /\ absent = {} /\ faults = 0
  BY DEF DaemonInit
<1>3. ASSUME NEW d \in Domains
      PROVE  /\ [generation |-> 1, document |-> Empty(d)] \in Envelopes(d)
             /\ NoState \in StateEnvelopes(d) /\ Envelopes(d) \subseteq StateEnvelopes(d)
             /\ StateEnvelopes(d) \subseteq StateEnvelopes("grants") \cup StateEnvelopes("policy")
             /\ Envelopes(d) \subseteq Envelopes("grants") \cup Envelopes("policy")
  <2>1. Empty(d) \in Documents(d)
    BY DEF Empty, Documents, Normal, Statuses
  <2> HIDE DEF Empty
  <2>2. [generation |-> 1, document |-> Empty(d)] \in Envelopes(d)
    BY <2>1 DEF Envelopes
  <2> QED
    BY <2>2 DEF StateEnvelopes, Domains
<1>4. \A d \in Domains : legacy[d] \in StateEnvelopes(d)
  BY <1>1, <1>3
<1>5. IsRecord(checkpoints) /\ IsRecord(legacy) /\ IsRecord(files)
  <2>1. IsRecord(checkpoints)
    BY <1>2, <1>3 DEF IsRecord, Records
  <2>2. legacy \in Records
    BY <1>1, <1>3 DEF Records
  <2> QED
    BY <1>2, <1>4, <2>1, <2>2 DEF IsRecord
<1>6. IsCopies(copies)
  <2>1. \A d \in Domains : {legacy[d]} \ {NoState} \subseteq Envelopes(d)
    BY <1>4 DEF StateEnvelopes
  <2> QED
    BY <1>2, <1>3, <2>1 DEF IsCopies
<1>7. \A d \in Domains : job[d] = NoState /\ writeLock # d
  BY <1>2, NoStateIsNone
<1>8. StateInv
  <2>1. IsJobs(job)
    BY <1>2 DEF IsJobs
  <2>2. generations \in [Domains -> Nat \cup {NoState}] /\ status \in Statuses
    BY <1>2 DEF Normal, Statuses
  <2> QED
    BY <1>2, <1>5, <1>6, <2>1, <2>2 DEF StateInv
<1>9. ClockInv
  BY <1>2, DaemonStateAssumption, SMTT(30) DEF ClockInv
<1>10. LockInv /\ JobInv /\ SaveInv
  BY <1>7, DomainsAre DEF LockInv, JobInv, SaveInv
<1>11. AbsentInv /\ RemovedStaysRemoved /\ GrantsAreDurable /\ LifetimeIsBounded
  BY <1>2 DEF AbsentInv, RemovedStaysRemoved, GrantsAreDurable, LifetimeIsBounded
<1> QED
  BY <1>8, <1>9, <1>10, <1>11 DEF DaemonInv

LEMMA StepKeeps ==
  ASSUME DaemonInv, [DaemonNext]_daemonVars
  PROVE  DaemonInv' /\ NeverFalls
<1>1. CASE PersistStep
  BY <1>1, ResolveKeeps, FileKeeps, ReadKeeps, StoreKeeps DEF PersistStep
<1> QED
  BY <1>1, GrantStepKeeps, PolicyStepKeeps, StartKeeps, CrashKeeps, OutsideKeeps DEF DaemonNext

---------------------------------------------------------------------------
(* The invariant holds over saves of both domains that interleave, calls   *)
(* that fail before or after their effect, crashes and restored files.     *)
THEOREM DaemonInvariant == DaemonSpec => []DaemonInv
<1>1. DaemonInit => DaemonInv
  BY InitiallyInv
<1>2. DaemonInv /\ [DaemonNext]_daemonVars => DaemonInv'
  BY StepKeeps
<1> QED
  BY <1>1, <1>2, PTL DEF DaemonSpec

(* A grant that an acknowledged save removed comes back by insert_decision *)
(* only, never by a restart.                                               *)
THEOREM RemovedGrantsStayRemoved == DaemonSpec => []RemovedStaysRemoved
<1>1. DaemonInv => RemovedStaysRemoved
  BY DEF DaemonInv
<1> QED
  BY <1>1, DaemonInvariant, PTL

(* A cache that does not say it is memory-only finds its grants after a    *)
(* restart, and no grant outlives MAXIMUM_TTL.                             *)
THEOREM GrantsLast == DaemonSpec => []GrantsLastTheirTime
<1>1. DaemonInv => GrantsLastTheirTime
  <2> SUFFICES ASSUME DaemonInv PROVE GrantsLastTheirTime
    OBVIOUS
  <2>1. ASSUME NEW d \in Domains
        PROVE  {checkpoints[d], legacy[d], files[d]} \cup copies[d] \subseteq StateEnvelopes(d)
    BY DEF DaemonInv, StateInv, IsRecord, IsCopies, StateEnvelopes
  <2>2. DaemonTypeOK
    BY <2>1 DEF DaemonInv, StateInv, DaemonTypeOK
  <2> QED
    BY <2>2 DEF DaemonInv, GrantsLastTheirTime
<1> QED
  BY <1>1, DaemonInvariant, PTL

(* No step moves the checkpoint of a domain back: not the migration of an  *)
(* older account, and not the other domain's write of the shared record.   *)
THEOREM CheckpointsNeverFall == DaemonSpec => CheckpointNeverFalls
<1>1. DaemonInv /\ [DaemonNext]_daemonVars => [\A d \in Domains : Known(d)' >= Known(d)]_daemonVars
  BY StepKeeps DEF NeverFalls
<1> QED
  BY <1>1, DaemonInvariant, PTL DEF DaemonSpec, CheckpointNeverFalls
===========================================================================
