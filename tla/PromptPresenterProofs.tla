----------------------- MODULE PromptPresenterProofs -----------------------
(* Proofs about PromptPresenter, for every set of prompts and scopes.       *)
EXTENDS PromptPresenter, FiniteSetTheorems, SequenceTheorems, WellFoundedInduction, TLAPS

(* The leaves are first-order steps; those with arithmetic or records cite SMT. *)
USE ZenonT(60)

(* A queue q, a set a of shown prompts and decisions s hold every prompt   *)
(* once at most.                                                           *)
Distinct(q, a, s) ==
  /\ \A i, j \in 1 .. Len(q) : q[i] = q[j] => i = j
  /\ \A i, j \in 1 .. Len(s) : s[i].msg = s[j].msg => i = j
  /\ \A i \in 1 .. Len(q) : q[i] \notin a /\ \A j \in 1 .. Len(s) : q[i] # s[j].msg
  /\ \A j \in 1 .. Len(s) : s[j].msg \notin a

Held(q, a, s, m) ==
  \/ \E i \in 1 .. Len(q) : q[i] = m
  \/ m \in a
  \/ \E j \in 1 .. Len(s) : s[j].msg = m

(* What is queued came, by the request ids r, in that order, and after     *)
(* what is shown or decided.                                               *)
Ordered(r, q, a, s) ==
  /\ \A i, j \in 1 .. Len(q) : i < j => r[q[i]] < r[q[j]]
  /\ \A i \in 1 .. Len(q) : /\ \A m \in a : r[m] < r[q[i]]
                            /\ \A j \in 1 .. Len(s) : r[s[j].msg] < r[q[i]]

Shown == {m \in Msgs : reqId[m] # 0}

(* Request ids are the numbers of the prompts shown so far. *)
IdInv ==
  /\ IsFiniteSet(Shown)
  /\ \A m \in Msgs : reqId[m] <= Cardinality(Shown)
  /\ \A m, n \in Shown : reqId[m] = reqId[n] => m = n

PlaceInv ==
  /\ Distinct(queue, active, sent)
  /\ \A m \in Msgs : reqId[m] # 0 <=> Held(queue, active, sent, m)

(* A biometric evaluation is outstanding only for what the user allowed. *)
AuthInv == \A a \in auth : a.msg \in chosen /\ reqId[a.msg] # 0

(* AllowIsTheUsers of the decisions s. *)
Allowed(s, c, p) ==
  \A i \in 1 .. Len(s) : s[i].allow => s[i].msg \in c /\ (s[i].msg \in TouchId => s[i].msg \in p)

PresenterInv ==
  /\ PresenterTypeOK
  /\ \A m, n \in active : m = n
  /\ IdInv
  /\ PlaceInv
  /\ Ordered(reqId, queue, active, sent)
  /\ AuthInv
  /\ Allowed(sent, chosen, passed)

---------------------------------------------------------------------------
LEMMA MinIn ==
  ASSUME NEW S, S \subseteq Nat, S # {}
  PROVE  Min(S) \in S
<1> DEFINE R == {ss \in Nat \X Nat : ss[1] < ss[2]}
<1>1. IsWellFoundedOn(R, Nat)
  BY NatLessThanWellFounded DEF OpToRel
<1> HIDE DEF R
<1>2. PICK x \in S : \A y \in S : ~ (<<y, x>> \in R)
  BY <1>1, WFMin
<1>3. \A y \in S : x <= y
  <2> SUFFICES ASSUME NEW y \in S PROVE x <= y
    OBVIOUS
  <2>1. x \in Nat /\ y \in Nat /\ <<y, x>> \notin R
    BY <1>2
  <2>2. ~ (y < x)
    BY <2>1 DEF R
  <2> QED
    BY <2>1, <2>2, SMTT(30)
<1> QED
  BY <1>3 DEF Min

(* presentNextIfNeeded() denies the first k - 1 prompts of the queue q and *)
(* shows the k-th, if there is one; t are the decisions before.            *)
Presents(q, t, k, queueAfter, activeAfter, sentAfter) ==
  /\ activeAfter = {q[i] : i \in {k} \cap DOMAIN q}
  /\ queueAfter = SubSeq(q, k + 1, Len(q))
  /\ sentAfter = t \o [i \in 1 .. k - 1 |-> Deny(q[i])]

LEMMA Presented ==
  ASSUME NEW q \in Seq(Msgs), NEW ds, PresentNext(q, ds)
  PROVE  /\ settling' = FALSE
         /\ \E k \in 1 .. Len(q) + 1 : Presents(q, sent \o ds, k, queue', active', sent')
<1> DEFINE live == {i \in DOMAIN q : q[i] \notin late}
           k == IF live = {} THEN Len(q) + 1 ELSE Min(live)
<1>1. live \subseteq 1 .. Len(q) /\ live \subseteq Nat
  BY SMTT(30)
<1>2. k \in 1 .. Len(q) + 1
  <2>1. CASE live = {}
    BY <2>1, SMTT(30)
  <2>2. CASE live # {}
    <3>1. Min(live) \in live
      BY <1>1, <2>2, MinIn
    <3> QED
      BY <1>1, <2>2, <3>1, SMTT(30)
  <2> QED
    BY <2>1, <2>2
<1>3. Presents(q, sent \o ds, k, queue', active', sent') /\ settling' = FALSE
  BY DEF PresentNext, Presents
<1> HIDE DEF k
<1> QED
  BY <1>2, <1>3

(* Where every prompt of q and every decision of t is afterwards. *)
LEMMA Places ==
  ASSUME NEW q \in Seq(Msgs), NEW t \in Seq(Verdicts), NEW k \in 1 .. Len(q) + 1,
         NEW Q, NEW A, NEW S, Presents(q, t, k, Q, A, S)
  PROVE  /\ Q \in Seq(Msgs) /\ S \in Seq(Verdicts)
         /\ A = IF k <= Len(q) THEN {q[k]} ELSE {}
         /\ Len(Q) = IF k <= Len(q) THEN Len(q) - k ELSE 0
         /\ \A i \in 1 .. Len(Q) : Q[i] = q[k + i]
         /\ Len(S) = Len(t) + (k - 1)
         /\ \A i \in 1 .. Len(t) : S[i] = t[i]
         /\ \A i \in 1 .. k - 1 : S[Len(t) + i] = Deny(q[i])
<1> DEFINE ss == [i \in 1 .. k - 1 |-> Deny(q[i])]
<1>1. Len(t) \in Nat /\ Len(q) \in Nat /\ k \in Nat /\ k - 1 \in Nat
  BY SMTT(30)
<1>2. ss \in Seq(Verdicts) /\ Len(ss) = k - 1 /\ \A i \in 1 .. k - 1 : ss[i] = Deny(q[i])
  <2>1. \A i \in 1 .. k - 1 : Deny(q[i]) \in Verdicts
    BY <1>1, SMTT(30) DEF Deny, Verdicts, NoScope
  <2>2. ss \in [1 .. k - 1 -> Verdicts]
    BY <2>1
  <2>3. ss \in Seq(Verdicts)
    BY <1>1, <2>2, SeqDef, SMTT(30)
  <2>4. Len(ss) = k - 1
    BY <1>1, <2>2, <2>3, LenProperties, SMTT(30)
  <2> QED
    BY <2>3, <2>4
<1>3. S = t \o ss /\ Q = SubSeq(q, k + 1, Len(q)) /\ A = {q[i] : i \in {k} \cap DOMAIN q}
  BY DEF Presents
<1> HIDE DEF ss
<1>4. /\ S \in Seq(Verdicts) /\ Len(S) = Len(t) + Len(ss)
      /\ \A i \in 1 .. Len(t) + Len(ss) : S[i] = IF i <= Len(t) THEN t[i] ELSE ss[i - Len(t)]
  BY <1>2, <1>3, ConcatProperties
<1>5. ASSUME NEW i \in 1 .. Len(t) PROVE S[i] = t[i]
  <2>1. i \in 1 .. Len(t) + Len(ss) /\ i <= Len(t)
    BY <1>1, <1>2, SMTT(30)
  <2> QED
    BY <1>4, <2>1
<1>6. ASSUME NEW i \in 1 .. k - 1 PROVE S[Len(t) + i] = Deny(q[i])
  <2>1. Len(t) + i \in 1 .. Len(t) + Len(ss) /\ ~ (Len(t) + i <= Len(t)) /\ (Len(t) + i) - Len(t) = i
    BY <1>1, <1>2, SMTT(30)
  <2>2. S[Len(t) + i] = ss[i]
    BY <1>4, <2>1
  <2> QED
    BY <1>2, <2>2
<1>7. \A i \in k + 1 .. Len(q) : q[i] \in Msgs
  BY <1>1, SMTT(30)
<1>8. /\ Q \in Seq(Msgs)
      /\ Len(Q) = IF k + 1 <= Len(q) THEN Len(q) - (k + 1) + 1 ELSE 0
      /\ \A i \in 1 .. Len(q) - (k + 1) + 1 : Q[i] = q[k + 1 + i - 1]
  <2>1. k + 1 \in Int /\ Len(q) \in Int
    BY <1>1, SMTT(30)
  <2> QED
    BY <1>3, <1>7, <2>1, SubSeqProperties, SMTT(30)
<1>9. Len(Q) = IF k <= Len(q) THEN Len(q) - k ELSE 0
  BY <1>1, <1>8, SMTT(30)
<1>10. ASSUME NEW i \in 1 .. Len(Q) PROVE Q[i] = q[k + i]
  <2>1. i \in 1 .. Len(q) - (k + 1) + 1 /\ k + 1 + i - 1 = k + i
    BY <1>1, <1>9, SMTT(30)
  <2> QED
    BY <1>8, <2>1
<1>11. A = IF k <= Len(q) THEN {q[k]} ELSE {}
  BY <1>1, <1>3, SMTT(30)
<1> QED
  BY <1>2, <1>4, <1>5, <1>6, <1>8, <1>9, <1>10, <1>11

(* What was in one place each, and in order, still is. *)
LEMMA PresentsKeeps ==
  ASSUME NEW q \in Seq(Msgs), NEW t \in Seq(Verdicts), NEW k \in 1 .. Len(q) + 1,
         NEW Q, NEW A, NEW S, Presents(q, t, k, Q, A, S), Distinct(q, {}, t)
  PROVE  /\ Distinct(Q, A, S)
         /\ \A m : Held(Q, A, S, m) <=> Held(q, {}, t, m)
         /\ \A r : Ordered(r, q, {}, t) => Ordered(r, Q, A, S)
         /\ \A c, p : Allowed(t, c, p) => Allowed(S, c, p)
<1>1. /\ Q \in Seq(Msgs) /\ S \in Seq(Verdicts)
      /\ A = IF k <= Len(q) THEN {q[k]} ELSE {}
      /\ Len(Q) = IF k <= Len(q) THEN Len(q) - k ELSE 0
      /\ \A i \in 1 .. Len(Q) : Q[i] = q[k + i]
      /\ Len(S) = Len(t) + (k - 1)
      /\ \A i \in 1 .. Len(t) : S[i] = t[i]
      /\ \A i \in 1 .. k - 1 : S[Len(t) + i] = Deny(q[i])
  BY Places, SMTT(30)
<1>2. /\ Len(t) \in Nat /\ Len(q) \in Nat /\ k \in Nat
      /\ Len(S) \in Nat /\ Len(Q) \in Nat
  BY <1>1, SMTT(30)
<1>3. /\ \A i, j \in 1 .. Len(q) : q[i] = q[j] => i = j
      /\ \A i, j \in 1 .. Len(t) : t[i].msg = t[j].msg => i = j
      /\ \A i \in 1 .. Len(q) : \A j \in 1 .. Len(t) : q[i] # t[j].msg
  BY DEF Distinct
<1>4. ASSUME NEW i \in 1 .. Len(Q)
      PROVE  k + i \in 1 .. Len(q) /\ k \in 1 .. Len(q) /\ k < k + i /\ Q[i] = q[k + i]
  BY <1>1, <1>2, SMTT(30)
<1>5. ASSUME NEW m \in A PROVE k \in 1 .. Len(q) /\ m = q[k]
  BY <1>1, <1>2, SMTT(30)
(* A decision is an earlier one or denies one of the first prompts. *)
<1>6. ASSUME NEW j \in 1 .. Len(S), ~ (j <= Len(t))
      PROVE  /\ j - Len(t) \in 1 .. Len(q) /\ j - Len(t) < k
             /\ S[j].msg = q[j - Len(t)] /\ S[j].allow = FALSE
  <2>1. j - Len(t) \in 1 .. k - 1 /\ j = Len(t) + (j - Len(t))
    BY <1>1, <1>2, <1>6, SMTT(30)
  <2>2. S[j] = Deny(q[j - Len(t)])
    BY <1>1, <2>1
  <2>3. j - Len(t) \in 1 .. Len(q) /\ j - Len(t) < k
    BY <1>2, <2>1, SMTT(30)
  <2> QED
    BY <2>2, <2>3, SMTT(30) DEF Deny
<1>7. ASSUME NEW j \in 1 .. Len(S), j <= Len(t) PROVE j \in 1 .. Len(t) /\ S[j] = t[j]
  BY <1>1, <1>2, <1>7, SMTT(30)
<1>8. Distinct(Q, A, S)
  <2>1. ASSUME NEW i \in 1 .. Len(Q), NEW j \in 1 .. Len(Q), Q[i] = Q[j] PROVE i = j
    <3>1. k + i = k + j
      BY <1>3, <1>4, <2>1
    <3> QED
      BY <1>2, <3>1, SMTT(30)
  <2>2. ASSUME NEW i \in 1 .. Len(S), NEW j \in 1 .. Len(S), S[i].msg = S[j].msg PROVE i = j
    <3>1. CASE i <= Len(t) /\ j <= Len(t)
      BY <1>3, <1>7, <2>2, <3>1
    <3>2. CASE ~ (i <= Len(t)) /\ j <= Len(t)
      <4>1. i - Len(t) \in 1 .. Len(q) /\ S[i].msg = q[i - Len(t)]
        BY <1>6, <3>2
      <4>2. j \in 1 .. Len(t) /\ S[j].msg = t[j].msg
        BY <1>7, <3>2
      <4> QED
        BY <1>3, <2>2, <4>1, <4>2
    <3>3. CASE i <= Len(t) /\ ~ (j <= Len(t))
      <4>1. j - Len(t) \in 1 .. Len(q) /\ S[j].msg = q[j - Len(t)]
        BY <1>6, <3>3
      <4>2. i \in 1 .. Len(t) /\ S[i].msg = t[i].msg
        BY <1>7, <3>3
      <4> QED
        BY <1>3, <2>2, <4>1, <4>2
    <3>4. CASE ~ (i <= Len(t)) /\ ~ (j <= Len(t))
      <4>1. i - Len(t) = j - Len(t)
        BY <1>3, <1>6, <2>2, <3>4
      <4> QED
        BY <1>2, <4>1, SMTT(30)
    <3> QED
      BY <3>1, <3>2, <3>3, <3>4
  <2>3. ASSUME NEW i \in 1 .. Len(Q), NEW j \in 1 .. Len(S) PROVE Q[i] # S[j].msg
    <3>1. CASE j <= Len(t)
      <4>1. k + i \in 1 .. Len(q) /\ Q[i] = q[k + i] /\ j \in 1 .. Len(t) /\ S[j].msg = t[j].msg
        BY <1>4, <1>7, <3>1
      <4> QED
        BY <1>3, <4>1
    <3>2. CASE ~ (j <= Len(t))
      <4>1. /\ k + i \in 1 .. Len(q) /\ Q[i] = q[k + i]
            /\ j - Len(t) \in 1 .. Len(q) /\ S[j].msg = q[j - Len(t)] /\ j - Len(t) < k
        BY <1>4, <1>6, <3>2
      <4>2. k + i # j - Len(t)
        BY <1>2, <4>1, SMTT(30)
      <4> QED
        BY <1>3, <4>1, <4>2
    <3> QED
      BY <3>1, <3>2
  <2>4. ASSUME NEW i \in 1 .. Len(Q) PROVE Q[i] \notin A
    <3>1. k # k + i
      BY <1>4, SMTT(30)
    <3> QED
      BY <1>3, <1>4, <1>5, <3>1, SMTT(30)
  <2>5. ASSUME NEW j \in 1 .. Len(S) PROVE S[j].msg \notin A
    <3>1. CASE j <= Len(t)
      BY <1>3, <1>5, <1>7, <3>1, SMTT(30)
    <3>2. CASE ~ (j <= Len(t))
      <4>1. /\ j - Len(t) \in 1 .. Len(q) /\ S[j].msg = q[j - Len(t)]
            /\ j - Len(t) < k
        BY <1>6, <3>2
      <4>2. j - Len(t) # k
        BY <1>2, <4>1, SMTT(30)
      <4> QED
        BY <1>3, <1>5, <4>1, <4>2
    <3> QED
      BY <3>1, <3>2
  <2> QED
    BY <2>1, <2>2, <2>3, <2>4, <2>5 DEF Distinct
<1>9. ASSUME NEW m PROVE Held(Q, A, S, m) <=> Held(q, {}, t, m)
  <2>1. ASSUME NEW i \in 1 .. Len(Q), Q[i] = m PROVE Held(q, {}, t, m)
    BY <1>4, <2>1 DEF Held
  <2>2. ASSUME m \in A PROVE Held(q, {}, t, m)
    BY <1>5, <2>2 DEF Held
  <2>3. ASSUME NEW j \in 1 .. Len(S), S[j].msg = m PROVE Held(q, {}, t, m)
    BY <1>6, <1>7, <2>3 DEF Held
  <2>4. ASSUME NEW i \in 1 .. Len(q), q[i] = m PROVE Held(Q, A, S, m)
    <3>1. CASE i < k
      <4>1. i \in 1 .. k - 1 /\ Len(t) + i \in 1 .. Len(S)
        BY <1>1, <1>2, <3>1, SMTT(30)
      <4>2. S[Len(t) + i] = Deny(q[i])
        BY <1>1, <4>1
      <4>3. S[Len(t) + i].msg = m
        BY <2>4, <4>2, SMTT(30) DEF Deny
      <4> QED
        BY <4>1, <4>3 DEF Held
    <3>2. CASE i = k
      BY <1>1, <1>2, <2>4, <3>2, SMTT(30) DEF Held
    <3>3. CASE i > k
      <4>1. i - k \in 1 .. Len(Q) /\ i = k + (i - k)
        BY <1>1, <1>2, <3>3, SMTT(30)
      <4>2. Q[i - k] = m
        BY <1>1, <2>4, <4>1
      <4> QED
        BY <4>1, <4>2 DEF Held
    <3> QED
      BY <1>2, <3>1, <3>2, <3>3, SMTT(30)
  <2>5. ASSUME NEW j \in 1 .. Len(t), t[j].msg = m PROVE Held(Q, A, S, m)
    <3>1. j \in 1 .. Len(S) /\ S[j].msg = m
      BY <1>1, <1>2, <2>5, SMTT(30)
    <3> QED
      BY <3>1 DEF Held
  <2> QED
    BY <2>1, <2>2, <2>3, <2>4, <2>5 DEF Held
<1>10. ASSUME NEW r, Ordered(r, q, {}, t) PROVE Ordered(r, Q, A, S)
  <2>1. /\ \A i, j \in 1 .. Len(q) : i < j => r[q[i]] < r[q[j]]
        /\ \A i \in 1 .. Len(q) : \A j \in 1 .. Len(t) : r[t[j].msg] < r[q[i]]
    BY <1>10 DEF Ordered
  <2>2. ASSUME NEW i \in 1 .. Len(Q), NEW j \in 1 .. Len(Q), i < j PROVE r[Q[i]] < r[Q[j]]
    <3>1. k + i < k + j
      BY <1>2, <2>2, SMTT(30)
    <3> QED
      BY <1>4, <2>1, <3>1
  <2>3. ASSUME NEW i \in 1 .. Len(Q), NEW m \in A PROVE r[m] < r[Q[i]]
    BY <1>4, <1>5, <2>1
  <2>4. ASSUME NEW i \in 1 .. Len(Q), NEW j \in 1 .. Len(S) PROVE r[S[j].msg] < r[Q[i]]
    <3>1. CASE j <= Len(t)
      BY <1>4, <1>7, <2>1, <3>1
    <3>2. CASE ~ (j <= Len(t))
      <4>1. /\ k + i \in 1 .. Len(q) /\ Q[i] = q[k + i]
            /\ j - Len(t) \in 1 .. Len(q) /\ S[j].msg = q[j - Len(t)] /\ j - Len(t) < k
        BY <1>4, <1>6, <3>2
      <4>2. j - Len(t) < k + i
        BY <1>2, <4>1, SMTT(30)
      <4> QED
        BY <2>1, <4>1, <4>2
    <3> QED
      BY <3>1, <3>2
  <2> QED
    BY <2>2, <2>3, <2>4 DEF Ordered
<1>11. ASSUME NEW c, NEW p, Allowed(t, c, p) PROVE Allowed(S, c, p)
  <2> SUFFICES ASSUME NEW j \in 1 .. Len(S), S[j].allow
               PROVE  S[j].msg \in c /\ (S[j].msg \in TouchId => S[j].msg \in p)
    BY DEF Allowed
  <2>1. j <= Len(t)
    BY <1>6
  <2> QED
    BY <1>7, <1>11, <2>1 DEF Allowed
<1> QED
  BY <1>8, <1>9, <1>10, <1>11

(* presentNextIfNeeded() in a step that changes reqId, chosen and passed   *)
(* as given: the queue q and the decisions t before it are in order.       *)
LEMMA PresentNextKeeps ==
  ASSUME NEW q \in Seq(Msgs), NEW ds, NEW t \in Seq(Verdicts), t = sent \o ds, PresentNext(q, ds),
         Distinct(q, {}, t), Ordered(reqId', q, {}, t), Allowed(t, chosen', passed')
  PROVE  /\ queue' \in Seq(Msgs) /\ sent' \in Seq(Verdicts) /\ settling' = FALSE
         /\ active' \in SUBSET Msgs /\ Cardinality(active') <= 1
         /\ \A m, n \in active' : m = n
         /\ Distinct(queue', active', sent')
         /\ \A m : Held(queue', active', sent', m) <=> Held(q, {}, t, m)
         /\ Ordered(reqId', queue', active', sent')
         /\ Allowed(sent', chosen', passed')
<1>1. settling' = FALSE
  BY Presented
<1>2. PICK k \in 1 .. Len(q) + 1 : Presents(q, t, k, queue', active', sent')
  BY Presented
<1>3. /\ Distinct(queue', active', sent')
      /\ \A m : Held(queue', active', sent', m) <=> Held(q, {}, t, m)
      /\ Ordered(reqId', queue', active', sent')
      /\ Allowed(sent', chosen', passed')
  BY <1>2, PresentsKeeps
<1>4. /\ queue' \in Seq(Msgs) /\ sent' \in Seq(Verdicts)
      /\ active' = IF k <= Len(q) THEN {q[k]} ELSE {}
  BY <1>2, Places
<1>5. active' \in SUBSET Msgs /\ Cardinality(active') <= 1 /\ \A m, n \in active' : m = n
  <2>1. CASE k <= Len(q)
    <3>1. active' = {q[k]} /\ q[k] \in Msgs
      BY <1>4, <2>1, SMTT(30)
    <3>2. Cardinality(active') = 1
      BY <3>1, FS_Singleton
    <3> QED
      BY <3>1, <3>2, SMTT(30)
  <2>2. CASE ~ (k <= Len(q))
    <3>1. active' = {} /\ Cardinality(active') = 0
      BY <1>4, <2>2, FS_EmptySet
    <3> QED
      BY <3>1, SMTT(30)
  <2> QED
    BY <2>1, <2>2
<1> QED
  BY <1>1, <1>3, <1>4, <1>5

---------------------------------------------------------------------------
(* complete(): the shown prompt m is decided. *)
LEMMA CompleteKeeps ==
  ASSUME PresenterInv, NEW m \in active, NEW d \in Verdicts, d.msg = m, Complete(d),
         reqId' = reqId, late' = late, auth' \subseteq auth,
         chosen \subseteq chosen', chosen' \subseteq Msgs, passed \subseteq passed',
         passed' \subseteq Msgs,
         d.allow => m \in chosen' /\ (m \in TouchId => m \in passed')
  PROVE  PresenterInv'
<1> DEFINE t == sent \o <<d>>
<1>1. /\ queue \in Seq(Msgs) /\ sent \in Seq(Verdicts) /\ active \subseteq Msgs
      /\ reqId \in [Msgs -> Nat]
      /\ \A n \in active : n = m
  BY DEF PresenterInv, PresenterTypeOK
<1>2. /\ Distinct(queue, active, sent)
      /\ \A n \in Msgs : reqId[n] # 0 <=> Held(queue, active, sent, n)
      /\ Ordered(reqId, queue, active, sent)
      /\ Allowed(sent, chosen, passed)
  BY DEF PresenterInv, PlaceInv
<1>3. /\ t \in Seq(Verdicts) /\ Len(t) = Len(sent) + 1 /\ Len(sent) \in Nat
      /\ t[Len(t)] = d /\ \A i \in 1 .. Len(sent) : t[i] = sent[i]
  BY <1>1, SMTT(30)
<1>4. PresentNext(queue, <<d>>)
  BY DEF Complete
<1> HIDE DEF t
<1>5. ASSUME NEW i \in 1 .. Len(t)
      PROVE  \/ i \in 1 .. Len(sent) /\ t[i] = sent[i]
             \/ i = Len(t) /\ t[i] = d
  BY <1>3, SMTT(30)
<1>6. Distinct(queue, {}, t)
  <2>1. \A i, j \in 1 .. Len(queue) : queue[i] = queue[j] => i = j
    BY <1>2 DEF Distinct
  <2>2. ASSUME NEW i \in 1 .. Len(t), NEW j \in 1 .. Len(t), t[i].msg = t[j].msg PROVE i = j
    <3>1. \A l \in 1 .. Len(sent) : sent[l].msg # m
      BY <1>2 DEF Distinct
    <3>2. \A l, n \in 1 .. Len(sent) : sent[l].msg = sent[n].msg => l = n
      BY <1>2 DEF Distinct
    <3> QED
      BY <1>5, <2>2, <3>1, <3>2
  <2>3. ASSUME NEW i \in 1 .. Len(queue), NEW j \in 1 .. Len(t) PROVE queue[i] # t[j].msg
    <3>1. queue[i] # m /\ \A l \in 1 .. Len(sent) : queue[i] # sent[l].msg
      BY <1>2 DEF Distinct
    <3> QED
      BY <1>5, <3>1
  <2> QED
    BY <2>1, <2>2, <2>3 DEF Distinct
<1>7. ASSUME NEW n PROVE Held(queue, {}, t, n) <=> Held(queue, active, sent, n)
  <2>1. (\E j \in 1 .. Len(t) : t[j].msg = n) <=> (n = m \/ \E j \in 1 .. Len(sent) : sent[j].msg = n)
    <3>1. Len(t) \in 1 .. Len(t) /\ t[Len(t)].msg = m
      BY <1>3, SMTT(30)
    <3>2. \A j \in 1 .. Len(sent) : j \in 1 .. Len(t) /\ t[j] = sent[j]
      BY <1>3, SMTT(30)
    <3> QED
      BY <1>5, <3>1, <3>2
  <2>2. n \in active <=> n = m
    BY <1>1
  <2> QED
    BY <2>1, <2>2 DEF Held
<1>8. Ordered(reqId', queue, {}, t)
  <2>1. \A i, j \in 1 .. Len(queue) : i < j => reqId[queue[i]] < reqId[queue[j]]
    BY <1>2 DEF Ordered
  <2>2. ASSUME NEW i \in 1 .. Len(queue), NEW j \in 1 .. Len(t)
        PROVE  reqId[t[j].msg] < reqId[queue[i]]
    <3>1. reqId[m] < reqId[queue[i]] /\ \A l \in 1 .. Len(sent) : reqId[sent[l].msg] < reqId[queue[i]]
      BY <1>2 DEF Ordered
    <3> QED
      BY <1>5, <3>1
  <2> QED
    BY <2>1, <2>2 DEF Ordered
<1>9. Allowed(t, chosen', passed')
  BY <1>2, <1>5 DEF Allowed
<1>10. /\ queue' \in Seq(Msgs) /\ sent' \in Seq(Verdicts) /\ settling' = FALSE
       /\ active' \in SUBSET Msgs /\ Cardinality(active') <= 1
       /\ \A x, y \in active' : x = y
       /\ Distinct(queue', active', sent')
       /\ \A x : Held(queue', active', sent', x) <=> Held(queue, {}, t, x)
       /\ Ordered(reqId', queue', active', sent')
       /\ Allowed(sent', chosen', passed')
  BY <1>1, <1>3, <1>4, <1>6, <1>8, <1>9, PresentNextKeeps DEF t
<1>11. PlaceInv'
  BY <1>2, <1>7, <1>10 DEF PlaceInv
<1>12. PresenterTypeOK'
  BY <1>1, <1>10 DEF PresenterInv, PresenterTypeOK
<1>13. IdInv'
  BY DEF PresenterInv, IdInv, Shown
<1>14. AuthInv'
  BY DEF PresenterInv, AuthInv
<1> QED
  BY <1>10, <1>11, <1>12, <1>13, <1>14 DEF PresenterInv

(* The next request id is larger than all before. *)
LEMMA ShowKeepsIds ==
  ASSUME PresenterInv, NEW m \in Msgs, reqId[m] = 0,
         reqId' = [reqId EXCEPT ![m] = Cardinality(Shown) + 1]
  PROVE  /\ IdInv' /\ reqId' \in [Msgs -> Nat] /\ reqId'[m] # 0
         /\ \A n \in Msgs : n # m => reqId'[n] = reqId[n] /\ reqId'[n] < reqId'[m]
<1>1. /\ reqId \in [Msgs -> Nat] /\ IsFiniteSet(Shown)
      /\ \A n \in Msgs : reqId[n] <= Cardinality(Shown)
      /\ \A x, y \in Shown : reqId[x] = reqId[y] => x = y
  BY DEF PresenterInv, PresenterTypeOK, IdInv
<1>2. Cardinality(Shown) \in Nat
  BY <1>1, FS_CardinalityType
<1>3. /\ reqId' \in [Msgs -> Nat] /\ reqId'[m] = Cardinality(Shown) + 1
      /\ \A n \in Msgs : n # m => reqId'[n] = reqId[n]
  BY <1>1, <1>2, SMTT(30)
<1>4. m \notin Shown /\ Shown' = Shown \cup {m}
  BY <1>1, <1>2, <1>3, SMTT(30) DEF Shown
<1>5. IsFiniteSet(Shown') /\ Cardinality(Shown') = Cardinality(Shown) + 1
  BY <1>1, <1>4, FS_AddElement
<1>6. \A n \in Msgs : n # m => reqId'[n] < reqId'[m]
  BY <1>1, <1>2, <1>3, SMTT(30)
<1>7. \A n \in Msgs : reqId'[n] <= Cardinality(Shown')
  BY <1>1, <1>2, <1>3, <1>5, SMTT(30)
<1>8. \A x, y \in Shown' : reqId'[x] = reqId'[y] => x = y
  <2> SUFFICES ASSUME NEW x \in Shown', NEW y \in Shown', reqId'[x] = reqId'[y], x # y PROVE FALSE
    OBVIOUS
  <2>1. x \in Msgs /\ y \in Msgs
    BY DEF Shown
  <2>2. x # m /\ y # m
    BY <1>3, <1>6, <2>1, SMTT(30)
  <2> QED
    BY <1>1, <1>3, <1>4, <2>1, <2>2
<1> QED
  BY <1>2, <1>3, <1>5, <1>6, <1>7, <1>8, SMTT(30) DEF IdInv

(* show(): a new prompt joins the end of the queue. *)
LEMMA ShowKeeps ==
  ASSUME PresenterInv, NEW m \in Msgs, Show(m, Cardinality(Shown) + 1)
  PROVE  PresenterInv'
<1> DEFINE q == Append(queue, m)
<1>1. /\ queue \in Seq(Msgs) /\ sent \in Seq(Verdicts) /\ active \subseteq Msgs
      /\ reqId \in [Msgs -> Nat]
  BY DEF PresenterInv, PresenterTypeOK
<1>2. /\ Distinct(queue, active, sent)
      /\ \A n \in Msgs : reqId[n] # 0 <=> Held(queue, active, sent, n)
      /\ Ordered(reqId, queue, active, sent)
      /\ Allowed(sent, chosen, passed)
  BY DEF PresenterInv, PlaceInv
<1>3. /\ reqId[m] = 0 /\ reqId' = [reqId EXCEPT ![m] = Cardinality(Shown) + 1]
      /\ UNCHANGED <<auth, late, chosen, passed>>
  BY DEF Show
<1>4. /\ IdInv' /\ reqId' \in [Msgs -> Nat] /\ reqId'[m] # 0
      /\ \A n \in Msgs : n # m => reqId'[n] = reqId[n] /\ reqId'[n] < reqId'[m]
  BY <1>3, ShowKeepsIds
<1>5. /\ q \in Seq(Msgs) /\ Len(q) = Len(queue) + 1 /\ Len(queue) \in Nat
      /\ q[Len(q)] = m /\ \A i \in 1 .. Len(queue) : q[i] = queue[i]
  BY <1>1, SMTT(30)
<1> HIDE DEF q
<1>6. ASSUME NEW i \in 1 .. Len(q)
      PROVE  \/ i \in 1 .. Len(queue) /\ q[i] = queue[i]
             \/ i = Len(q) /\ q[i] = m
  BY <1>5, SMTT(30)
<1>7. ~ Held(queue, active, sent, m)
  BY <1>2, <1>3
<1>8. /\ \A i \in 1 .. Len(queue) : queue[i] \in Msgs /\ queue[i] # m
      /\ \A n \in active : n \in Msgs /\ n # m
      /\ \A j \in 1 .. Len(sent) : sent[j].msg \in Msgs /\ sent[j].msg # m
  <2>1. \A j \in 1 .. Len(sent) : sent[j] \in Verdicts
    BY <1>1, SMTT(30)
  <2> QED
    BY <1>1, <1>7, <2>1, SMTT(30) DEF Held, Verdicts
<1>9. Distinct(q, active, sent)
  <2>1. ASSUME NEW i \in 1 .. Len(q), NEW j \in 1 .. Len(q), q[i] = q[j] PROVE i = j
    <3>1. \A l, n \in 1 .. Len(queue) : queue[l] = queue[n] => l = n
      BY <1>2 DEF Distinct
    <3> QED
      BY <1>6, <1>8, <2>1, <3>1
  <2>2. ASSUME NEW i \in 1 .. Len(q)
        PROVE  q[i] \notin active /\ \A j \in 1 .. Len(sent) : q[i] # sent[j].msg
    BY <1>2, <1>6, <1>8 DEF Distinct
  <2> QED
    BY <1>2, <2>1, <2>2 DEF Distinct
<1>10. ASSUME NEW n PROVE Held(q, active, sent, n) <=> n = m \/ Held(queue, active, sent, n)
  <2>1. (\E i \in 1 .. Len(q) : q[i] = n) <=> (n = m \/ \E i \in 1 .. Len(queue) : queue[i] = n)
    <3>1. Len(q) \in 1 .. Len(q) /\ q[Len(q)] = m
      BY <1>5, SMTT(30)
    <3>2. \A i \in 1 .. Len(queue) : i \in 1 .. Len(q) /\ q[i] = queue[i]
      BY <1>5, SMTT(30)
    <3> QED
      BY <1>6, <3>1, <3>2
  <2> QED
    BY <2>1 DEF Held
<1>11. Ordered(reqId', q, active, sent)
  <2>1. ASSUME NEW i \in 1 .. Len(q), NEW j \in 1 .. Len(q), i < j
        PROVE  reqId'[q[i]] < reqId'[q[j]]
    <3>1. i \in 1 .. Len(queue) /\ q[i] = queue[i]
      BY <1>5, <2>1, SMTT(30)
    <3>2. CASE j \in 1 .. Len(queue) /\ q[j] = queue[j]
      <4>1. reqId[queue[i]] < reqId[queue[j]]
        BY <1>2, <2>1, <3>1, <3>2 DEF Ordered
      <4> QED
        BY <1>4, <1>8, <3>1, <3>2, <4>1
    <3>3. CASE j = Len(q) /\ q[j] = m
      BY <1>4, <1>8, <3>1, <3>3
    <3> QED
      BY <1>6, <3>2, <3>3
  <2>2. ASSUME NEW i \in 1 .. Len(q), NEW n \in active PROVE reqId'[n] < reqId'[q[i]]
    <3>1. CASE i \in 1 .. Len(queue) /\ q[i] = queue[i]
      <4>1. reqId[n] < reqId[queue[i]]
        BY <1>2, <3>1 DEF Ordered
      <4> QED
        BY <1>4, <1>8, <3>1, <4>1
    <3>2. CASE i = Len(q) /\ q[i] = m
      BY <1>4, <1>8, <3>2
    <3> QED
      BY <1>6, <3>1, <3>2
  <2>3. ASSUME NEW i \in 1 .. Len(q), NEW j \in 1 .. Len(sent)
        PROVE  reqId'[sent[j].msg] < reqId'[q[i]]
    <3>1. CASE i \in 1 .. Len(queue) /\ q[i] = queue[i]
      <4>1. reqId[sent[j].msg] < reqId[queue[i]]
        BY <1>2, <3>1 DEF Ordered
      <4> QED
        BY <1>4, <1>8, <3>1, <4>1
    <3>2. CASE i = Len(q) /\ q[i] = m
      BY <1>4, <1>8, <3>2
    <3> QED
      BY <1>6, <3>1, <3>2
  <2> QED
    BY <2>1, <2>2, <2>3 DEF Ordered
<1>12. AuthInv'
  <2>1. \A a \in auth : a.msg \in Msgs
    BY DEF PresenterInv, PresenterTypeOK
  <2>2. \A n \in Msgs : reqId[n] # 0 => reqId'[n] # 0
    BY <1>4
  <2> QED
    BY <1>3, <2>1, <2>2 DEF PresenterInv, AuthInv
<1>13. \A n \in Msgs : reqId'[n] # 0 <=> Held(q, active, sent, n)
  BY <1>2, <1>4, <1>10
<1>14. CASE active = {}
  <2>1. PresentNext(q, << >>)
    BY <1>14 DEF Show, q
  <2>2. sent \o << >> = sent
    BY <1>1, SMTT(30)
  <2>3. /\ queue' \in Seq(Msgs) /\ sent' \in Seq(Verdicts) /\ settling' = FALSE
        /\ active' \in SUBSET Msgs /\ Cardinality(active') <= 1
        /\ \A x, y \in active' : x = y
        /\ Distinct(queue', active', sent')
        /\ \A x : Held(queue', active', sent', x) <=> Held(q, {}, sent, x)
        /\ Ordered(reqId', queue', active', sent')
        /\ Allowed(sent', chosen', passed')
    <3>1. Distinct(q, {}, sent) /\ Ordered(reqId', q, {}, sent) /\ Allowed(sent, chosen', passed')
      BY <1>2, <1>3, <1>9, <1>11, <1>14
    <3> QED
      BY <1>1, <1>5, <2>1, <2>2, <3>1, PresentNextKeeps
  <2>4. PresenterTypeOK'
    BY <1>3, <1>4, <2>3 DEF PresenterInv, PresenterTypeOK
  <2>5. PlaceInv'
    BY <1>13, <1>14, <2>3 DEF PlaceInv
  <2> QED
    BY <1>4, <1>12, <2>3, <2>4, <2>5 DEF PresenterInv
<1>15. CASE active # {}
  <2>1. queue' = q /\ active' = active /\ sent' = sent /\ settling' = settling
    BY <1>15 DEF Show, q
  <2>2. PresenterTypeOK'
    BY <1>3, <1>4, <1>5, <2>1 DEF PresenterInv, PresenterTypeOK
  <2>3. PlaceInv'
    BY <1>9, <1>13, <2>1 DEF PlaceInv
  <2>4. (\A x, y \in active' : x = y) /\ Allowed(sent', chosen', passed')
    BY <1>2, <1>3, <2>1 DEF PresenterInv
  <2> QED
    BY <1>4, <1>11, <1>12, <2>1, <2>2, <2>3, <2>4 DEF PresenterInv
<1> QED
  BY <1>14, <1>15

(* A step that touches no queue, window or decision keeps their places. *)
LEMMA PlacesStay ==
  ASSUME PresenterInv, UNCHANGED <<reqId, queue, active, sent>>, PresenterTypeOK', AuthInv',
         chosen \subseteq chosen', passed \subseteq passed'
  PROVE  PresenterInv'
<1>1. Allowed(sent', chosen', passed')
  BY DEF PresenterInv, Allowed
<1>2. IdInv' /\ PlaceInv' /\ Ordered(reqId', queue', active', sent') /\ \A m, n \in active' : m = n
  <2>1. Shown' = Shown
    BY DEF Shown
  <2> QED
    BY <2>1 DEF PresenterInv, IdInv, PlaceInv
<1> QED
  BY <1>1, <1>2 DEF PresenterInv

(* The user's buttons. *)
LEMMA UserStepKeeps ==
  ASSUME PresenterInv, UserStep
  PROVE  PresenterInv'
<1>1. PICK m \in Msgs : \/ \E s \in Scopes \cup {NoScope} : SettleDeny(m, s)
                        \/ \E s \in Scopes : SettleAllow(m, s)
  BY DEF UserStep
<1>2. ASSUME NEW s \in Scopes \cup {NoScope}, SettleDeny(m, s) PROVE PresenterInv'
  <2> DEFINE d == [msg |-> m, allow |-> FALSE, scope |-> s]
  <2>1. m \in active /\ Complete(d) /\ UNCHANGED <<reqId, auth, late, chosen, passed>>
    BY <1>2 DEF SettleDeny
  <2>2. d \in Verdicts /\ d.msg = m /\ ~ d.allow
    BY DEF Verdicts
  <2>3. chosen \subseteq Msgs /\ passed \subseteq Msgs
    BY DEF PresenterInv, PresenterTypeOK
  <2> HIDE DEF d
  <2> QED
    BY <2>1, <2>2, <2>3, CompleteKeeps
<1>3. ASSUME NEW s \in Scopes, SettleAllow(m, s) PROVE PresenterInv'
  <2> DEFINE d == [msg |-> m, allow |-> TRUE, scope |-> s]
  <2>1. /\ m \in active /\ chosen' = chosen \cup {m} /\ UNCHANGED <<reqId, late, passed>>
    BY <1>3 DEF SettleAllow
  <2>2. chosen \subseteq Msgs /\ passed \subseteq Msgs
    BY DEF PresenterInv, PresenterTypeOK
  <2>3. CASE m \in TouchId
    <3>1. /\ settling' = TRUE /\ auth' = auth \cup {[msg |-> m, scope |-> s]}
          /\ UNCHANGED <<queue, active, sent>>
      BY <1>3, <2>3 DEF SettleAllow
    <3>2. PresenterTypeOK'
      BY <2>1, <2>2, <3>1, SMTT(30) DEF PresenterInv, PresenterTypeOK
    <3>3. reqId[m] # 0
      BY <2>1 DEF PresenterInv, PlaceInv, Held
    <3>4. AuthInv'
      BY <2>1, <3>1, <3>3, SMTT(30) DEF PresenterInv, AuthInv
    <3> QED
      BY <2>1, <3>1, <3>2, <3>4, PlacesStay
  <2>4. CASE m \notin TouchId
    <3>1. Complete(d) /\ auth' = auth
      BY <1>3, <2>4 DEF SettleAllow
    <3>2. d \in Verdicts /\ d.msg = m
      BY DEF Verdicts
    <3> HIDE DEF d
    <3> QED
      BY <2>1, <2>2, <2>4, <3>1, <3>2, CompleteKeeps
  <2> QED
    BY <2>3, <2>4
<1> QED
  BY <1>1, <1>2, <1>3

(* A biometric callback completes its own prompt, or nothing: request ids  *)
(* are not reused.                                                         *)
LEMMA CallbackKeeps ==
  ASSUME PresenterInv, CallbackStep
  PROVE  PresenterInv'
<1>1. PICK a \in auth, allowed \in BOOLEAN : CompleteBiometric(a, allowed)
  BY DEF CallbackStep
<1> DEFINE same == {m \in active : reqId[m] = reqId[a.msg]}
           d(m) == IF allowed THEN [msg |-> m, allow |-> TRUE, scope |-> a.scope] ELSE Deny(m)
<1>2. /\ auth' = auth \ {a} /\ passed' = IF allowed THEN passed \cup {a.msg} ELSE passed
      /\ UNCHANGED <<reqId, late, chosen>>
  BY <1>1 DEF CompleteBiometric
<1>3. /\ a.msg \in Msgs /\ a.scope \in Scopes /\ a.msg \in chosen /\ reqId[a.msg] # 0
      /\ chosen \subseteq Msgs /\ passed \subseteq Msgs /\ active \subseteq Msgs
  BY DEF PresenterInv, PresenterTypeOK, AuthInv
<1>4. passed \subseteq passed' /\ passed' \subseteq Msgs /\ (allowed => a.msg \in passed')
  BY <1>2, <1>3
<1>5. CASE same = {}
  <2>1. UNCHANGED <<queue, active, sent, settling>>
    BY <1>1, <1>5 DEF CompleteBiometric
  <2>2. PresenterTypeOK'
    BY <1>2, <1>4, <2>1 DEF PresenterInv, PresenterTypeOK
  <2>3. AuthInv'
    BY <1>2 DEF PresenterInv, AuthInv
  <2> QED
    BY <1>2, <1>4, <2>1, <2>2, <2>3, PlacesStay
<1>6. CASE same # {}
  <2>1. PICK m \in same : Complete(d(m))
    BY <1>1, <1>6 DEF CompleteBiometric
  <2>2. m \in active /\ m = a.msg
    BY <1>3 DEF PresenterInv, IdInv, Shown
  <2>3. d(m) \in Verdicts /\ d(m).msg = m /\ (d(m).allow => allowed)
    BY <1>3, <2>2 DEF Verdicts, Deny
  <2>4. /\ auth' \subseteq auth
        /\ d(m).allow => m \in chosen' /\ (m \in TouchId => m \in passed')
    BY <1>2, <1>3, <1>4, <2>2, <2>3
  <2> HIDE DEF d
  <2> QED
    BY <1>2, <1>3, <1>4, <2>1, <2>2, <2>3, <2>4, CompleteKeeps
<1> QED
  BY <1>5, <1>6

(* Deadlines and the timer of the shown prompt. *)
LEMMA TimerKeeps ==
  ASSUME PresenterInv, NEW m \in Msgs, TimerStep(m)
  PROVE  PresenterInv'
<1>1. CASE DeadlinePasses(m)
  <2>1. /\ late' = late \cup {m}
        /\ UNCHANGED <<reqId, queue, active, settling, auth, sent, chosen, passed>>
    BY <1>1 DEF DeadlinePasses
  <2>2. PresenterTypeOK' /\ AuthInv'
    BY <2>1 DEF PresenterInv, PresenterTypeOK, AuthInv
  <2> QED
    BY <2>1, <2>2, PlacesStay
<1>2. CASE Expire(m)
  <2>1. m \in active /\ Complete(Deny(m)) /\ UNCHANGED <<reqId, auth, late, chosen, passed>>
    BY <1>2 DEF Expire
  <2>2. Deny(m) \in Verdicts /\ Deny(m).msg = m /\ ~ Deny(m).allow
    BY DEF Verdicts, Deny
  <2>3. chosen \subseteq Msgs /\ passed \subseteq Msgs
    BY DEF PresenterInv, PresenterTypeOK
  <2> QED
    BY <2>1, <2>2, <2>3, CompleteKeeps
<1> QED
  BY <1>1, <1>2 DEF TimerStep

---------------------------------------------------------------------------
(* The prompts that were shown are queued, open or decided, one place      *)
(* each, in the order in which they came; whatever the user, Touch ID and  *)
(* the timers do, and in whatever order they do it.                        *)
THEOREM PresenterInvariant == PresenterSpec => []PresenterInv
<1>1. PresenterInit => PresenterInv
  <2> SUFFICES ASSUME PresenterInit PROVE PresenterInv
    OBVIOUS
  <2>1. Shown = {}
    BY DEF PresenterInit, Shown
  <2>2. IsFiniteSet({}) /\ Cardinality({}) = 0
    BY FS_EmptySet
  <2>3. PresenterTypeOK
    <3>1. << >> \in Seq(Msgs) /\ << >> \in Seq(Verdicts)
      BY EmptySeq
    <3>2. Cardinality(active) <= 1
      BY <2>2, SMTT(30) DEF PresenterInit
    <3> QED
      BY <3>1, <3>2 DEF PresenterInit, PresenterTypeOK
  <2>4. IdInv
    BY <2>1, <2>2, SMTT(30) DEF PresenterInit, IdInv
  <2>5. Len(<< >>) = 0
    OBVIOUS
  <2>6. PlaceInv /\ Ordered(reqId, queue, active, sent) /\ Allowed(sent, chosen, passed)
    BY <2>5, SMTT(30) DEF PresenterInit, PlaceInv, Distinct, Held, Ordered, Allowed
  <2> QED
    BY <2>3, <2>4, <2>6 DEF PresenterInit, PresenterInv, AuthInv
<1>2. PresenterInv /\ [PresenterNext]_presenterVars => PresenterInv'
  <2> SUFFICES ASSUME PresenterInv, [PresenterNext]_presenterVars PROVE PresenterInv'
    OBVIOUS
  <2>1. ASSUME NEW m \in Msgs, Show(m, Cardinality({x \in Msgs : reqId[x] # 0}) + 1)
        PROVE  PresenterInv'
    BY <2>1, ShowKeeps DEF Shown
  <2>2. CASE UNCHANGED presenterVars
    <3>1. UNCHANGED <<reqId, queue, active, settling, auth, late, sent, chosen, passed>>
      BY <2>2 DEF presenterVars
    <3>2. PresenterTypeOK' /\ AuthInv'
      BY <3>1 DEF PresenterInv, PresenterTypeOK, AuthInv
    <3> QED
      BY <3>1, <3>2, PlacesStay
  <2> QED
    BY <2>1, <2>2, UserStepKeeps, CallbackKeeps, TimerKeeps DEF PresenterNext
<1> QED
  BY <1>1, <1>2, PTL DEF PresenterSpec

(* A set of at most one place is empty or a singleton. *)
LEMMA OnePlace ==
  ASSUME NEW S, \A i, j \in S : i = j
  PROVE  Cardinality(S) = IF S = {} THEN 0 ELSE 1
<1>1. CASE S = {}
  BY <1>1, FS_EmptySet
<1>2. CASE S # {}
  <2>1. PICK x \in S : S = {x}
    BY <1>2
  <2> QED
    BY <2>1, FS_Singleton
<1> QED
  BY <1>1, <1>2

LEMMA PlacesAreOne ==
  ASSUME PresenterInv
  PROVE  OneDecisionEach
<1> SUFFICES ASSUME NEW m \in Msgs
    PROVE Cardinality({i \in DOMAIN queue : queue[i] = m}) + Cardinality(active \cap {m})
            + Cardinality({i \in DOMAIN sent : sent[i].msg = m})
          = IF reqId[m] = 0 THEN 0 ELSE 1
  BY DEF OneDecisionEach
<1> DEFINE Q == {i \in DOMAIN queue : queue[i] = m}
           A == active \cap {m}
           D == {i \in DOMAIN sent : sent[i].msg = m}
<1>1. DOMAIN queue = 1 .. Len(queue) /\ DOMAIN sent = 1 .. Len(sent)
  BY LenProperties DEF PresenterInv, PresenterTypeOK
<1>2. Distinct(queue, active, sent) /\ (reqId[m] # 0 <=> Held(queue, active, sent, m))
  BY DEF PresenterInv, PlaceInv
<1>3. /\ \A i, j \in Q : i = j
      /\ \A i, j \in A : i = j
      /\ \A i, j \in D : i = j
  BY <1>1, <1>2 DEF Distinct
<1>4. /\ Q # {} => A = {} /\ D = {}
      /\ A # {} => D = {}
  BY <1>1, <1>2, SMTT(30) DEF Distinct
<1>5. reqId[m] # 0 <=> Q # {} \/ A # {} \/ D # {}
  BY <1>1, <1>2 DEF Held
<1> HIDE DEF Q, A, D
<1>6. /\ Cardinality(Q) = IF Q = {} THEN 0 ELSE 1
      /\ Cardinality(A) = IF A = {} THEN 0 ELSE 1
      /\ Cardinality(D) = IF D = {} THEN 0 ELSE 1
  BY <1>3, OnePlace
<1>7. Cardinality(Q) + Cardinality(A) + Cardinality(D) = IF reqId[m] = 0 THEN 0 ELSE 1
  BY <1>4, <1>5, <1>6, SMTT(30)
<1> QED
  BY <1>7 DEF Q, A, D

(* Every prompt is decided once, in its turn, and an allow is the user's   *)
(* own and, where Touch ID is asked for, that of the prompt's own          *)
(* evaluation: PromptsAreDecided for any number of prompts.                *)
THEOREM PresenterDecidesEach == PresenterSpec => []PromptsAreDecided
<1>1. PresenterInv => PromptsAreDecided
  <2> SUFFICES ASSUME PresenterInv PROVE PromptsAreDecided
    OBVIOUS
  <2>1. DOMAIN queue = 1 .. Len(queue) /\ DOMAIN sent = 1 .. Len(sent)
    BY LenProperties DEF PresenterInv, PresenterTypeOK
  <2>2. AllowIsTheUsers
    BY <2>1 DEF PresenterInv, Allowed, AllowIsTheUsers
  <2>3. FirstComeFirstShown
    BY <2>1 DEF PresenterInv, Ordered, FirstComeFirstShown
  <2> QED
    BY <2>2, <2>3, PlacesAreOne DEF PresenterInv, PromptsAreDecided
<1> QED
  BY <1>1, PresenterInvariant, PTL
===========================================================================
