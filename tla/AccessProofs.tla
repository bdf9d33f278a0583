---------------------------- MODULE AccessProofs ----------------------------
(***************************************************************************)
(* Proofs about Access: type correctness, and the bounds of the two token  *)
(* buckets, for every rate, burst, number of connections and run of time.  *)
(***************************************************************************)
EXTENDS Access, TLAPS

\* What a connection was let through and what its bucket still holds was paid
\* for by the burst and the time up to the last refill.
RateInv == Rate > 0 =>
    \A c \in Conns : passed[c] * Unit + tok[c] <= Cap + Rate * last[c]

\* A connection that is not established has asked for nothing.
StartInv == \A c \in Conns :
    pc[c] \in {"off", "shake"} => passed[c] = 0 /\ delayed[c] = 0

\* A connection that kept to the rate has a full bucket before its first
\* request, and has not been refilled since its last one.
SteadyInv == Rate > 0 =>
    \A c \in Conns : steady[c] =>
        /\ delayed[c] = 0 /\ pc[c] \notin {"sleep", "cut"}
        /\ passed[c] = 0 => tok[c] = Cap
        /\ passed[c] > 0 => last[c] = lastReq[c]

\* The same account for the bucket of a UID.
AdmissionInv == HsRate > 0 =>
    \A u \in Uids :
        /\ admitted[u] * Unit + uTok[u] <= HsCap + HsRate * uLast[u]
        /\ u \in uNew => admitted[u] = 0

\* A line in the file of decisions was answered by somebody.
DecisionsInv == \A p \in Peers, e \in Endpoints :
    /\ TRUE \in decisions[p][e] =>
          [peer |-> p, endpoint |-> e, answer |-> "AlwaysAllow"] \in said
    /\ FALSE \in decisions[p][e] =>
          [peer |-> p, endpoint |-> e, answer |-> "Deny"] \in said

\* A thread deals with one endpoint, and asks only about what is undecided.
PromptInv == \A c \in Conns :
    /\ \A e, f \in cur[c] : e = f
    /\ pc[c] = "prompt" => \A e \in cur[c] : ~Cached(c, e)

\* What has to hold of the file and the prompts for AnswersConfined to be kept.
AnswersInv == DecisionsInv /\ PromptInv /\ AnswersConfined

-----------------------------------------------------------------------------
\* A burst is at least one token.
LEMMA CapFacts ==
    /\ Cap \in Nat /\ Unit <= Cap
    /\ HsCap \in Nat /\ Unit <= HsCap
<1>1. \A n \in Nat : AtLeastOne(n) \in Nat \ {0}
  BY DEF AtLeastOne
<1>2. \A n \in Nat \ {0} : Unit * n \in Nat /\ Unit <= Unit * n
  BY AccessConstants
<1>3. QED
  BY <1>1, <1>2, AccessConstants DEF Cap, HsCap

\* What refill() gives: no more than the burst, no less than there was, paid
\* for by the time that went by, and enough whenever the uncapped sum is.
LEMMA RefillFacts ==
    ASSUME now \in Nat, NEW t \in Nat, NEW since \in Nat, NEW rate \in Nat,
           NEW cap \in Nat, t <= cap, since <= now
    PROVE  LET r == Refill(t, since, rate, cap)
           IN  /\ r \in Nat /\ r <= cap /\ t <= r
               /\ r + rate * since <= t + rate * now
               /\ \A n \in Nat : n <= cap /\ t + (now - since) * rate >= n => r >= n
<1>1. (now - since) * rate \in Nat
  OBVIOUS
<1>2. (now - since) * rate = rate * now - rate * since
  OBVIOUS
<1>3. rate * now \in Nat /\ rate * since \in Nat
  OBVIOUS
<1> DEFINE d == (now - since) * rate
<1>4. Refill(t, since, rate, cap) = IF t + d < cap THEN t + d ELSE cap
  BY DEF Refill
<1>5. d \in Nat /\ d = rate * now - rate * since
  BY <1>1, <1>2
<1> HIDE DEF d
<1>6. QED
  BY <1>3, <1>4, <1>5 DEF d

\* What try_take() leaves.
LEMMA TakeFacts ==
    ASSUME NEW t \in Nat
    PROVE  /\ AfterTake(t) \in Nat /\ AfterTake(t) <= t
           /\ t >= Unit => AfterTake(t) + Unit = t
           /\ HasToken(t) <=> t >= Unit
BY AccessConstants DEF AfterTake, HasToken

\* One request or handshake more is one token more on the account.
LEMMA OneMore ==
    ASSUME NEW n \in Nat, NEW a \in Nat, NEW b \in Nat, NEW r \in Nat,
           NEW cap \in Nat, NEW rate \in Nat, NEW since \in Nat, now \in Nat,
           n * Unit + a <= cap + rate * since,
           r + rate * since <= a + rate * now,
           b + Unit = r
    PROVE  (n + 1) * Unit + b <= cap + rate * now
<1>1. n * Unit \in Nat /\ rate * since \in Nat /\ rate * now \in Nat /\ Unit \in Nat
  BY AccessConstants
<1>2. (n + 1) * Unit = n * Unit + Unit
  BY AccessConstants
<1>3. QED
  BY <1>1, <1>2

-----------------------------------------------------------------------------
\* The initial state is well typed.
LEMMA InitTypes == Init => TypeOK
BY AccessConstants, CapFacts DEF Init, TypeOK, BucketsOK, UidsOK, AuthzOK

\* The bucket of a connection, refilled now.
LEMMA FullFacts ==
    ASSUME TypeOK, NEW c \in Conns
    PROVE  /\ Full(c) \in Nat /\ Full(c) <= Cap /\ tok[c] <= Full(c)
           /\ Full(c) + Rate * last[c] <= tok[c] + Rate * now
           /\ \A n \in Nat : n <= Cap /\ tok[c] + (now - last[c]) * Rate >= n
                             => Full(c) >= n
<1>1. now \in Nat /\ tok[c] \in Nat /\ last[c] \in Nat /\ tok[c] <= Cap /\ last[c] <= now
  BY DEF TypeOK, BucketsOK
<1>2. Rate \in Nat /\ Cap \in Nat
  BY AccessConstants, CapFacts
<1>3. LET r == Refill(tok[c], last[c], Rate, Cap)
      IN  /\ r \in Nat /\ r <= Cap /\ tok[c] <= r
          /\ r + Rate * last[c] <= tok[c] + Rate * now
          /\ \A n \in Nat : n <= Cap /\ tok[c] + (now - last[c]) * Rate >= n => r >= n
  BY <1>1, <1>2, RefillFacts
<1>4. QED
  BY <1>1, <1>2, <1>3 DEF Full

\* The bucket of a UID as an attempt finds it.
UidBucket(u) == IF u \in uNew THEN HsCap ELSE Refill(uTok[u], uLast[u], HsRate, HsCap)

\* A new bucket is full; an old one is paid for by the time since its last refill.
LEMMA UidFacts ==
    ASSUME TypeOK, NEW u \in Uids
    PROVE  /\ UidBucket(u) \in Nat /\ UidBucket(u) <= HsCap
           /\ u \notin uNew =>
                 UidBucket(u) + HsRate * uLast[u] <= uTok[u] + HsRate * now
<1>1. now \in Nat /\ uTok[u] \in Nat /\ uLast[u] \in Nat /\ uTok[u] <= HsCap
      /\ uLast[u] <= now
  BY DEF TypeOK, UidsOK
<1>2. HsRate \in Nat /\ HsCap \in Nat
  BY AccessConstants, CapFacts
<1>3. LET r == Refill(uTok[u], uLast[u], HsRate, HsCap)
      IN  /\ r \in Nat /\ r <= HsCap
          /\ r + HsRate * uLast[u] <= uTok[u] + HsRate * now
  BY <1>1, <1>2, RefillFacts
<1>4. QED
  BY <1>2, <1>3 DEF UidBucket

\* An attempt to connect, admitted or not, keeps the types.
LEMMA AdmitTypes ==
    ASSUME TypeOK, NEW c \in Conns, Admit(c)
    PROVE  TypeOK'
<1> DEFINE u == UidOf[c]
<1> DEFINE t == UidBucket(u)
<1>1. u \in Uids
  BY AccessConstants
<1>2. t \in Nat /\ t <= HsCap
  BY <1>1, UidFacts
<1>3. AfterTake(t) \in Nat /\ AfterTake(t) <= HsCap
  BY <1>2, TakeFacts, CapFacts
<1>4. UNCHANGED <<now, cur, buckets, authz>>
  BY DEF Admit
<1>5. BucketsOK' /\ AuthzOK' /\ now' \in Nat /\ cur' \in [Conns -> SUBSET Endpoints]
  BY <1>4 DEF TypeOK, BucketsOK, AuthzOK, buckets, authz
<1>6. pc' \in [Conns -> {"off", "shake", "read", "sleep", "dispatch", "prompt",
                         "cut", "closed"}]
  BY DEF Admit, To, TypeOK
<1>7. CASE HsRate = 0
  <2>1. UNCHANGED uids
    BY <1>7 DEF Admit
  <2>2. UidsOK'
    BY <2>1, <1>4 DEF TypeOK, UidsOK, uids
  <2>3. QED
    BY <1>5, <1>6, <2>2 DEF TypeOK
<1>8. CASE HsRate # 0
  <2>1. /\ uTok' = [uTok EXCEPT ![u] = AfterTake(t)]
        /\ uLast' = [uLast EXCEPT ![u] = now] /\ uNew' = uNew \ {u}
        /\ admitted' = [admitted EXCEPT ![u] = IF HasToken(t) THEN @ + 1 ELSE @]
    BY <1>8 DEF Admit, UidBucket
  <2> HIDE DEF t
  <2>2. UidsOK'
    BY <2>1, <1>1, <1>3, <1>4 DEF TypeOK, UidsOK
  <2>3. QED
    BY <1>5, <1>6, <2>2 DEF TypeOK
<1>9. QED
  BY <1>7, <1>8

\* So do the steps that touch the bucket of a connection.
LEMMA BucketTypes ==
    ASSUME TypeOK, NEW c \in Conns,
           (\E e \in Endpoints : Request(c, e)) \/ Wake(c) \/ Handshake(c)
    PROVE  TypeOK'
<1>1. Full(c) \in Nat /\ Full(c) <= Cap
  BY FullFacts
<1>2. AfterTake(Full(c)) \in Nat /\ AfterTake(Full(c)) <= Cap
  BY <1>1, TakeFacts, CapFacts
<1>3. PeerOf[c] \in Peers
  BY AccessConstants
<1>4. ASSUME NEW e \in Endpoints, Request(c, e) PROVE TypeOK'
  <2>1. UidsOK' /\ AuthzOK' /\ now' \in Nat
    BY <1>4 DEF Request, TypeOK, UidsOK, AuthzOK, uids, authz
  <2>2. cur' \in [Conns -> SUBSET Endpoints]
    BY <1>4 DEF Request, TypeOK
  <2>3. pc' \in [Conns -> {"off", "shake", "read", "sleep", "dispatch", "prompt",
                         "cut", "closed"}]
    BY <1>4 DEF Request, To, TypeOK
  <2>4. BucketsOK'
    <3>1. lastReq' = [lastReq EXCEPT ![c] = now] /\ now' = now
          /\ steady' = [steady EXCEPT ![c] = steady[c] /\ OnTime(c)]
      BY <1>4 DEF Request
    <3>2. steady' \in [Conns -> BOOLEAN]
      BY <3>1 DEF TypeOK, BucketsOK, OnTime
    <3>3. lastReq' \in [Conns -> Nat] /\ \A d \in Conns : lastReq'[d] <= now'
      BY <3>1 DEF TypeOK, BucketsOK
    <3>4. delayed' \in [Conns -> Nat] /\ passed' \in [Conns -> Nat]
      BY <1>4 DEF Request, TypeOK, BucketsOK
    <3>5. /\ tok' \in [Conns -> Nat] /\ last' \in [Conns -> Nat]
          /\ \A d \in Conns : tok'[d] <= Cap /\ last'[d] <= now'
      BY <1>2, <1>4, <3>1 DEF Request, TypeOK, BucketsOK
    <3>6. QED
      BY <3>2, <3>3, <3>4, <3>5 DEF BucketsOK
  <2>5. QED
    BY <2>1, <2>2, <2>3, <2>4 DEF TypeOK
<1>5. CASE Wake(c)
  BY <1>2, <1>5 DEF Wake, To, TypeOK, BucketsOK, UidsOK, AuthzOK, uids, authz
<1>6. CASE Handshake(c)
  BY <1>3, <1>6, CapFacts DEF Handshake, Recorded, To, TypeOK, BucketsOK, UidsOK, AuthzOK, uids
<1>7. QED
  BY <1>4, <1>5, <1>6

\* The rest of a connection's steps change neither bucket.
LEMMA AuthzTypes ==
    ASSUME TypeOK, NEW c \in Conns,
           \/ HandshakeFails(c) \/ Dispatch(c) \/ Authorize(c) \/ Ask(c)
           \/ \E e \in Endpoints : StreamChunk(c, e)
           \/ \E d \in Decision : Answer(c, d)
    PROVE  TypeOK' /\ UNCHANGED <<now, buckets, uids>>
<1>1. PeerOf[c] \in Peers
  BY AccessConstants
<1>2. \A e \in Endpoints, ok \in BOOLEAN : Caches(c, e, ok) =>
         cache' \in [Conns -> [allow : SUBSET Endpoints, deny : SUBSET Endpoints]]
  BY DEF Caches, TypeOK, AuthzOK
<1>3. CASE HandshakeFails(c) \/ Dispatch(c) \/ Ask(c)
  <2>1. /\ UNCHANGED <<now, cur, buckets, uids, decisions, cache, own, said>>
        /\ known' = known \/ known' = known \cup {PeerOf[c]}
        /\ To(c, "closed") \/ To(c, "read") \/ To(c, "prompt")
    BY <1>3 DEF HandshakeFails, Recorded, Dispatch, Ask, authz
  <2>2. QED
    BY <1>1, <2>1 DEF To, TypeOK, BucketsOK, UidsOK, AuthzOK, buckets, uids
<1>4. ASSUME NEW e \in Endpoints, StreamChunk(c, e)
      PROVE  TypeOK' /\ UNCHANGED <<now, buckets, uids>>
  BY <1>4 DEF StreamChunk, To, TypeOK, BucketsOK, UidsOK, AuthzOK, buckets, uids, authz
<1>5. CASE Authorize(c)
  <2>1. PICK e \in cur[c] : \/ Caches(c, e, Allows(PeerOf[c], e))
                            \/ Caches(c, e, TRUE \in decisions[PeerOf[c]][e])
    BY <1>5 DEF Authorize
  <2>2. e \in Endpoints
    BY DEF TypeOK
  <2>3. Allows(PeerOf[c], e) \in BOOLEAN /\ (TRUE \in decisions[PeerOf[c]][e]) \in BOOLEAN
    BY DEF Allows
  <2>4. cache' \in [Conns -> [allow : SUBSET Endpoints, deny : SUBSET Endpoints]]
    BY <1>2, <2>1, <2>2, <2>3
  <2>5. UNCHANGED <<now, cur, buckets, uids, known, decisions, own, said>> /\ To(c, "read")
    BY <1>5 DEF Authorize
  <2>6. QED
    BY <2>4, <2>5 DEF To, TypeOK, BucketsOK, UidsOK, AuthzOK, buckets, uids
<1>6. ASSUME NEW d \in Decision, Answer(c, d)
      PROVE  TypeOK' /\ UNCHANGED <<now, buckets, uids>>
  <2>1. PICK e \in cur[c] :
           /\ Caches(c, e, d # "Deny")
           /\ decisions' = IF ~Records(d) THEN decisions
                           ELSE [decisions EXCEPT ![PeerOf[c]][e] = {d # "Deny"}]
           /\ own' = [own EXCEPT ![c] = @ \cup {[endpoint |-> e, answer |-> d]}]
           /\ said' = said \cup {[peer |-> PeerOf[c], endpoint |-> e, answer |-> d]}
    BY <1>6 DEF Answer
  <2>2. e \in Endpoints
    BY DEF TypeOK
  <2>3. cache' \in [Conns -> [allow : SUBSET Endpoints, deny : SUBSET Endpoints]]
    BY <1>2, <2>1, <2>2
  <2>4. decisions' \in [Peers -> [Endpoints -> SUBSET BOOLEAN]]
    BY <1>1, <2>1, <2>2 DEF TypeOK, AuthzOK
  <2>5. /\ own' \in [Conns -> SUBSET [endpoint : Endpoints, answer : Decision]]
        /\ said' \in SUBSET [peer : Peers, endpoint : Endpoints, answer : Decision]
    BY <1>1, <2>1, <2>2 DEF TypeOK, AuthzOK
  <2>6. UNCHANGED <<now, cur, buckets, uids, known>> /\ To(c, "read")
    BY <1>6 DEF Answer
  <2>7. QED
    BY <2>3, <2>4, <2>5, <2>6 DEF To, TypeOK, BucketsOK, UidsOK, AuthzOK, buckets, uids
<1>7. QED
  BY <1>3, <1>4, <1>5, <1>6

\* The clock.
LEMMA TickTypes == ASSUME TypeOK, Tick PROVE TypeOK'
BY DEF Tick, TypeOK, BucketsOK, UidsOK, AuthzOK, buckets, uids, authz

\* Every step keeps the types.
LEMMA StepTypes == TypeOK /\ [Next]_vars => TypeOK'
<1> SUFFICES ASSUME TypeOK, [Next]_vars PROVE TypeOK'
  OBVIOUS
<1>1. CASE Tick
  BY <1>1, TickTypes
<1>2. ASSUME NEW c \in Conns, ConnStep(c) PROVE TypeOK'
  <2>1. CASE Admit(c)
    BY <2>1, AdmitTypes
  <2>2. CASE (\E e \in Endpoints : Request(c, e)) \/ Wake(c) \/ Handshake(c)
    BY <2>2, BucketTypes
  <2>3. CASE \/ HandshakeFails(c) \/ Dispatch(c) \/ Authorize(c) \/ Ask(c)
             \/ \E e \in Endpoints : StreamChunk(c, e)
             \/ \E d \in Decision : Answer(c, d)
    BY <2>3, AuthzTypes
  <2>4. QED
    BY <1>2, <2>1, <2>2, <2>3 DEF ConnStep
<1>3. CASE UNCHANGED vars
  BY <1>3 DEF vars, TypeOK, BucketsOK, UidsOK, AuthzOK, buckets, uids, authz
<1>4. QED
  BY <1>1, <1>2, <1>3 DEF Next

\* No token bucket ever holds more than its burst or is refilled from the
\* future, and every recorded decision, cache and history is well formed.
THEOREM TypeCorrect == Spec => []TypeOK
BY InitTypes, StepTypes, PTL DEF Spec

-----------------------------------------------------------------------------
(* The request bucket.                                                     *)

\* All accounts start balanced.
LEMMA InitAccounts == Init => StartInv /\ RateInv /\ SteadyInv /\ AdmissionInv
BY AccessConstants, CapFacts DEF Init, StartInv, RateInv, SteadyInv, AdmissionInv

\* What can happen to the bucket of one connection.
LEMMA BucketFrame ==
    ASSUME TypeOK, [Next]_vars, NEW d \in Conns
    PROVE  \/ \E e \in Endpoints : Request(d, e)
           \/ Wake(d)
           \/ Handshake(d)
           \/ /\ passed'[d] = passed[d] /\ tok'[d] = tok[d] /\ last'[d] = last[d]
              /\ delayed'[d] = delayed[d] /\ lastReq'[d] = lastReq[d]
              /\ steady'[d] = steady[d]
              /\ pc'[d] = pc[d] \/ pc'[d] \in {"shake", "closed", "read", "dispatch", "prompt"}
              /\ pc'[d] = "shake" => pc[d] \in {"off", "shake"}
              /\ pc'[d] = "off" => pc[d] = "off"
<1>1. CASE Tick
  BY <1>1 DEF Tick, buckets
<1>2. CASE UNCHANGED vars
  BY <1>2 DEF vars, buckets
<1>3. ASSUME NEW c \in Conns, ConnStep(c), c # d
      PROVE  /\ passed'[d] = passed[d] /\ tok'[d] = tok[d] /\ last'[d] = last[d]
             /\ delayed'[d] = delayed[d] /\ lastReq'[d] = lastReq[d]
             /\ steady'[d] = steady[d] /\ pc'[d] = pc[d]
  <2>1. CASE Admit(c) \/ HandshakeFails(c) \/ Dispatch(c) \/ Authorize(c) \/ Ask(c)
    BY <1>3, <2>1 DEF Admit, HandshakeFails, Dispatch, Authorize, Ask, To, buckets,
                     TypeOK, BucketsOK
  <2>2. CASE Handshake(c) \/ Wake(c)
    BY <1>3, <2>2 DEF Handshake, Wake, To, TypeOK, BucketsOK
  <2>3. ASSUME NEW e \in Endpoints, StreamChunk(c, e) \/ Request(c, e)
        PROVE  /\ passed'[d] = passed[d] /\ tok'[d] = tok[d] /\ last'[d] = last[d]
               /\ delayed'[d] = delayed[d] /\ lastReq'[d] = lastReq[d]
               /\ steady'[d] = steady[d] /\ pc'[d] = pc[d]
    BY <1>3, <2>3 DEF StreamChunk, Request, To, buckets, TypeOK, BucketsOK
  <2>4. ASSUME NEW a \in Decision, Answer(c, a)
        PROVE  /\ passed'[d] = passed[d] /\ tok'[d] = tok[d] /\ last'[d] = last[d]
               /\ delayed'[d] = delayed[d] /\ lastReq'[d] = lastReq[d]
               /\ steady'[d] = steady[d] /\ pc'[d] = pc[d]
    BY <1>3, <2>4 DEF Answer, To, buckets, TypeOK, BucketsOK
  <2>5. QED
    BY <1>3, <2>1, <2>2, <2>3, <2>4 DEF ConnStep
<1>4. CASE Admit(d)
  BY <1>4 DEF Admit, To, buckets, TypeOK
<1>5. CASE HandshakeFails(d) \/ Dispatch(d) \/ Ask(d)
  BY <1>5 DEF HandshakeFails, Dispatch, Ask, To, buckets, TypeOK
<1>6. CASE Authorize(d)
  BY <1>6 DEF Authorize, To, buckets, TypeOK
<1>7. CASE (\E e \in Endpoints : StreamChunk(d, e)) \/ (\E a \in Decision : Answer(d, a))
  BY <1>7 DEF StreamChunk, Answer, To, buckets, TypeOK
<1>8. QED
  BY <1>1, <1>2, <1>3, <1>4, <1>5, <1>6, <1>7 DEF Next, ConnStep

\* A connection asks for nothing before its handshake.
LEMMA StartStep ==
    ASSUME TypeOK, StartInv, [Next]_vars PROVE StartInv'
<1> SUFFICES ASSUME NEW d \in Conns, pc'[d] \in {"off", "shake"}
             PROVE  passed'[d] = 0 /\ delayed'[d] = 0
  BY DEF StartInv
<1>1. ~Wake(d) /\ ~Handshake(d) /\ \A e \in Endpoints : ~Request(d, e)
  BY DEF Wake, Handshake, Request, To, TypeOK
<1>2. QED
  BY <1>1, BucketFrame DEF StartInv

\* A request, delayed or not, and a wakeup keep the account.
LEMMA RateStep ==
    ASSUME TypeOK, StartInv, RateInv, [Next]_vars PROVE RateInv'
<1> SUFFICES ASSUME Rate > 0, NEW d \in Conns
             PROVE  passed'[d] * Unit + tok'[d] <= Cap + Rate * last'[d]
  BY DEF RateInv
<1>0. /\ passed[d] \in Nat /\ tok[d] \in Nat /\ last[d] \in Nat /\ now \in Nat
      /\ tok[d] <= Cap /\ last[d] <= now
      /\ Cap \in Nat /\ Rate \in Nat /\ Unit \in Nat \ {0}
  BY CapFacts, AccessConstants DEF TypeOK, BucketsOK
<1>1. passed[d] * Unit + tok[d] <= Cap + Rate * last[d]
  BY DEF RateInv
<1>2. CASE passed'[d] = passed[d] /\ tok'[d] = tok[d] /\ last'[d] = last[d]
  BY <1>1, <1>2
<1>3. ASSUME NEW e \in Endpoints, Request(d, e)
      PROVE  passed'[d] * Unit + tok'[d] <= Cap + Rate * last'[d]
  <2>1. /\ tok'[d] = AfterTake(Full(d)) /\ last'[d] = now
        /\ passed'[d] = IF HasToken(Full(d)) THEN passed[d] + 1 ELSE passed[d]
    BY <1>3 DEF Request, TypeOK, BucketsOK
  <2>2. Full(d) \in Nat /\ Full(d) + Rate * last[d] <= tok[d] + Rate * now
    BY FullFacts
  <2>3. CASE Full(d) >= Unit
    <3>1. AfterTake(Full(d)) \in Nat /\ AfterTake(Full(d)) + Unit = Full(d)
          /\ passed'[d] = passed[d] + 1
      BY <2>1, <2>2, <2>3, TakeFacts
    <3>2. (passed[d] + 1) * Unit + AfterTake(Full(d)) <= Cap + Rate * now
      BY <1>0, <1>1, <2>2, <3>1, OneMore
    <3>3. QED
      BY <2>1, <3>1, <3>2
  <2>4. CASE ~(Full(d) >= Unit)
    <3>1. AfterTake(Full(d)) = Full(d) /\ passed'[d] = passed[d]
      BY <2>1, <2>4 DEF AfterTake, HasToken
    <3>2. passed[d] * Unit \in Nat /\ Rate * last[d] \in Nat /\ Rate * now \in Nat
      BY <1>0
    <3>3. passed[d] * Unit + Full(d) <= Cap + Rate * now
      BY <1>0, <1>1, <2>2, <3>2
    <3>4. QED
      BY <2>1, <3>1, <3>3
  <2>5. QED
    BY <2>3, <2>4
<1>4. CASE Wake(d)
  <2>1. /\ tok'[d] = AfterTake(Full(d)) /\ last'[d] = now
        /\ passed'[d] = passed[d] + 1
    BY <1>4 DEF Wake, TypeOK, BucketsOK
  <2>2. Full(d) \in Nat /\ Full(d) + Rate * last[d] <= tok[d] + Rate * now
    BY FullFacts
  <2>3. Full(d) >= Unit
    BY <1>0, <1>4, FullFacts, CapFacts DEF Wake
  <2>4. AfterTake(Full(d)) \in Nat /\ AfterTake(Full(d)) + Unit = Full(d)
    BY <2>2, <2>3, TakeFacts
  <2>5. (passed[d] + 1) * Unit + AfterTake(Full(d)) <= Cap + Rate * now
    BY <1>0, <1>1, <2>2, <2>4, OneMore
  <2>6. QED
    BY <2>1, <2>5
<1>5. CASE Handshake(d)
  <2>1. tok'[d] = Cap /\ last'[d] = now /\ passed'[d] = 0
    BY <1>5 DEF Handshake, StartInv, TypeOK, BucketsOK
  <2>2. Rate * now \in Nat
    BY <1>0
  <2>3. QED
    BY <1>0, <2>1, <2>2
<1>6. QED
  BY <1>2, <1>3, <1>4, <1>5, BucketFrame

\* Requests that keep to the rate find a token.
LEMMA SteadyStep ==
    ASSUME TypeOK, StartInv, SteadyInv, [Next]_vars PROVE SteadyInv'
<1> SUFFICES ASSUME Rate > 0, NEW d \in Conns, steady'[d]
             PROVE  /\ delayed'[d] = 0 /\ pc'[d] \notin {"sleep", "cut"}
                    /\ passed'[d] = 0 => tok'[d] = Cap
                    /\ passed'[d] > 0 => last'[d] = lastReq'[d]
  BY DEF SteadyInv
<1>0. /\ passed[d] \in Nat /\ delayed[d] \in Nat /\ tok[d] \in Nat /\ last[d] \in Nat
      /\ now \in Nat /\ last[d] <= now
      /\ Cap \in Nat /\ Rate \in Nat /\ Unit \in Nat \ {0}
  BY CapFacts, AccessConstants DEF TypeOK, BucketsOK
<1>1. steady[d] => /\ delayed[d] = 0 /\ pc[d] \notin {"sleep", "cut"}
                   /\ passed[d] = 0 => tok[d] = Cap
                   /\ passed[d] > 0 => last[d] = lastReq[d]
  BY DEF SteadyInv
<1>2. ASSUME NEW e \in Endpoints, Request(d, e)
      PROVE  /\ delayed'[d] = 0 /\ pc'[d] \notin {"sleep", "cut"}
             /\ passed'[d] > 0 /\ last'[d] = lastReq'[d]
  <2>1. steady[d] /\ OnTime(d)
    BY <1>2 DEF Request, TypeOK, BucketsOK
  <2>2. Full(d) >= Unit
    <3>1. CASE passed[d] = 0
      BY <1>0, <1>1, <2>1, <3>1, FullFacts, CapFacts
    <3>2. CASE passed[d] > 0
      <4>1. (now - last[d]) * Rate >= Unit
        BY <1>0, <1>1, <2>1, <3>2 DEF OnTime
      <4>2. (now - last[d]) * Rate \in Nat
        BY <1>0
      <4>3. tok[d] + (now - last[d]) * Rate >= Unit
        BY <1>0, <4>1, <4>2
      <4>4. QED
        BY <1>0, <4>3, FullFacts, CapFacts
    <3>3. QED
      BY <1>0, <3>1, <3>2
  <2>3. HasToken(Full(d))
    BY <2>2 DEF HasToken
  <2>4. /\ delayed'[d] = 0 /\ pc'[d] = "dispatch" /\ passed'[d] = passed[d] + 1
        /\ last'[d] = now /\ lastReq'[d] = now
    BY <1>2, <2>3 DEF Request, To, TypeOK, BucketsOK
  <2>5. QED
    BY <1>0, <2>4
<1>3. CASE Handshake(d)
  <2>1. /\ tok'[d] = Cap /\ passed'[d] = 0 /\ delayed'[d] = 0 /\ pc'[d] = "read"
    BY <1>3 DEF Handshake, To, StartInv, TypeOK, BucketsOK
  <2>2. QED
    BY <2>1
<1>4. CASE Wake(d)
  <2>1. steady[d] /\ pc[d] = "sleep"
    BY <1>4 DEF Wake
  <2>2. QED
    BY <1>1, <2>1
<1>5. QED
  BY <1>1, <1>2, <1>3, <1>4, BucketFrame

-----------------------------------------------------------------------------
(* The buckets of the UIDs.                                                *)

\* An attempt, admitted or not, keeps the account of its UID.
LEMMA AdmissionStep ==
    ASSUME TypeOK, AdmissionInv, [Next]_vars PROVE AdmissionInv'
<1> SUFFICES ASSUME HsRate > 0, NEW u \in Uids
             PROVE  /\ admitted'[u] * Unit + uTok'[u] <= HsCap + HsRate * uLast'[u]
                    /\ u \in uNew' => admitted'[u] = 0
  BY DEF AdmissionInv
<1>0. /\ admitted[u] \in Nat /\ uTok[u] \in Nat /\ uLast[u] \in Nat /\ now \in Nat
      /\ HsCap \in Nat /\ HsRate \in Nat /\ Unit \in Nat \ {0}
  BY CapFacts, AccessConstants DEF TypeOK, UidsOK
<1>1. /\ admitted[u] * Unit + uTok[u] <= HsCap + HsRate * uLast[u]
      /\ u \in uNew => admitted[u] = 0
  BY DEF AdmissionInv
<1>2. CASE UNCHANGED uids
  BY <1>1, <1>2 DEF uids
<1>3. ASSUME NEW c \in Conns, Admit(c)
      PROVE  /\ admitted'[u] * Unit + uTok'[u] <= HsCap + HsRate * uLast'[u]
             /\ u \in uNew' => admitted'[u] = 0
  <2> DEFINE t == UidBucket(UidOf[c])
  <2>1. /\ uTok' = [uTok EXCEPT ![UidOf[c]] = AfterTake(t)]
        /\ uLast' = [uLast EXCEPT ![UidOf[c]] = now] /\ uNew' = uNew \ {UidOf[c]}
        /\ admitted' = [admitted EXCEPT ![UidOf[c]] = IF HasToken(t) THEN @ + 1 ELSE @]
    BY <1>3, <1>0 DEF Admit, UidBucket
  <2>2. CASE u # UidOf[c]
    BY <1>1, <2>1, <2>2 DEF TypeOK, UidsOK
  <2>3. CASE u = UidOf[c]
    <3>1. /\ uTok'[u] = AfterTake(t) /\ uLast'[u] = now /\ u \notin uNew'
          /\ admitted'[u] = IF HasToken(t) THEN admitted[u] + 1 ELSE admitted[u]
      BY <2>1, <2>3 DEF TypeOK, UidsOK
    <3>2. /\ t \in Nat /\ t <= HsCap
          /\ u \notin uNew => t + HsRate * uLast[u] <= uTok[u] + HsRate * now
      BY <2>3, UidFacts
    <3>3. AfterTake(t) \in Nat /\ (t >= Unit => AfterTake(t) + Unit = t)
          /\ AfterTake(t) <= t /\ (HasToken(t) <=> t >= Unit)
      BY <3>2, TakeFacts
    <3> HIDE DEF t
    <3>4. /\ HsRate * uLast[u] \in Nat /\ HsRate * now \in Nat
          /\ admitted[u] * Unit \in Nat
          /\ (admitted[u] + 1) * Unit = admitted[u] * Unit + Unit
          /\ 0 * Unit = 0
      BY <1>0
    <3>5. admitted[u] * Unit + t <= HsCap + HsRate * now
      <4>1. CASE u \in uNew
        <5>1. admitted[u] * Unit = 0
          BY <1>1, <3>4, <4>1
        <5> DEFINE z == HsRate * now
        <5>2. z \in Nat
          BY <3>4
        <5> HIDE DEF z
        <5>3. 0 + t <= HsCap + z
          BY <1>0, <3>2, <5>2
        <5>4. QED
          BY <5>1, <5>3 DEF z
      <4>2. CASE u \notin uNew
        <5>1. t + HsRate * uLast[u] <= uTok[u] + HsRate * now
          BY <3>2, <4>2
        <5> DEFINE x == admitted[u] * Unit
        <5> DEFINE y == HsRate * uLast[u]
        <5> DEFINE z == HsRate * now
        <5>2. x \in Nat /\ y \in Nat /\ z \in Nat /\ x + uTok[u] <= HsCap + y
              /\ t + y <= uTok[u] + z
          BY <1>1, <3>4, <5>1
        <5> HIDE DEF x, y, z
        <5>3. x + t <= HsCap + z
          BY <1>0, <3>2, <5>2
        <5>4. QED
          BY <5>3 DEF x, z
      <4>3. QED
        BY <4>1, <4>2
    <3>6. CASE HasToken(t)
      <4>1. admitted'[u] * Unit = admitted[u] * Unit + Unit
        BY <3>1, <3>4, <3>6
      <4>2. AfterTake(t) + Unit = t
        BY <3>3, <3>6
      <4>3. QED
        BY <1>0, <3>1, <3>2, <3>3, <3>4, <3>5, <4>1, <4>2
    <3>7. CASE ~HasToken(t)
      <4>1. admitted'[u] * Unit = admitted[u] * Unit
        BY <3>1, <3>7
      <4>2. QED
        BY <1>0, <3>1, <3>2, <3>3, <3>4, <3>5, <4>1
    <3>8. QED
      BY <3>6, <3>7
  <2>4. QED
    BY <2>2, <2>3
<1>4. CASE Tick \/ UNCHANGED vars
  BY <1>2, <1>4 DEF Tick, vars
<1>5. ASSUME NEW c \in Conns, ConnStep(c), ~Admit(c) PROVE UNCHANGED uids
  BY <1>5 DEF ConnStep, Handshake, HandshakeFails, Wake, Dispatch, Authorize, Ask,
              Request, StreamChunk, Answer
<1>6. QED
  BY <1>2, <1>3, <1>4, <1>5 DEF Next

-----------------------------------------------------------------------------
\* The limiter of handle_connection() keeps its bound on every connection, for
\* every rate, burst and disconnect_after_delayed.
THEOREM RateBounded == Spec => []RateBound
<1>1. TypeOK /\ RateInv => RateBound
  <2> SUFFICES ASSUME TypeOK, RateInv, Rate > 0, NEW c \in Conns
               PROVE  passed[c] * Unit <= Cap + Rate * now
    BY DEF RateBound
  <2>1. /\ passed[c] \in Nat /\ tok[c] \in Nat /\ last[c] \in Nat /\ now \in Nat
        /\ last[c] <= now /\ Cap \in Nat /\ Rate \in Nat /\ Unit \in Nat
    BY CapFacts, AccessConstants DEF TypeOK, BucketsOK
  <2>2. passed[c] * Unit + tok[c] <= Cap + Rate * last[c]
    BY DEF RateInv
  <2>3. Rate * last[c] <= Rate * now /\ Rate * last[c] \in Nat /\ Rate * now \in Nat
        /\ passed[c] * Unit \in Nat
    BY <2>1
  <2>4. QED
    BY <2>1, <2>2, <2>3
<1>2. QED
  BY <1>1, InitTypes, StepTypes, InitAccounts, StartStep, RateStep, PTL DEF Spec

\* The limiter of handle_connection() never delays, and never cuts off, a peer
\* that keeps one token's time between its requests.
THEOREM SteadyPeersServed == Spec => []SteadyNeverDelayed
<1>1. SteadyInv => SteadyNeverDelayed
  BY DEF SteadyInv, SteadyNeverDelayed
<1>2. QED
  BY <1>1, InitTypes, StepTypes, InitAccounts, StartStep, SteadyStep, PTL DEF Spec

\* admit_connection() bounds the handshakes of one UID over all its connections.
THEOREM AdmissionBounded == Spec => []AdmissionBound
<1>1. TypeOK /\ AdmissionInv => AdmissionBound
  <2> SUFFICES ASSUME TypeOK, AdmissionInv, HsRate > 0, NEW u \in Uids
               PROVE  admitted[u] * Unit <= HsCap + HsRate * now
    BY DEF AdmissionBound
  <2>1. /\ admitted[u] \in Nat /\ uTok[u] \in Nat /\ uLast[u] \in Nat /\ now \in Nat
        /\ uLast[u] <= now /\ HsCap \in Nat /\ HsRate \in Nat /\ Unit \in Nat
    BY CapFacts, AccessConstants DEF TypeOK, UidsOK
  <2>2. admitted[u] * Unit + uTok[u] <= HsCap + HsRate * uLast[u]
    BY DEF AdmissionInv
  <2>3. HsRate * uLast[u] <= HsRate * now /\ HsRate * uLast[u] \in Nat
        /\ HsRate * now \in Nat /\ admitted[u] * Unit \in Nat
    BY <2>1
  <2>4. QED
    BY <2>1, <2>2, <2>3
<1>2. QED
  BY <1>1, InitTypes, StepTypes, InitAccounts, AdmissionStep, PTL DEF Spec

-----------------------------------------------------------------------------
(* The answers of the user.                                                *)

\* Steps that decide nothing leave the answers where they are.
LEMMA AnswersFrame ==
    ASSUME AnswersInv, UNCHANGED authz, PromptInv' PROVE AnswersInv'
BY DEF AnswersInv, DecisionsInv, AnswersConfined, authz

\* Only Ask leads to a prompt, and it asks about what is undecided.
LEMMA PromptStep ==
    ASSUME TypeOK, PromptInv, NEW c \in Conns, UNCHANGED authz,
           \/ cur' = cur /\ (To(c, "shake") \/ To(c, "closed") \/ To(c, "read")
                             \/ To(c, "dispatch"))
           \/ Ask(c)
           \/ \E e \in Endpoints : cur' = [cur EXCEPT ![c] = {e}]
                /\ (To(c, "dispatch") \/ To(c, "sleep") \/ To(c, "cut"))
    PROVE  PromptInv'
<1>1. CASE cur' = cur /\ (To(c, "shake") \/ To(c, "closed") \/ To(c, "read")
                          \/ To(c, "dispatch"))
  BY <1>1 DEF PromptInv, To, TypeOK, Cached, authz
<1>2. CASE Ask(c)
  <2>1. cur' = cur /\ To(c, "prompt") /\ \A e \in cur[c] : ~Cached(c, e)
    BY <1>2 DEF Ask, PromptInv
  <2>2. QED
    BY <2>1 DEF PromptInv, To, TypeOK, Cached, authz
<1>3. ASSUME NEW e \in Endpoints, cur' = [cur EXCEPT ![c] = {e}],
             To(c, "dispatch") \/ To(c, "sleep") \/ To(c, "cut")
      PROVE  PromptInv'
  <2>1. pc'[c] # "prompt" /\ cur'[c] = {e}
    BY <1>3 DEF To, TypeOK
  <2>2. \A x \in Conns : x # c => pc'[x] = pc[x] /\ cur'[x] = cur[x]
    BY <1>3 DEF To, TypeOK
  <2>3. cache' = cache
    BY DEF authz
  <2>4. QED
    BY <2>1, <2>2, <2>3 DEF PromptInv, Cached
<1>4. QED
  BY <1>1, <1>2, <1>3

\* A decision taken from the tier or from the file.
LEMMA AuthorizeStep ==
    ASSUME TypeOK, AnswersInv, NEW c \in Conns, Authorize(c) PROVE AnswersInv'
<1>1. PICK e \in cur[c] :
         /\ ~Cached(c, e) /\ Tier[e] # "Absent"
         /\ \/ Tier[e] # "PromptUser" /\ Caches(c, e, Allows(PeerOf[c], e))
            \/ /\ Tier[e] = "PromptUser"
               /\ decisions[PeerOf[c]][e] # {} \/ ~HasPrompt
               /\ Caches(c, e, TRUE \in decisions[PeerOf[c]][e])
  BY DEF Authorize
<1>2. /\ To(c, "read") /\ cur' = cur /\ decisions' = decisions /\ own' = own
      /\ said' = said
  BY DEF Authorize
<1>3. e \in Endpoints /\ PeerOf[c] \in Peers
  BY AccessConstants DEF TypeOK
<1>4. PICK ok \in BOOLEAN :
         /\ Caches(c, e, ok)
         /\ Tier[e] = "PromptUser" =>
               /\ ok <=> TRUE \in decisions[PeerOf[c]][e]
               /\ decisions[PeerOf[c]][e] # {} \/ ~HasPrompt
  <2>1. ASSUME Tier[e] # "PromptUser" PROVE Caches(c, e, TRUE) \/ Caches(c, e, FALSE)
    <3>1. Caches(c, e, Allows(PeerOf[c], e))
      BY <1>1, <2>1
    <3>2. CASE Allows(PeerOf[c], e)
      BY <3>1, <3>2 DEF Caches
    <3>3. CASE ~Allows(PeerOf[c], e)
      BY <3>1, <3>3 DEF Caches
    <3>4. QED
      BY <3>2, <3>3
  <2>2. ASSUME Tier[e] = "PromptUser"
        PROVE  /\ Caches(c, e, TRUE \in decisions[PeerOf[c]][e])
               /\ decisions[PeerOf[c]][e] # {} \/ ~HasPrompt
    BY <1>1, <2>2
  <2>3. CASE Tier[e] # "PromptUser"
    BY <2>1, <2>3
  <2>4. CASE Tier[e] = "PromptUser" /\ TRUE \in decisions[PeerOf[c]][e]
    <3>1. Caches(c, e, TRUE)
      BY <2>2, <2>4 DEF Caches
    <3>2. QED
      BY <2>2, <2>4, <3>1
  <2>5. CASE Tier[e] = "PromptUser" /\ TRUE \notin decisions[PeerOf[c]][e]
    <3>1. Caches(c, e, FALSE)
      BY <2>2, <2>5 DEF Caches
    <3>2. QED
      BY <2>2, <2>5, <3>1
  <2>6. QED
    BY <2>3, <2>4, <2>5
<1>5. /\ \A x \in Conns : x # c => cache'[x] = cache[x]
      /\ cache'[c].allow = IF ok THEN cache[c].allow \cup {e} ELSE cache[c].allow
      /\ cache'[c].deny = IF ok THEN cache[c].deny ELSE cache[c].deny \cup {e}
  BY <1>4 DEF Caches, TypeOK, AuthzOK
<1>6. DecisionsInv'
  BY <1>2 DEF AnswersInv, DecisionsInv
<1>7. PromptInv'
  <2>1. \A x \in Conns : x # c => pc'[x] = pc[x]
    BY <1>2 DEF To, TypeOK
  <2>2. pc'[c] = "read"
    BY <1>2 DEF To, TypeOK
  <2>3. QED
    BY <1>2, <1>5, <2>1, <2>2 DEF AnswersInv, PromptInv, Cached
<1>8. Tier[e] = "PromptUser" /\ ok =>
         [peer |-> PeerOf[c], endpoint |-> e, answer |-> "AlwaysAllow"] \in said
  BY <1>3, <1>4 DEF AnswersInv, DecisionsInv
<1>9. Tier[e] = "PromptUser" /\ ~ok =>
         \/ ~HasPrompt
         \/ [peer |-> PeerOf[c], endpoint |-> e, answer |-> "Deny"] \in said
  <2> SUFFICES ASSUME Tier[e] = "PromptUser", ~ok, HasPrompt
               PROVE  [peer |-> PeerOf[c], endpoint |-> e, answer |-> "Deny"] \in said
    OBVIOUS
  <2>1. decisions[PeerOf[c]][e] \in SUBSET BOOLEAN
    BY <1>3 DEF TypeOK, AuthzOK
  <2>2. FALSE \in decisions[PeerOf[c]][e]
    BY <1>4, <2>1
  <2>3. QED
    BY <1>3, <2>2 DEF AnswersInv, DecisionsInv
<1>10. AnswersConfined'
  <2> SUFFICES ASSUME NEW x \in Conns, NEW f \in Endpoints, Tier[f] = "PromptUser"
               PROVE  /\ f \in cache'[x].allow =>
                            \/ \E a \in own[x] : a.endpoint = f /\ a.answer # "Deny"
                            \/ [peer |-> PeerOf[x], endpoint |-> f,
                                answer |-> "AlwaysAllow"] \in said
                      /\ f \in cache'[x].deny =>
                            \/ ~HasPrompt
                            \/ [peer |-> PeerOf[x], endpoint |-> f,
                                answer |-> "Deny"] \in said
                      /\ f \notin cache'[x].allow \cap cache'[x].deny
    BY <1>2 DEF AnswersConfined
  <2>1. CASE x # c \/ f # e
    BY <1>5, <2>1 DEF AnswersInv, AnswersConfined
  <2>2. CASE x = c /\ f = e
    BY <1>1, <1>5, <1>8, <1>9, <2>2 DEF Cached
  <2>3. QED
    BY <2>1, <2>2
<1>11. QED
  BY <1>6, <1>7, <1>10 DEF AnswersInv

\* The user's answer.
LEMMA AnswerStep ==
    ASSUME TypeOK, AnswersInv, NEW c \in Conns, NEW d \in Decision, Answer(c, d)
    PROVE  AnswersInv'
<1>1. PICK e \in cur[c] :
         /\ Caches(c, e, d # "Deny")
         /\ decisions' = IF ~Records(d) THEN decisions
                         ELSE [decisions EXCEPT ![PeerOf[c]][e] = {d # "Deny"}]
         /\ own' = [own EXCEPT ![c] = @ \cup {[endpoint |-> e, answer |-> d]}]
         /\ said' = said \cup {[peer |-> PeerOf[c], endpoint |-> e, answer |-> d]}
  BY DEF Answer
<1>2. To(c, "read") /\ cur' = cur /\ pc[c] = "prompt"
  BY DEF Answer
<1>3. e \in Endpoints /\ PeerOf[c] \in Peers /\ ~Cached(c, e)
  BY <1>2, AccessConstants DEF TypeOK, AnswersInv, PromptInv
<1>4. PICK ok \in BOOLEAN : ok = (d # "Deny")
  OBVIOUS
<1>5. /\ \A x \in Conns : x # c => cache'[x] = cache[x] /\ own'[x] = own[x]
      /\ cache'[c].allow = IF ok THEN cache[c].allow \cup {e} ELSE cache[c].allow
      /\ cache'[c].deny = IF ok THEN cache[c].deny ELSE cache[c].deny \cup {e}
      /\ own'[c] = own[c] \cup {[endpoint |-> e, answer |-> d]}
  BY <1>1, <1>4 DEF Caches, TypeOK, AuthzOK
<1>6. DecisionsInv'
  <2> SUFFICES ASSUME NEW p \in Peers, NEW f \in Endpoints
               PROVE  /\ TRUE \in decisions'[p][f] =>
                            [peer |-> p, endpoint |-> f,
                             answer |-> "AlwaysAllow"] \in said'
                      /\ FALSE \in decisions'[p][f] =>
                            [peer |-> p, endpoint |-> f, answer |-> "Deny"] \in said'
    BY DEF DecisionsInv
  <2>1. said \subseteq said'
    BY <1>1
  <2>2. CASE decisions'[p][f] = decisions[p][f]
    BY <2>1, <2>2 DEF AnswersInv, DecisionsInv
  <2>3. CASE decisions'[p][f] # decisions[p][f]
    <3>1. p = PeerOf[c] /\ f = e /\ Records(d) /\ decisions'[p][f] = {d # "Deny"}
      BY <1>1, <1>3, <2>3 DEF TypeOK, AuthzOK
    <3>2. CASE d = "Deny"
      BY <1>1, <3>1, <3>2
    <3>3. CASE d # "Deny"
      BY <1>1, <3>1, <3>3 DEF Records
    <3>4. QED
      BY <3>2, <3>3
  <2>4. QED
    BY <2>2, <2>3
<1>7. PromptInv'
  <2>1. \A x \in Conns : x # c => pc'[x] = pc[x]
    BY <1>2 DEF To, TypeOK
  <2>2. pc'[c] = "read"
    BY <1>2 DEF To, TypeOK
  <2>3. QED
    BY <1>2, <1>5, <2>1, <2>2 DEF AnswersInv, PromptInv, Cached
<1>8. AnswersConfined'
  <2> SUFFICES ASSUME NEW x \in Conns, NEW f \in Endpoints, Tier[f] = "PromptUser"
               PROVE  /\ f \in cache'[x].allow =>
                            \/ \E a \in own'[x] : a.endpoint = f /\ a.answer # "Deny"
                            \/ [peer |-> PeerOf[x], endpoint |-> f,
                                answer |-> "AlwaysAllow"] \in said'
                      /\ f \in cache'[x].deny =>
                            \/ ~HasPrompt
                            \/ [peer |-> PeerOf[x], endpoint |-> f,
                                answer |-> "Deny"] \in said'
                      /\ f \notin cache'[x].allow \cap cache'[x].deny
    BY DEF AnswersConfined
  <2>1. said \subseteq said' /\ own[x] \subseteq own'[x]
    BY <1>1, <1>5
  <2>2. CASE x # c \/ f # e
    BY <1>5, <2>1, <2>2 DEF AnswersInv, AnswersConfined
  <2>3. CASE x = c /\ f = e /\ ok
    <3>1. \E a \in own'[x] : a.endpoint = f /\ a.answer # "Deny"
      <4> DEFINE a == [endpoint |-> e, answer |-> d]
      <4>1. a \in own'[x] /\ a.endpoint = f /\ a.answer # "Deny"
        BY <1>4, <1>5, <2>3
      <4>2. QED
        BY <4>1
    <3>2. f \notin cache'[x].deny
      BY <1>3, <1>5, <2>3 DEF Cached
    <3>3. QED
      BY <3>1, <3>2
  <2>4. CASE x = c /\ f = e /\ ~ok
    <3>1. [peer |-> PeerOf[x], endpoint |-> f, answer |-> "Deny"] \in said'
      BY <1>1, <1>4, <2>4
    <3>2. f \notin cache'[x].allow
      BY <1>3, <1>5, <2>4 DEF Cached
    <3>3. QED
      BY <3>1, <3>2
  <2>5. QED
    BY <2>2, <2>3, <2>4
<1>9. QED
  BY <1>6, <1>7, <1>8 DEF AnswersInv

\* Every step keeps the answers where they belong.
LEMMA AnswersStep ==
    ASSUME TypeOK, AnswersInv, [Next]_vars PROVE AnswersInv'
<1>1. CASE Tick \/ UNCHANGED vars
  BY <1>1 DEF Tick, vars, authz, AnswersInv, DecisionsInv, PromptInv, AnswersConfined,
              Cached
<1>2. ASSUME NEW c \in Conns, ConnStep(c) PROVE AnswersInv'
  <2>1. PromptInv
    BY DEF AnswersInv
  <2>2. CASE Admit(c) \/ Dispatch(c)
    BY <2>1, <2>2, AnswersFrame, PromptStep DEF Admit, Dispatch
  <2>3. CASE Handshake(c) \/ HandshakeFails(c)
    <3>1. /\ UNCHANGED <<cur, decisions, cache, own, said>>
          /\ pc'[c] \in {"read", "closed"} /\ \A x \in Conns : x # c => pc'[x] = pc[x]
      BY <2>3 DEF Handshake, HandshakeFails, To, TypeOK
    <3>2. DecisionsInv' /\ AnswersConfined'
      BY <3>1 DEF AnswersInv, DecisionsInv, AnswersConfined
    <3>3. PromptInv'
      BY <2>1, <3>1 DEF PromptInv, Cached
    <3>4. QED
      BY <3>2, <3>3 DEF AnswersInv
  <2>4. CASE Wake(c)
    BY <2>1, <2>4, AnswersFrame, PromptStep DEF Wake
  <2>5. CASE Ask(c)
    BY <2>1, <2>5, AnswersFrame, PromptStep DEF Ask
  <2>6. ASSUME NEW e \in Endpoints, Request(c, e) \/ StreamChunk(c, e)
        PROVE  AnswersInv'
    <3>1. /\ cur' = [cur EXCEPT ![c] = {e}] /\ UNCHANGED authz
          /\ To(c, "dispatch") \/ To(c, "sleep") \/ To(c, "cut")
      BY <2>6 DEF Request, StreamChunk
    <3>2. QED
      BY <2>1, <3>1, AnswersFrame, PromptStep
  <2>7. QED
    BY <1>2, <2>2, <2>3, <2>4, <2>5, <2>6, AuthorizeStep, AnswerStep DEF ConnStep
<1>3. QED
  BY <1>1, <1>2 DEF Next

\* authorize(): an AllowOnce stays with the connection that asked, and nothing but a Deny
\* or nobody to ask keeps a peer out of a PromptUser endpoint.
THEOREM AnswersStayConfined == Spec => []AnswersConfined
<1>1. Init => AnswersInv
  BY DEF Init, AnswersInv, DecisionsInv, PromptInv, AnswersConfined
<1>2. AnswersInv => AnswersConfined
  BY DEF AnswersInv
<1>3. QED
  BY <1>1, <1>2, InitTypes, StepTypes, AnswersStep, PTL DEF Spec
=============================================================================
