------------------------------- MODULE Access -------------------------------
(***************************************************************************)
(* What a Host lets its peers do: the per-UID cap on handshakes, the trust *)
(* decision of the handshake, the request rate limit of a connection, and  *)
(* the per-endpoint authorization with its four tiers, its per-connection  *)
(* cache and its file of recorded decisions.  Every connection thread runs *)
(* its own copy of the path; the buckets of the UIDs, the file of known    *)
(* clients and the file of decisions are shared.                           *)
(*                                                                         *)
(* Time is counted in ticks and a token in Unit credits, so that a rate is *)
(* a whole number of credits per tick and the arithmetic is exact.  What   *)
(* an endpoint's handler does is left out.                                 *)
(***************************************************************************)
EXTENDS Naturals, FiniteSets

CONSTANTS
    Conns, Peers, Endpoints,
    PeerOf,           \* the peer behind each connection
    Uids, UidOf,      \* OS users, and the one behind each connection
    Tier,             \* each endpoint's AccessTier, "Absent" if not exposed
    HostPolicy,       \* the Host's TrustPolicy
    AllowedPeers,     \* keys given to allow_peer
    Creds,            \* loaded credentials of trusted issuers: peer, the
                      \* endpoints in scope, last tick of validity (0: none)
    HasPrompt,        \* a prompt callback is registered
    Unit,             \* credits that make one token
    Rate, Burst,      \* max_requests_per_sec (0: no limit), request_burst
    HsRate, HsBurst,  \* handshakes_per_uid_per_sec, handshake_burst
    DisconnectAfter,  \* disconnect_after_delayed
    MaxTime           \* bound: ticks

Tiers == {"Absent", "Open", "PinnedPeers", "Certificate", "PromptUser"}
Decision == {"Deny", "AllowOnce", "AlwaysAllow"}

ASSUME AccessConstants ==
    /\ PeerOf \in [Conns -> Peers] /\ UidOf \in [Conns -> Uids]
    /\ Tier \in [Endpoints -> Tiers]
    /\ HostPolicy \in {"AllowAll", "RequireKnownPeer", "TrustOnFirstUse"}
    /\ AllowedPeers \subseteq Peers /\ HasPrompt \in BOOLEAN
    /\ Unit \in Nat \ {0} /\ Rate \in Nat /\ Burst \in Nat
    /\ HsRate \in Nat /\ HsBurst \in Nat
    /\ DisconnectAfter \in Nat /\ MaxTime \in Nat

ASSUME CredsConstants ==
    \A cr \in Creds : cr.peer \in Peers /\ cr.scope \subseteq Endpoints
                      /\ cr.expires \in Nat

VARIABLES
    now,              \* the steady clock
    pc, cur,          \* each connection thread, and the endpoint asked for
    tok, last,        \* req_bucket: credits, and when it was last refilled
    delayed,          \* delayed_in_a_row
    uTok, uLast,      \* uid_buckets
    uNew,             \* UIDs without a bucket yet
    known,            \* the known_clients file
    decisions,        \* the .decisions file: the verdict of the last line
    cache,            \* authz_cache: the endpoints decided, by verdict
    \* ---- history ----
    passed,           \* requests the limiter let through
    admitted,         \* handshakes admitted, per UID
    lastReq, steady,  \* last request, and whether all kept to the rate so far
    own, said         \* prompt answers, per connection and of all

buckets == <<tok, last, delayed, passed, lastReq, steady>>
uids    == <<uTok, uLast, uNew, admitted>>
authz   == <<known, decisions, cache, own, said>>
vars    == <<now, pc, cur, buckets, uids, authz>>

AtLeastOne(n) == IF n > 0 THEN n ELSE 1
Cap   == Unit * AtLeastOne(Burst)
HsCap == Unit * AtLeastOne(HsBurst)

Init ==
    /\ now = 0
    /\ pc = [c \in Conns |-> "off"] /\ cur = [c \in Conns |-> {}]
    /\ tok = [c \in Conns |-> Cap] /\ last = [c \in Conns |-> 0]
    /\ delayed = [c \in Conns |-> 0] /\ passed = [c \in Conns |-> 0]
    /\ lastReq = [c \in Conns |-> 0] /\ steady = [c \in Conns |-> TRUE]
    /\ uTok = [u \in Uids |-> HsCap] /\ uLast = [u \in Uids |-> 0]
    /\ uNew = Uids /\ admitted = [u \in Uids |-> 0]
    /\ known = {} /\ decisions = [p \in Peers |-> [e \in Endpoints |-> {}]]
    /\ cache = [c \in Conns |-> [allow |-> {}, deny |-> {}]]
    /\ own = [c \in Conns |-> {}] /\ said = {}

-----------------------------------------------------------------------------
(* TokenBucket.                                                            *)

\* Mutant: a refill is not capped at the burst.
RefillUncapped(t, since, rate, cap) == t + (now - since) * rate

\* Mutant: the tick a refill falls into is never credited.
RefillLosesTick(t, since, rate, cap) ==
    LET ticks == IF now > since THEN now - since - 1 ELSE 0
    IN  IF t + ticks * rate < cap THEN t + ticks * rate ELSE cap

\* refill(), for a bucket last refilled at since.
Refill(t, since, rate, cap) ==
    IF t + (now - since) * rate < cap THEN t + (now - since) * rate ELSE cap

HasToken(t) == t >= Unit

\* What try_take() leaves in a bucket that was just refilled.
AfterTake(t) == IF HasToken(t) THEN t - Unit ELSE t

-----------------------------------------------------------------------------
(* Admission and handshake.                                                *)

To(c, to) == pc' = [pc EXCEPT ![c] = to]

\* Mutant: the UID's bucket is made anew for every attempt.
AdmitFresh(c) ==
    LET u == UidOf[c]
        t == HsCap
    IN  /\ pc[c] = "off"
        /\ uTok' = [uTok EXCEPT ![u] = AfterTake(t)]
        /\ uLast' = [uLast EXCEPT ![u] = now] /\ uNew' = uNew \ {u}
        /\ admitted' = [admitted EXCEPT ![u] = IF HasToken(t) THEN @ + 1 ELSE @]
        /\ To(c, IF HasToken(t) THEN "shake" ELSE "closed")
        /\ UNCHANGED <<now, cur, buckets, authz>>

\* admit_connection(): a bucket is made full at the UID's first attempt; an
\* attempt without a token is closed before the handshake.
Admit(c) ==
    LET u == UidOf[c]
        t == IF u \in uNew THEN HsCap ELSE Refill(uTok[u], uLast[u], HsRate, HsCap)
    IN  /\ pc[c] = "off"
        /\ IF HsRate = 0 THEN To(c, "shake") /\ UNCHANGED uids
           ELSE /\ uTok' = [uTok EXCEPT ![u] = AfterTake(t)]
                /\ uLast' = [uLast EXCEPT ![u] = now] /\ uNew' = uNew \ {u}
                /\ admitted' = [admitted EXCEPT ![u] = IF HasToken(t) THEN @ + 1 ELSE @]
                /\ To(c, IF HasToken(t) THEN "shake" ELSE "closed")
        /\ UNCHANGED <<now, cur, buckets, authz>>

\* is_trusted().
Trusted(p) == p \in AllowedPeers \/ HostPolicy # "RequireKnownPeer"

\* is_trusted records a first-seen client under TrustOnFirstUse.
Recorded(p) == IF HostPolicy = "TrustOnFirstUse" /\ p \notin AllowedPeers
               THEN known \cup {p} ELSE known

\* The handshake succeeds, and the connection gets a full bucket.
Handshake(c) ==
    LET p == PeerOf[c]
    IN  /\ pc[c] = "shake" /\ Trusted(p)
        /\ known' = Recorded(p)
        /\ tok' = [tok EXCEPT ![c] = Cap] /\ last' = [last EXCEPT ![c] = now]
        /\ To(c, "read")
        /\ UNCHANGED <<now, cur, delayed, passed, lastReq, steady, uids, decisions,
                       cache, own, said>>

\* Not trusted, or the peer went away or silent; it may have been recorded
\* before the ack could not be written.
HandshakeFails(c) ==
    /\ pc[c] = "shake"
    /\ known' \in {known} \cup {Recorded(p) : p \in {q \in {PeerOf[c]} : Trusted(q)}}
    /\ To(c, "closed")
    /\ UNCHANGED <<now, cur, buckets, uids, decisions, cache, own, said>>

-----------------------------------------------------------------------------
(* A request: the rate limit.                                              *)

Full(c) == Refill(tok[c], last[c], Rate, Cap)

\* Whether this request came no earlier than one token after the one before.
OnTime(c) == passed[c] + delayed[c] = 0 \/ (now - lastReq[c]) * Rate >= Unit

Request(c, e) ==
    /\ pc[c] = "read"
    /\ cur' = [cur EXCEPT ![c] = {e}]
    /\ lastReq' = [lastReq EXCEPT ![c] = now]
    /\ steady' = [steady EXCEPT ![c] = steady[c] /\ OnTime(c)]
    /\ IF Rate = 0
       THEN /\ passed' = [passed EXCEPT ![c] = @ + 1]
            /\ To(c, "dispatch")
            /\ UNCHANGED <<tok, last, delayed>>
       ELSE /\ tok' = [tok EXCEPT ![c] = AfterTake(Full(c))]
            /\ last' = [last EXCEPT ![c] = now]
            /\ IF HasToken(Full(c))
               THEN /\ delayed' = [delayed EXCEPT ![c] = 0]
                    /\ passed' = [passed EXCEPT ![c] = @ + 1]
                    /\ To(c, "dispatch")
               ELSE /\ delayed' = [delayed EXCEPT ![c] = @ + 1]
                    /\ To(c, IF delayed[c] + 1 > DisconnectAfter THEN "cut"
                             ELSE "sleep")
                    /\ UNCHANGED passed
    /\ UNCHANGED <<now, uids, authz>>

\* Mutant: the thread wakes up when it likes.
WakeEarly(c) ==
    /\ pc[c] = "sleep"
    /\ tok' = [tok EXCEPT ![c] = AfterTake(Full(c))]
    /\ last' = [last EXCEPT ![c] = now]
    /\ passed' = [passed EXCEPT ![c] = @ + 1]
    /\ To(c, "dispatch")
    /\ UNCHANGED <<now, cur, delayed, lastReq, steady, uids, authz>>

\* The sleep of seconds_until_token() is over, or has lasted longer.  Whether
\* the second try_take() got its token is not looked at.
Wake(c) ==
    /\ pc[c] = "sleep"
    /\ tok[c] + (now - last[c]) * Rate >= Unit
    /\ tok' = [tok EXCEPT ![c] = AfterTake(Full(c))]
    /\ last' = [last EXCEPT ![c] = now]
    /\ passed' = [passed EXCEPT ![c] = @ + 1]
    /\ To(c, "dispatch")
    /\ UNCHANGED <<now, cur, delayed, lastReq, steady, uids, authz>>

\* A chunk for a StreamReceive endpoint is not rate limited.
StreamChunk(c, e) ==
    /\ pc[c] = "read"
    /\ cur' = [cur EXCEPT ![c] = {e}]
    /\ To(c, "dispatch")
    /\ UNCHANGED <<now, buckets, uids, authz>>

-----------------------------------------------------------------------------
(* A request: the authorization.                                           *)

Cached(c, e) == e \in cache[c].allow \cup cache[c].deny

\* conn_cache[endpoint] = allowed.
Caches(c, e, ok) ==
    cache' = [cache EXCEPT ![c] = [allow |-> IF ok THEN @.allow \cup {e} ELSE @.allow,
                                   deny  |-> IF ok THEN @.deny ELSE @.deny \cup {e}]]

\* credentials::covers, for the credentials of trusted issuers.
Covered(p, e) == \E cr \in Creds :
    cr.peer = p /\ e \in cr.scope /\ (cr.expires = 0 \/ now <= cr.expires)

\* The tiers that need nobody's answer.
Allows(p, e) ==
    \/ Tier[e] = "Open"
    \/ Tier[e] = "PinnedPeers" /\ p \in AllowedPeers \cup known
    \/ Tier[e] = "Certificate" /\ Covered(p, e)

\* No such endpoint, or a decision of this connection that stands: back to the
\* loop, with or without running the handler.
Dispatch(c) ==
    /\ pc[c] = "dispatch"
    /\ \A e \in cur[c] : Tier[e] = "Absent" \/ Cached(c, e)
    /\ To(c, "read")
    /\ UNCHANGED <<now, cur, buckets, uids, authz>>

\* authorize() without a prompt: by the tier, by the line in the file, or, with
\* no line and nobody to ask, no.
Authorize(c) ==
    /\ pc[c] = "dispatch"
    /\ \E e \in cur[c] :
          /\ ~Cached(c, e) /\ Tier[e] # "Absent"
          /\ \/ /\ Tier[e] # "PromptUser"
                /\ Caches(c, e, Allows(PeerOf[c], e))
             \/ /\ Tier[e] = "PromptUser"
                /\ decisions[PeerOf[c]][e] # {} \/ ~HasPrompt
                /\ Caches(c, e, TRUE \in decisions[PeerOf[c]][e])
    /\ To(c, "read")
    /\ UNCHANGED <<now, cur, buckets, uids, known, decisions, own, said>>

\* No line in the file: the user is asked, with no lock held.
Ask(c) ==
    /\ pc[c] = "dispatch" /\ HasPrompt
    /\ \E e \in cur[c] : /\ ~Cached(c, e) /\ Tier[e] = "PromptUser"
                         /\ decisions[PeerOf[c]][e] = {}
    /\ To(c, "prompt")
    /\ UNCHANGED <<now, cur, buckets, uids, authz>>

\* Mutant: every answer is recorded.
RecordsAll(d) == TRUE

\* Which answers save_authz_decision() gets.
Records(d) == d \in {"AlwaysAllow", "Deny"}

\* The user answers.  A line is appended even if there is one by now: the
\* last line of the file wins.
Answer(c, d) ==
    /\ pc[c] = "prompt"
    /\ \E e \in cur[c] :
          /\ Caches(c, e, d # "Deny")
          /\ decisions' = IF ~Records(d) THEN decisions
                          ELSE [decisions EXCEPT ![PeerOf[c]][e] = {d # "Deny"}]
          /\ own' = [own EXCEPT ![c] = @ \cup {[endpoint |-> e, answer |-> d]}]
          /\ said' = said \cup {[peer |-> PeerOf[c], endpoint |-> e, answer |-> d]}
    /\ To(c, "read")
    /\ UNCHANGED <<now, cur, buckets, uids, known>>

Tick ==
    /\ now < MaxTime
    /\ now' = now + 1
    /\ UNCHANGED <<pc, cur, buckets, uids, authz>>

-----------------------------------------------------------------------------
ConnStep(c) ==
    \/ Admit(c) \/ Handshake(c) \/ HandshakeFails(c) \/ Wake(c)
    \/ Dispatch(c) \/ Authorize(c) \/ Ask(c)
    \/ \E e \in Endpoints : Request(c, e) \/ StreamChunk(c, e)
    \/ \E d \in Decision : Answer(c, d)

Next == Tick \/ \E c \in Conns : ConnStep(c)

Spec == Init /\ [][Next]_vars

-----------------------------------------------------------------------------
(* Properties.                                                             *)

BucketsOK ==
    /\ tok \in [Conns -> Nat] /\ last \in [Conns -> Nat]
    /\ delayed \in [Conns -> Nat] /\ passed \in [Conns -> Nat]
    /\ lastReq \in [Conns -> Nat] /\ steady \in [Conns -> BOOLEAN]
    /\ \A c \in Conns : tok[c] <= Cap /\ last[c] <= now /\ lastReq[c] <= now

UidsOK ==
    /\ uTok \in [Uids -> Nat] /\ uLast \in [Uids -> Nat] /\ uNew \in SUBSET Uids
    /\ admitted \in [Uids -> Nat]
    /\ \A u \in Uids : uTok[u] <= HsCap /\ uLast[u] <= now

AuthzOK ==
    /\ known \in SUBSET Peers
    /\ decisions \in [Peers -> [Endpoints -> SUBSET BOOLEAN]]
    /\ cache \in [Conns -> [allow : SUBSET Endpoints, deny : SUBSET Endpoints]]
    /\ own \in [Conns -> SUBSET [endpoint : Endpoints, answer : Decision]]
    /\ said \in SUBSET [peer : Peers, endpoint : Endpoints, answer : Decision]

\* Types, and no bucket ever holds more than its burst.
TypeOK ==
    /\ now \in Nat
    /\ pc \in [Conns -> {"off", "shake", "read", "sleep", "dispatch", "prompt",
                         "cut", "closed"}]
    /\ cur \in [Conns -> SUBSET Endpoints]
    /\ BucketsOK /\ UidsOK /\ AuthzOK

\* Over any connection's life the limiter lets through no more requests than
\* the burst and one per token earned since, although a delayed request is
\* served whether or not it got the token it slept for.
RateBound == Rate > 0 =>
    \A c \in Conns : passed[c] * Unit <= Cap + Rate * now

\* A peer that keeps one token's time between its requests is never delayed
\* and never cut off.
SteadyNeverDelayed == Rate > 0 =>
    \A c \in Conns : steady[c] => delayed[c] = 0 /\ pc[c] \notin {"sleep", "cut"}

\* All connections of one UID together get no more handshakes than the burst
\* and one per token earned.
AdmissionBound == HsRate > 0 =>
    \A u \in Uids : admitted[u] * Unit <= HsCap + HsRate * now

\* A connection is let into a PromptUser endpoint by an answer of its own, or
\* because some connection of the same peer was answered AlwaysAllow: what
\* AllowOnce allowed stays with the connection that asked.  It is kept out
\* only by a Deny, or because nobody could be asked.
AnswersConfined ==
    \A c \in Conns, e \in Endpoints : Tier[e] = "PromptUser" =>
        /\ e \in cache[c].allow =>
              \/ \E a \in own[c] : a.endpoint = e /\ a.answer # "Deny"
              \/ [peer |-> PeerOf[c], endpoint |-> e, answer |-> "AlwaysAllow"] \in said
        /\ e \in cache[c].deny =>
              \/ ~HasPrompt
              \/ [peer |-> PeerOf[c], endpoint |-> e, answer |-> "Deny"] \in said
        /\ e \notin cache[c].allow \cap cache[c].deny
=============================================================================
