--------------------------- MODULE HostLifecycle ---------------------------
(***************************************************************************)
(* The life of one Host object: run(), the accept thread, one thread per   *)
(* connection, the heartbeat thread, and stop() as it is called by any     *)
(* number of application threads, directly or out of wait_until_stopped(). *)
(* stop() is one action per phase, because between any two of them the     *)
(* other threads go on.                                                    *)
(*                                                                         *)
(* A connection's traffic is abstracted to what shutdown depends on: the   *)
(* handshake, a request that is answered, a subscription, and whether a    *)
(* write to the peer can make progress.                                    *)
(***************************************************************************)
EXTENDS Naturals, FiniteSets

CONSTANTS
    Threads,      \* application threads that may call stop() or wait
    Conns,        \* clients that may connect, each once
    Stuck,        \* clients that may stop draining their socket
    SendTimeout,  \* limits.stream_write_timeout_ms > 0
    MaxRuns       \* bound: calls of run() that start the host

ASSUME LifecycleConstants ==
    /\ Stuck \subseteq Conns
    /\ SendTimeout \in BOOLEAN /\ MaxRuns \in Nat

VARIABLES
    running, stopRequested, runs,
    listener,     \* "none", "open", "closed"
    registered,   \* the registry entry is published
    apc, held,    \* accept thread; the connection it holds: {} or {c}
    live,         \* live_conns
    cpc,          \* each connection: from the backlog to its thread's end
    cOpen,        \* connections whose host end is open
    peerOpen,     \* connections whose client end is open
    draining,     \* clients that read what they are sent: writes do not block
    alive,        \* ConnState::alive
    subs,         \* the topic's subscribers
    mySubs,       \* connections whose own list holds a subscription
    tmu, todo,    \* TopicHandle::Impl::mu and the holder's remaining loop
    hpc,          \* heartbeat thread
    st            \* where each application thread is in stop()

connVars  == <<live, cpc, cOpen, peerOpen, draining, alive, mySubs>>
topicVars == <<subs, tmu, todo>>
vars == <<running, stopRequested, runs, listener, registered, apc, held,
          connVars, topicVars, hpc, st>>

Init ==
    /\ running = FALSE /\ stopRequested = FALSE /\ runs = 0
    /\ listener = "none" /\ registered = FALSE
    /\ apc = "none" /\ held = {} /\ live = {}
    /\ cpc = [c \in Conns |-> "off"] /\ cOpen = {} /\ peerOpen = {}
    /\ draining = Conns
    /\ alive = {} /\ subs = {} /\ mySubs = {}
    /\ tmu = "free" /\ todo = {} /\ hpc = "none"
    /\ st = [t \in Threads |-> "idle"]

Stopping == \E t \in Threads : st[t] \notin {"idle", "wait", "ret"}

\* A send on c: it is refused once alive is clear, completes against a peer
\* that reads, and otherwise blocks until the connection is closed or times out.
SendOk(c)    == c \in alive /\ c \in cOpen \cap peerOpen /\ c \in draining
SendFails(c) == \/ c \notin alive
                \/ c \notin cOpen \cap peerOpen
                \/ c \notin draining /\ SendTimeout

-----------------------------------------------------------------------------
(* run(), the accept thread and the clients.                               *)

\* run(): listen, publish, start the accept and heartbeat threads.  When
\* listen() throws, running stays set.
Run ==
    /\ ~running /\ ~Stopping /\ runs < MaxRuns
    /\ running' = TRUE /\ runs' = runs + 1
    /\ \/ /\ listener' = "open" /\ registered' = TRUE
          /\ apc' = "head" /\ hpc' = "loop"
       \/ UNCHANGED <<listener, registered, apc, hpc>>
    /\ UNCHANGED <<stopRequested, held, connVars, topicVars, st>>

Connect(c) ==
    /\ cpc[c] = "off" /\ listener = "open"
    /\ cpc' = [cpc EXCEPT ![c] = "backlog"]
    /\ peerOpen' = peerOpen \cup {c}
    /\ UNCHANGED <<running, stopRequested, runs, listener, registered, apc,
                   held, live, cOpen, draining, alive, mySubs, topicVars,
                   hpc, st>>

PeerCloses(c) ==
    /\ c \in peerOpen
    /\ peerOpen' = peerOpen \ {c}
    /\ UNCHANGED <<running, stopRequested, runs, listener, registered, apc,
                   held, live, cpc, cOpen, draining, alive, mySubs,
                   topicVars, hpc, st>>

Stall(c) ==
    /\ c \in Stuck \cap draining
    /\ draining' = draining \ {c}
    /\ UNCHANGED <<running, stopRequested, runs, listener, registered, apc,
                   held, live, cpc, cOpen, peerOpen, alive, mySubs, topicVars,
                   hpc, st>>

acceptFrame == <<running, stopRequested, runs, listener, registered, peerOpen,
                 draining, alive, mySubs, topicVars, hpc, st>>

\* while (running.load())
AcceptHead ==
    /\ apc = "head"
    /\ apc' = IF running THEN "accept" ELSE "done"
    /\ UNCHANGED <<held, live, cpc, cOpen, acceptFrame>>

Accept(c) ==
    /\ apc = "accept" /\ listener = "open" /\ cpc[c] = "backlog"
    /\ apc' = "check" /\ held' = {c}
    /\ cpc' = [cpc EXCEPT ![c] = "held"]
    /\ cOpen' = cOpen \cup {c}
    /\ UNCHANGED <<live, acceptFrame>>

\* The listener is gone: accept() fails, or hands over close()'s own nudge.
AcceptWakes ==
    /\ apc = "accept" /\ listener = "closed"
    /\ apc' = "check"
    /\ UNCHANGED <<held, live, cpc, cOpen, acceptFrame>>

\* The checks after accept(): with no transport, or woken by stop(), whatever
\* was accepted is closed and the loop is left.
AcceptCheck ==
    /\ apc = "check"
    /\ IF running /\ held # {} THEN apc' = "push" /\ UNCHANGED <<held, cpc, cOpen>>
       ELSE /\ apc' = "done" /\ held' = {}
            /\ cOpen' = cOpen \ held
            /\ cpc' = [c \in Conns |-> IF c \in held THEN "done" ELSE cpc[c]]
    /\ UNCHANGED <<live, acceptFrame>>

AcceptPush ==
    /\ apc = "push"
    /\ live' = live \cup held
    /\ apc' = "spawn"
    /\ UNCHANGED <<held, cpc, cOpen, acceptFrame>>

AcceptSpawn ==
    /\ apc = "spawn"
    /\ cpc' = [c \in Conns |-> IF c \in held THEN "handshake" ELSE cpc[c]]
    /\ held' = {} /\ apc' = "head"
    /\ UNCHANGED <<live, cOpen, acceptFrame>>

-----------------------------------------------------------------------------
(* handle_connection.                                                      *)

connFrame == <<running, stopRequested, runs, listener, registered, apc, held,
               live, peerOpen, draining, hpc, st>>

Goes(c, pc) == cpc' = [cpc EXCEPT ![c] = pc]

\* A client that follows the protocol gets through; nothing obliges it to.
HandshakeOk(c) ==
    /\ cpc[c] = "handshake" /\ c \in cOpen \cap peerOpen
    /\ Goes(c, "head")
    /\ alive' = alive \cup {c}
    /\ UNCHANGED <<cOpen, mySubs, topicVars, connFrame>>

\* Mutant: no receive timeout during the handshake.
HandshakeFailsNoTimeout(c) ==
    /\ cpc[c] = "handshake" /\ c \notin cOpen \cap peerOpen
    /\ Goes(c, "done")
    /\ cOpen' = cOpen \ {c}
    /\ UNCHANGED <<alive, mySubs, topicVars, connFrame>>

\* Over the per-UID cap, not trusted, closed, or silent for
\* kHandshakeTimeoutMs: the transport is closed and the thread ends.
HandshakeFails(c) ==
    /\ cpc[c] = "handshake"
    /\ Goes(c, "done")
    /\ cOpen' = cOpen \ {c}
    /\ UNCHANGED <<alive, mySubs, topicVars, connFrame>>

\* while (running.load())
ConnHead(c) ==
    /\ cpc[c] = "head"
    /\ Goes(c, IF running THEN "read" ELSE "leave")
    /\ UNCHANGED <<cOpen, alive, mySubs, topicVars, connFrame>>

\* A request arrives and its handler runs.
ReadRequest(c) ==
    /\ cpc[c] = "read" /\ c \in cOpen \cap peerOpen
    /\ Goes(c, "serve")
    /\ UNCHANGED <<cOpen, alive, mySubs, topicVars, connFrame>>

\* A request for the topic: TopicHandle::Impl::add, and our own list.
Subscribe(c) ==
    /\ cpc[c] = "read" /\ c \in cOpen \cap peerOpen /\ tmu = "free"
    /\ c \notin mySubs
    /\ Goes(c, "head")
    /\ subs' = subs \cup {c} /\ mySubs' = mySubs \cup {c}
    /\ UNCHANGED <<cOpen, alive, tmu, todo, connFrame>>

ReadFails(c) ==
    /\ cpc[c] = "read" /\ c \notin cOpen \cap peerOpen
    /\ Goes(c, "leave")
    /\ UNCHANGED <<cOpen, alive, mySubs, topicVars, connFrame>>

\* The handler returned: its reply went out, or could not and cleared alive.
Reply(c) ==
    /\ cpc[c] = "serve"
    /\ SendOk(c) \/ SendFails(c)
    /\ Goes(c, "head")
    /\ alive' = IF SendOk(c) THEN alive ELSE alive \ {c}
    /\ UNCHANGED <<cOpen, mySubs, topicVars, connFrame>>

\* The exit path: alive is cleared, ...
Leave(c) ==
    /\ cpc[c] = "leave"
    /\ Goes(c, "detach")
    /\ alive' = alive \ {c}
    /\ UNCHANGED <<cOpen, mySubs, topicVars, connFrame>>

\* Mutant: a busy topic is not waited for.
DetachNoWait(c) ==
    /\ cpc[c] = "detach"
    /\ Goes(c, "done")
    /\ subs' = IF c \in mySubs /\ tmu = "free" THEN subs \ {c} ELSE subs
    /\ mySubs' = mySubs \ {c}
    /\ cOpen' = cOpen \ {c}
    /\ UNCHANGED <<alive, tmu, todo, connFrame>>

\* ... the subscriptions are detached under the topic's mutex, and the
\* transport is closed.
Detach(c) ==
    /\ cpc[c] = "detach"
    /\ c \in mySubs => tmu = "free"
    /\ Goes(c, "done")
    /\ subs' = IF c \in mySubs THEN subs \ {c} ELSE subs
    /\ mySubs' = mySubs \ {c}
    /\ cOpen' = cOpen \ {c}
    /\ UNCHANGED <<alive, tmu, todo, connFrame>>

ConnStep(c) ==
    \/ HandshakeFails(c) \/ ConnHead(c) \/ ReadFails(c) \/ Reply(c)
    \/ Leave(c) \/ Detach(c)

-----------------------------------------------------------------------------
(* The heartbeat thread: pings every subscriber with the topic's mutex held.*)

beatFrame == <<running, stopRequested, runs, listener, registered, apc, held,
               live, cpc, cOpen, peerOpen, draining, mySubs, st>>

\* while (running.load()), then a short sleep.
HeartbeatHead ==
    /\ hpc = "loop"
    /\ hpc' = IF running THEN "sleep" ELSE "done"
    /\ UNCHANGED <<topicVars, alive, beatFrame>>

NoBeatYet ==
    /\ hpc = "sleep"
    /\ hpc' = "loop"
    /\ UNCHANGED <<topicVars, alive, beatFrame>>

Heartbeat ==
    /\ hpc = "sleep" /\ tmu = "free"
    /\ tmu' = "heartbeat" /\ todo' = subs /\ hpc' = "beat"
    /\ UNCHANGED <<subs, alive, beatFrame>>

Ping(c) ==
    /\ hpc = "beat" /\ c \in todo
    /\ \/ /\ SendOk(c)
          /\ UNCHANGED <<subs, alive>>
       \/ /\ SendFails(c)
          /\ alive' = alive \ {c} /\ subs' = subs \ {c}
    /\ todo' = todo \ {c}
    /\ UNCHANGED <<tmu, hpc, beatFrame>>

HeartbeatDone ==
    /\ hpc = "beat" /\ todo = {}
    /\ tmu' = "free" /\ hpc' = "loop"
    /\ UNCHANGED <<subs, todo, alive, beatFrame>>

HeartbeatStep ==
    \/ HeartbeatHead \/ NoBeatYet \/ Heartbeat \/ HeartbeatDone
    \/ \E c \in Conns : Ping(c)

-----------------------------------------------------------------------------
(* stop(), one action per phase.                                           *)

stopFrame == <<stopRequested, runs, peerOpen, draining, mySubs>>

At(t, from, to) == st[t] = from /\ st' = [st EXCEPT ![t] = to]

\* running.exchange(false): the first caller does the work, any other returns.
Begin(t, from) ==
    /\ At(t, from, IF running THEN "hooks" ELSE "ret")
    /\ running' = FALSE
    /\ UNCHANGED <<listener, registered, apc, held, live, cpc, cOpen, alive,
                   topicVars, hpc, stopFrame>>

Stop(t) == Begin(t, "idle")

\* wait_until_stopped(): poll, then stop().
Wait(t) ==
    /\ At(t, "idle", "wait")
    /\ UNCHANGED <<running, listener, registered, apc, held, live, cpc, cOpen,
                   alive, topicVars, hpc, stopFrame>>

WaitOver(t) == (~running \/ stopRequested) /\ Begin(t, "wait")

\* request_stop(), e.g. from a signal handler.
RequestStop ==
    /\ ~stopRequested /\ stopRequested' = TRUE
    /\ UNCHANGED <<running, runs, listener, registered, apc, held, connVars,
                   topicVars, hpc, st>>

\* The before_stop hooks return; close_all takes the topic's mutex.
TellAll(t) ==
    /\ At(t, "hooks", "tell") /\ tmu = "free"
    /\ tmu' = "stop" /\ todo' = subs
    /\ UNCHANGED <<running, listener, registered, apc, held, live, cpc, cOpen,
                   alive, subs, hpc, stopFrame>>

Tell(t, c) ==
    /\ st[t] = "tell" /\ c \in todo
    /\ \/ SendOk(c) /\ UNCHANGED alive
       \/ SendFails(c) /\ alive' = alive \ {c}
    /\ todo' = todo \ {c}
    /\ UNCHANGED <<running, listener, registered, apc, held, live, cpc, cOpen,
                   subs, tmu, hpc, st, stopFrame>>

\* Mutant: close_all lets go of the mutex before its loop is over.
ToldAllEarly(t) ==
    /\ At(t, "tell", "joinbeat")
    /\ subs' = {} /\ tmu' = "free"
    /\ UNCHANGED <<running, listener, registered, apc, held, live, cpc, cOpen,
                   alive, todo, hpc, stopFrame>>

ToldAll(t) ==
    /\ At(t, "tell", "joinbeat") /\ todo = {}
    /\ subs' = {} /\ tmu' = "free"
    /\ UNCHANGED <<running, listener, registered, apc, held, live, cpc, cOpen,
                   alive, todo, hpc, stopFrame>>

JoinHeartbeat(t) ==
    /\ At(t, "joinbeat", "listener") /\ hpc \in {"none", "done"}
    /\ UNCHANGED <<running, listener, registered, apc, held, live, cpc, cOpen,
                   alive, topicVars, hpc, stopFrame>>

\* listener->close(): a blocked accept() is woken (AcceptWakes); what is still
\* in the backlog is dropped.
CloseListener(t) ==
    /\ At(t, "listener", "conns")
    /\ listener' = IF listener = "open" THEN "closed" ELSE listener
    /\ cpc' = [c \in Conns |-> IF cpc[c] = "backlog" THEN "done" ELSE cpc[c]]
    /\ UNCHANGED <<running, registered, apc, held, live, cOpen, alive, topicVars,
                   hpc, stopFrame>>

CloseConns(t) ==
    /\ At(t, "conns", "joinaccept")
    /\ cOpen' = cOpen \ live
    /\ UNCHANGED <<running, listener, registered, apc, held, live, cpc, alive,
                   topicVars, hpc, stopFrame>>

\* Mutant: the connection threads are joined without the accept thread first.
JoinAcceptSkipped(t) ==
    /\ At(t, "joinaccept", "joinconns")
    /\ UNCHANGED <<running, listener, registered, apc, held, live, cpc, cOpen,
                   alive, topicVars, hpc, stopFrame>>

JoinAccept(t) ==
    /\ At(t, "joinaccept", "joinconns") /\ apc \in {"none", "done"}
    /\ UNCHANGED <<running, listener, registered, apc, held, live, cpc, cOpen,
                   alive, topicVars, hpc, stopFrame>>

Spawned == {c \in Conns : cpc[c] \notin {"off", "backlog", "held", "done"}}

JoinConns(t) ==
    /\ At(t, "joinconns", "unpublish") /\ Spawned = {}
    /\ UNCHANGED <<running, listener, registered, apc, held, live, cpc, cOpen,
                   alive, topicVars, hpc, stopFrame>>

\* unpublish, the after_stop hooks, return.
Finish(t) ==
    /\ At(t, "unpublish", "ret")
    /\ registered' = FALSE
    /\ UNCHANGED <<running, listener, apc, held, live, cpc, cOpen, alive,
                   topicVars, hpc, stopFrame>>

StopStep(t) ==
    \/ WaitOver(t) \/ TellAll(t) \/ ToldAll(t) \/ JoinHeartbeat(t)
    \/ CloseListener(t) \/ CloseConns(t) \/ JoinAccept(t) \/ JoinConns(t)
    \/ Finish(t) \/ \E c \in Conns : Tell(t, c)

AcceptStep ==
    \/ AcceptHead \/ AcceptWakes \/ AcceptCheck \/ AcceptPush \/ AcceptSpawn
    \/ \E c \in Conns : Accept(c)

-----------------------------------------------------------------------------
Next ==
    \/ Run \/ RequestStop
    \/ AcceptStep \/ HeartbeatStep
    \/ \E c \in Conns : \/ Connect(c) \/ PeerCloses(c) \/ Stall(c)
                        \/ HandshakeOk(c) \/ ReadRequest(c) \/ Subscribe(c)
                        \/ ConnStep(c)
    \/ \E t \in Threads : Stop(t) \/ Wait(t) \/ StopStep(t)

Spec == Init /\ [][Next]_vars

\* Threads are scheduled, hooks and handlers return, and a thread that waits
\* for the topic's mutex gets it in the end.  Clients owe the host nothing.
Fairness ==
    /\ WF_vars(AcceptStep) /\ WF_vars(HeartbeatStep)
    /\ \A c \in Conns : WF_vars(ConnStep(c)) /\ SF_vars(Detach(c))
    /\ \A t \in Threads : WF_vars(StopStep(t)) /\ SF_vars(TellAll(t))

FairSpec == Spec /\ Fairness

-----------------------------------------------------------------------------
(* Properties.                                                             *)

\* Types, and the topic's mutex is free only when nobody is in its loop.
TypeOK ==
    /\ running \in BOOLEAN /\ stopRequested \in BOOLEAN /\ runs \in 0..MaxRuns
    /\ listener \in {"none", "open", "closed"} /\ registered \in BOOLEAN
    /\ apc \in {"none", "head", "accept", "check", "push", "spawn", "done"}
    /\ held \in SUBSET Conns /\ live \in SUBSET Conns
    /\ cpc \in [Conns -> {"off", "backlog", "held", "handshake", "head", "read",
                          "serve", "leave", "detach", "done"}]
    /\ cOpen \in SUBSET Conns /\ peerOpen \in SUBSET Conns
    /\ draining \in SUBSET Conns
    /\ alive \in SUBSET Conns /\ subs \in SUBSET Conns /\ mySubs \in SUBSET Conns
    /\ tmu \in {"free", "heartbeat", "stop"} /\ todo \in SUBSET Conns
    /\ tmu = "free" => todo = {}
    /\ hpc \in {"none", "loop", "sleep", "beat", "done"}
    /\ st \in [Threads -> {"idle", "wait", "hooks", "tell", "joinbeat", "listener",
                           "conns", "joinaccept", "joinconns", "unpublish", "ret"}]

\* Once the stop() that does the work is past its joins, no thread of the Host
\* is left and no connection is open, although the accept thread may still
\* have admitted a connection after stop() closed the live ones.
NothingLeftBehind ==
    \A t \in Threads : st[t] = "unpublish" =>
        /\ apc \in {"none", "done"} /\ hpc \in {"none", "done"}
        /\ Spawned = {} /\ cOpen = {} /\ listener # "open"
        /\ subs = {} /\ tmu = "free"

\* A connection whose thread has ended is in no topic any more, whatever the
\* heartbeat and close_all were doing to the subscriber list meanwhile: no
\* publisher writes to a transport its thread has closed.
DetachedBeforeClosed == \A c \in subs : cpc[c] # "done"

\* Every stop() returns, with silent and (given a send timeout) stuck clients.
StopReturns == \A t \in Threads : st[t] \notin {"idle", "wait"} ~> st[t] = "ret"
=============================================================================
