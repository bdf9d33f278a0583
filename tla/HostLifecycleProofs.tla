------------------------ MODULE HostLifecycleProofs ------------------------
(***************************************************************************)
(* Proofs about HostLifecycle, for every number of application threads,    *)
(* connections and runs, with stuck clients and with or without a send     *)
(* timeout.                                                                *)
(*                                                                         *)
(* The joins of stop() establish what the later phases rely on, one after  *)
(* the other, and nothing that still runs can undo it: Joined states it    *)
(* per phase.  It rests on Stopper (one thread at most does the work of    *)
(* stop(), and run() cannot begin meanwhile), on Mutex (who is in a loop   *)
(* over the subscribers) and on Owned (whose transport is open, and whose  *)
(* thread is there to close it).                                           *)
(***************************************************************************)
EXTENDS HostLifecycle, TLAPS

Works(t) == st[t] \notin {"idle", "wait", "ret"}

\* exchange(false) lets one caller through.
Stopper ==
    /\ running => \A t \in Threads : ~Works(t)
    /\ \A t, u \in Threads : Works(t) /\ Works(u) => t = u

Mutex ==
    /\ tmu = "heartbeat" <=> hpc = "beat"
    /\ tmu = "stop" <=> \E t \in Threads : st[t] = "tell"

\* An open transport belongs to the accept thread or to a running thread.
Owned ==
    /\ \A c \in Conns : cpc[c] = "held" <=> c \in held
    /\ held # {} => apc \in {"check", "push", "spawn"}
    /\ cOpen \subseteq Spawned \cup held

\* A subscriber's thread is past its handshake and has not detached it.
Subscribed ==
    /\ subs \subseteq mySubs
    /\ \A c \in mySubs : cpc[c] \in {"head", "read", "serve", "leave", "detach"}

\* What each phase of stop() may rely on, and what is left when it is over.
Joined ==
    /\ \A t \in Threads :
          /\ st[t] \in {"listener", "conns", "joinaccept", "joinconns", "unpublish"} =>
                hpc \in {"none", "done"}
          /\ st[t] \in {"conns", "joinaccept", "joinconns", "unpublish"} =>
                listener # "open"
          /\ st[t] \in {"joinconns", "unpublish"} => apc \in {"none", "done"}
          /\ st[t] = "unpublish" => Spawned = {}
    /\ ~running /\ ~Stopping => apc \in {"none", "done"} /\ hpc \in {"none", "done"}

Inv == TypeOK /\ Stopper /\ Mutex /\ Owned /\ Subscribed /\ Joined

-----------------------------------------------------------------------------
\* The invariant holds before run().
LEMMA InitInv == Init => Inv
<1> SUFFICES ASSUME Init PROVE Inv  OBVIOUS
<1> USE LifecycleConstants
<1>1. TypeOK
  <2>1. runs \in 0 .. MaxRuns  BY DEF Init
  <2>2. QED  BY <2>1 DEF Init, TypeOK
<1>2. Stopper  BY DEF Init, Stopper, Works
<1>3. Mutex  BY DEF Init, Mutex
<1>4. Owned  BY DEF Init, Owned
<1>5. Subscribed  BY DEF Init, Subscribed
<1>6. Joined  BY DEF Init, Joined
<1>7. QED  BY <1>1, <1>2, <1>3, <1>4, <1>5, <1>6 DEF Inv

\* Parts whose variables a step leaves alone.
LEMMA StopperFrame == ASSUME Stopper, UNCHANGED <<running, st>> PROVE Stopper'
  BY DEF Stopper, Works

\* Mutex when no lock and no thread in a critical section changes.
LEMMA MutexFrame == ASSUME Mutex, UNCHANGED <<tmu, hpc, st>> PROVE Mutex'
  BY DEF Mutex

\* Owned when no thread and no descriptor changes.
LEMMA OwnedFrame == ASSUME Owned, UNCHANGED <<cpc, held, apc, cOpen>> PROVE Owned'
  BY DEF Owned, Spawned

\* Subscribed when no subscription changes.
LEMMA SubscribedFrame == ASSUME Subscribed, UNCHANGED <<subs, mySubs, cpc>> PROVE Subscribed'
  BY DEF Subscribed

\* Joined when no thread ends and nothing is joined.
LEMMA JoinedFrame ==
    ASSUME Joined, UNCHANGED <<running, st, hpc, listener, apc, cpc>> PROVE Joined'
  BY DEF Joined, Stopping, Spawned

\* run() starts the accept loop and the heartbeat.
LEMMA RunStep == ASSUME Inv, Run PROVE Inv'
<1> USE LifecycleConstants DEF Run, connVars, topicVars
<1>0. held = {} /\ tmu # "heartbeat" /\ \A t \in Threads : ~Works(t)
  BY DEF Inv, Owned, Joined, Mutex, Stopping, Works
<1>1. TypeOK'
  <2>1. runs' \in 0 .. MaxRuns  BY DEF Inv, TypeOK
  <2>2. QED  BY <2>1, ZenonT(30) DEF Inv, TypeOK
<1>2. Stopper'  BY <1>0 DEF Stopper, Works
<1>3. Mutex'  BY <1>0 DEF Inv, Mutex
<1>4. Owned'  BY <1>0 DEF Inv, Owned, Spawned
<1>5. Subscribed'  BY SubscribedFrame DEF Inv
<1>6. Joined'  BY <1>0 DEF Joined, Works
<1>7. QED  BY <1>1, <1>2, <1>3, <1>4, <1>5, <1>6 DEF Inv

\* request_stop() sets a flag.
LEMMA RequestStopStep == ASSUME Inv, RequestStop PROVE Inv'
<1> USE DEF RequestStop, connVars, topicVars
<1>1. TypeOK'  BY DEF Inv, TypeOK
<1>2. QED  BY <1>1, StopperFrame, MutexFrame, OwnedFrame, SubscribedFrame, JoinedFrame
           DEF Inv

\* A client connects, closes its end or stops reading.
LEMMA ClientStep ==
    ASSUME Inv, NEW c \in Conns, Connect(c) \/ PeerCloses(c) \/ Stall(c)
    PROVE  Inv'
<1> USE DEF Connect, PeerCloses, Stall, topicVars
<1>1. TypeOK'  BY DEF Inv, TypeOK
<1>2. Stopper' /\ Mutex'  BY StopperFrame, MutexFrame DEF Inv
<1>3. Owned'  BY DEF Inv, TypeOK, Owned, Spawned
<1>4. Subscribed'  BY DEF Inv, TypeOK, Subscribed
<1>5. Joined'  BY DEF Inv, TypeOK, Joined, Spawned, Stopping
<1>6. QED  BY <1>1, <1>2, <1>3, <1>4, <1>5 DEF Inv

\* The accept loop.
LEMMA AcceptStepInv == ASSUME Inv, AcceptStep PROVE Inv'
<1> USE DEF AcceptStep, AcceptHead, AcceptWakes, AcceptCheck, AcceptPush, AcceptSpawn, Accept
<1>0. UNCHANGED acceptFrame  OBVIOUS
<1>1. TypeOK'  BY DEF Inv, TypeOK, acceptFrame, topicVars
<1>2. Stopper' /\ Mutex'  BY <1>0, StopperFrame, MutexFrame DEF Inv, acceptFrame, topicVars
<1>3. Owned'  BY DEF Inv, TypeOK, Owned, Spawned
<1>4. Subscribed'  BY <1>0 DEF Inv, TypeOK, Owned, Subscribed, acceptFrame, topicVars
<1>5. Joined'  BY <1>0 DEF Inv, TypeOK, Owned, Joined, Spawned, Stopping, acceptFrame, topicVars
<1>6. QED  BY <1>1, <1>2, <1>3, <1>4, <1>5 DEF Inv

\* A connection thread.
LEMMA ConnStepInv ==
    ASSUME Inv, NEW c \in Conns,
           HandshakeOk(c) \/ ReadRequest(c) \/ Subscribe(c) \/ ConnStep(c)
    PROVE  Inv'
<1> USE DEF HandshakeOk, ReadRequest, Subscribe, ConnStep, HandshakeFails, ConnHead,
            ReadFails, Reply, Leave, Detach, Goes
<1>0. UNCHANGED connFrame  OBVIOUS
<1>1. TypeOK'  BY <1>0 DEF Inv, TypeOK, connFrame, topicVars
<1>2. Stopper'  BY <1>0, StopperFrame DEF Inv, connFrame
<1>3. Mutex'  BY <1>0, MutexFrame DEF Inv, connFrame, topicVars
<1>4. Owned'  BY <1>0 DEF Inv, TypeOK, Owned, Spawned, connFrame
<1>5. Subscribed'  BY <1>0 DEF Inv, TypeOK, Subscribed, connFrame, topicVars
<1>6. Joined'  BY <1>0 DEF Inv, TypeOK, Joined, Spawned, Stopping, connFrame
<1>7. QED  BY <1>1, <1>2, <1>3, <1>4, <1>5, <1>6 DEF Inv

\* The heartbeat thread.
LEMMA HeartbeatStepInv == ASSUME Inv, HeartbeatStep PROVE Inv'
<1> USE DEF HeartbeatStep, HeartbeatHead, NoBeatYet, Heartbeat, HeartbeatDone, Ping
<1>0. UNCHANGED beatFrame  OBVIOUS
<1>1. TypeOK'  BY <1>0 DEF Inv, TypeOK, Mutex, beatFrame, topicVars
<1>2. Stopper' /\ Owned'  BY <1>0, StopperFrame, OwnedFrame DEF Inv, beatFrame
<1>3. Mutex'  BY <1>0 DEF Inv, Mutex, beatFrame, topicVars
<1>4. Subscribed'  BY <1>0 DEF Inv, Subscribed, beatFrame, topicVars
<1>5. Joined'  BY <1>0 DEF Inv, TypeOK, Joined, Spawned, Stopping, beatFrame
<1>6. QED  BY <1>1, <1>2, <1>3, <1>4, <1>5 DEF Inv

\* A thread that enters stop(): it is the only one at work if running was set,
\* and otherwise it returns.
LEMMA BeginStep ==
    ASSUME Inv, NEW t \in Threads, Begin(t, "idle") \/ Begin(t, "wait") PROVE Inv'
<1> USE DEF Begin, At, stopFrame, topicVars
<1>1. TypeOK'
  <2>1. PICK to \in {"hooks", "ret"} : st' = [st EXCEPT ![t] = to]  OBVIOUS
  <2>2. running' \in BOOLEAN  OBVIOUS
  <2>3. QED  BY <2>1, <2>2 DEF Inv, TypeOK
<1>2. Stopper'  BY DEF Inv, TypeOK, Stopper, Works
<1>3. Mutex'  BY DEF Inv, TypeOK, Mutex
<1>4. Owned' /\ Subscribed'  BY OwnedFrame, SubscribedFrame DEF Inv
<1>5. Joined'
  <2>1. CASE running  BY <2>1 DEF Inv, TypeOK, Joined, Stopping, Spawned
  <2>2. CASE ~running  BY <2>2 DEF Inv, TypeOK, Joined, Stopping, Spawned
  <2>3. QED  BY <2>1, <2>2
<1>6. QED  BY <1>1, <1>2, <1>3, <1>4, <1>5 DEF Inv

\* stop() waits for a thread.
LEMMA WaitStep == ASSUME Inv, NEW t \in Threads, Wait(t) PROVE Inv'
<1> USE DEF Wait, At, stopFrame, topicVars
<1>1. TypeOK'  BY DEF Inv, TypeOK
<1>2. Stopper'  BY DEF Inv, TypeOK, Stopper, Works
<1>3. Mutex'  BY DEF Inv, TypeOK, Mutex
<1>4. Owned' /\ Subscribed'  BY OwnedFrame, SubscribedFrame DEF Inv
<1>5. Joined'  BY DEF Inv, TypeOK, Joined, Stopping, Spawned
<1>6. QED  BY <1>1, <1>2, <1>3, <1>4, <1>5 DEF Inv

\* The thread at work goes from one phase to the next: it stays the only one.
LEMMA PhaseStep ==
    ASSUME TypeOK, Stopper, NEW t \in Threads, Works(t), UNCHANGED running,
           NEW to, st' = [st EXCEPT ![t] = to]
    PROVE  Stopper' /\ ~running /\ \A u \in Threads \ {t} : st'[u] = st[u] /\ ~Works(u)
  BY DEF TypeOK, Stopper, Works

\* stop() tells the subscribers.
LEMMA TellStep == ASSUME Inv, NEW t \in Threads, NEW c \in Conns, Tell(t, c) PROVE Inv'
<1> USE DEF Tell, stopFrame
<1>1. TypeOK'  BY DEF Inv, TypeOK, Mutex
<1>2. QED  BY <1>1, StopperFrame, MutexFrame, OwnedFrame, SubscribedFrame, JoinedFrame DEF Inv

\* The steps of stop().
LEMMA StopStepInv ==
    ASSUME Inv, NEW t \in Threads,
           \/ TellAll(t) \/ ToldAll(t) \/ JoinHeartbeat(t) \/ CloseListener(t)
           \/ CloseConns(t) \/ JoinAccept(t) \/ JoinConns(t) \/ Finish(t)
    PROVE  Inv'
<1> USE DEF TellAll, ToldAll, JoinHeartbeat, CloseListener, CloseConns, JoinAccept,
            JoinConns, Finish, At, stopFrame, topicVars
<1>0. PICK to \in {"tell", "joinbeat", "listener", "conns", "joinaccept", "joinconns",
                   "unpublish", "ret"} : st' = [st EXCEPT ![t] = to]
  OBVIOUS
<1>1. Works(t) /\ UNCHANGED running  BY DEF Works
<1>2. Stopper' /\ ~running /\ \A u \in Threads \ {t} : st'[u] = st[u] /\ ~Works(u)
  BY <1>0, <1>1, PhaseStep DEF Inv
<1>3. st'[t] = to  BY <1>0 DEF Inv, TypeOK
<1>4. TypeOK'
  <2>1. CASE TellAll(t) \/ ToldAll(t)  BY <2>1, <1>0 DEF Inv, TypeOK
  <2>2. CASE CloseListener(t)
    <3>1. listener' \in {"none", "open", "closed"}  BY <2>2 DEF Inv, TypeOK
    <3>2. QED  BY <2>2, <3>1, <1>0 DEF Inv, TypeOK
  <2>3. CASE JoinHeartbeat(t) \/ CloseConns(t) \/ JoinAccept(t) \/ JoinConns(t)
    BY <2>3, <1>0 DEF Inv, TypeOK
  <2>4. CASE Finish(t)
    <3>1. registered' \in BOOLEAN  BY <2>4
    <3>2. QED  BY <2>4, <3>1, <1>0 DEF Inv, TypeOK
  <2>5. QED  BY <2>1, <2>2, <2>3, <2>4
<1>5. Mutex'  BY <1>2, <1>3 DEF Inv, TypeOK, Mutex, Works
<1>6. Owned'  BY DEF Inv, TypeOK, Owned, Spawned
<1>7. Subscribed'  BY DEF Inv, TypeOK, Subscribed
<1>8. Joined'
  <2>1. CASE TellAll(t) \/ ToldAll(t) \/ JoinHeartbeat(t)
    BY <2>1, <1>0, <1>2 DEF Inv, TypeOK, Joined, Spawned, Stopping, Works
  <2>2. CASE CloseListener(t)
    BY <2>2, <1>0, <1>2 DEF Inv, TypeOK, Joined, Spawned, Stopping, Works
  <2>3. CASE CloseConns(t) \/ JoinAccept(t) \/ JoinConns(t)
    BY <2>3, <1>0, <1>2 DEF Inv, TypeOK, Joined, Spawned, Stopping, Works
  <2>4. CASE Finish(t)
    BY <2>4, <1>0, <1>2 DEF Inv, TypeOK, Joined, Spawned, Stopping, Works
  <2>5. QED  BY <2>1, <2>2, <2>3, <2>4
<1>9. QED  BY <1>2, <1>4, <1>5, <1>6, <1>7, <1>8 DEF Inv

\* Nothing changes.
LEMMA StutterStep == ASSUME Inv, UNCHANGED vars PROVE Inv'
<1> USE DEF vars, connVars, topicVars
<1>1. TypeOK'  BY DEF Inv, TypeOK
<1>2. QED  BY <1>1, StopperFrame, MutexFrame, OwnedFrame, SubscribedFrame, JoinedFrame DEF Inv

\* Every step preserves the invariant.
LEMMA NextInv == Inv /\ [Next]_vars => Inv'
<1> SUFFICES ASSUME Inv, [Next]_vars PROVE Inv'  OBVIOUS
<1>1. CASE UNCHANGED vars  BY <1>1, StutterStep
<1>2. CASE Run \/ RequestStop  BY <1>2, RunStep, RequestStopStep
<1>3. CASE AcceptStep \/ HeartbeatStep  BY <1>3, AcceptStepInv, HeartbeatStepInv
<1>4. ASSUME NEW c \in Conns,
             \/ Connect(c) \/ PeerCloses(c) \/ Stall(c) \/ HandshakeOk(c)
             \/ ReadRequest(c) \/ Subscribe(c) \/ ConnStep(c)
      PROVE  Inv'
  BY <1>4, ClientStep, ConnStepInv
<1>5. ASSUME NEW t \in Threads, Stop(t) \/ Wait(t) \/ StopStep(t) PROVE Inv'
  BY <1>5, BeginStep, WaitStep, TellStep, StopStepInv DEF Stop, StopStep, WaitOver
<1>6. QED  BY <1>1, <1>2, <1>3, <1>4, <1>5 DEF Next

\* The invariant holds throughout.
THEOREM InvHolds == Spec => []Inv
  BY InitInv, NextInv, PTL DEF Spec

\* Every variable of the Host keeps its type, and the topic's mutex is free
\* only when neither the heartbeat nor close_all is in its loop.
THEOREM TypeCorrect == Spec => []TypeOK
<1>1. Inv => TypeOK  BY DEF Inv
<1>2. QED  BY <1>1, InvHolds, PTL

\* stop() leaves nothing behind: past its joins no thread of the Host runs, no
\* transport is open and no subscriber is listed, whatever was accepted or
\* subscribed after stop() had closed the listener and the live connections.
THEOREM StopLeavesNothing == Spec => []NothingLeftBehind
<1>1. Inv => NothingLeftBehind
  <2> SUFFICES ASSUME Inv, NEW t \in Threads, st[t] = "unpublish"
               PROVE  /\ apc \in {"none", "done"} /\ hpc \in {"none", "done"}
                      /\ Spawned = {} /\ cOpen = {} /\ listener # "open"
                      /\ subs = {} /\ tmu = "free"
    BY DEF NothingLeftBehind
  <2>1. /\ apc \in {"none", "done"} /\ hpc \in {"none", "done"}
        /\ Spawned = {} /\ listener # "open"
    BY DEF Inv, Joined
  <2>2. cOpen = {}  BY <2>1 DEF Inv, Owned
  <2>3. subs = {}  BY <2>1 DEF Inv, TypeOK, Subscribed, Spawned
  <2>4. tmu = "free"  BY <2>1 DEF Inv, TypeOK, Mutex, Stopper, Works
  <2>5. QED  BY <2>1, <2>2, <2>3, <2>4
<1>2. QED  BY <1>1, InvHolds, PTL

\* handle_connection detaches its subscriptions before its transport goes, so
\* that no publisher, heartbeat or close_all meets the closed transport.
THEOREM DetachesFirst == Spec => []DetachedBeforeClosed
<1>1. Inv => DetachedBeforeClosed  BY DEF Inv, Subscribed, DetachedBeforeClosed
<1>2. QED  BY <1>1, InvHolds, PTL
=============================================================================
