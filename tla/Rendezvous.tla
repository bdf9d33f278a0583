----------------------------- MODULE Rendezvous -----------------------------
(***************************************************************************)
(* How a Client gets its connection to a service: the registry entry, the  *)
(* socket path, the host instances that come and go behind both, the pin,  *)
(* and get_or_connect() as several threads of one Client run it, from the  *)
(* lookup to the Connection object it stores, and close_connection().      *)
(*                                                                         *)
(* A host instance is one Host object in a process of its own.  Instances  *)
(* of a service share one registry entry file and one socket path, and all *)
(* they do to them is unconditional.  The handshake is one step: what it   *)
(* decides is which instance answers and whether the client trusts it.     *)
(***************************************************************************)
EXTENDS Naturals, Sequences, FiniteSets

CONSTANTS
    Hosts,     \* instances of the service
    Keys,      \* identity keys
    KeyOf,     \* the key each instance runs with
    Threads,   \* threads that use the Client
    Policy,    \* the Client's TrustPolicy
    Allowed,   \* keys given to allow_peer
    Overlap,   \* usage: an instance may start while another one still runs
    MaxConns   \* bound: Connection objects made

ASSUME RendezvousConstants ==
    /\ KeyOf \in [Hosts -> Keys] /\ Allowed \subseteq Keys
    /\ Policy \in {"AllowAll", "RequireKnownPeer", "TrustOnFirstUse"}
    /\ Overlap \in BOOLEAN /\ MaxConns \in Nat

VARIABLES
    hst,       \* how far each instance is in run(), stop() and ~Host
    entry,     \* the registry entry: {} or {h}
    sock,      \* who bound the socket at the service's path: {} or {h}
    pin,       \* the pinned key: {} or {k}
    conns,     \* the Client's connection: {} or {c}
    pc,        \* where each thread is in get_or_connect or close_connection
    tEntry,    \* the entry it looked up: {} or {h}
    tPeer,     \* the instance it is connected to: {} or {h}
    tFresh,    \* freshly_pinned
    tConn,     \* the Connection it holds: {} or {c}
    cHost,     \* the Connections made so far, as a sequence of peers
    cAlive,    \* Connections whose alive is set
    reading,   \* Connections whose reader_thread runs
    joined,    \* Connections whose reader_thread was joined
    cFrom,     \* history: the entry each Connection was made from
    pinned,    \* history: keys that were pinned
    lost,      \* history: keys that pin_peer failed to write
    emptied,   \* history: a failed write has replaced a pin by an empty file
    tBound     \* history: the pin that bound the call when it began

hostVars == <<hst, entry, sock>>
connVars == <<cHost, cAlive, reading, joined, cFrom>>
local    == <<tEntry, tPeer, tFresh, tConn>>
history == <<pinned, lost, emptied>>
vars == <<hostVars, pin, conns, pc, local, connVars, history, tBound>>

Init ==
    /\ hst = [h \in Hosts |-> "off"] /\ entry = {} /\ sock = {} /\ pin = {}
    /\ conns = {} /\ pc = [t \in Threads |-> "idle"]
    /\ tEntry = [t \in Threads |-> {}] /\ tPeer = [t \in Threads |-> {}]
    /\ tFresh = [t \in Threads |-> FALSE] /\ tConn = [t \in Threads |-> {}]
    /\ cHost = <<>> /\ cAlive = {} /\ reading = {} /\ joined = {} /\ cFrom = <<>>
    /\ pinned = {} /\ lost = {} /\ emptied = FALSE /\ tBound = [t \in Threads |-> {}]

-----------------------------------------------------------------------------
(* Host instances.                                                         *)

Goes(h, from, to) == hst[h] = from /\ hst' = [hst EXCEPT ![h] = to]

Client == <<pin, conns, pc, local, connVars, history, tBound>>

\* listen(): whatever was at the path is unlinked and replaced.
HostListens(h) ==
    /\ Goes(h, "off", "bound")
    /\ Overlap \/ \A g \in Hosts : hst[g] \in {"off", "gone", "destroyed", "dead"}
    /\ sock' = {h}
    /\ UNCHANGED <<entry, Client>>

\* publish(): whatever entry there was is replaced, by a rename.
HostPublishes(h) ==
    /\ Goes(h, "bound", "up")
    /\ entry' = {h}
    /\ UNCHANGED <<sock, Client>>

\* stop() cleared running: nothing is accepted any more.
HostStops(h) ==
    /\ Goes(h, "up", "closing")
    /\ UNCHANGED <<entry, sock, Client>>

\* PosixListener::close unlinks the path, whoever's socket is there, and the
\* connections are closed.
HostCloses(h) ==
    /\ Goes(h, "closing", "closed")
    /\ sock' = {}
    /\ UNCHANGED <<entry, Client>>

\* unpublish() removes the entry, whoever's it is.
HostUnpublishes(h) ==
    /\ Goes(h, "closed", "gone")
    /\ entry' = {}
    /\ UNCHANGED <<sock, Client>>

\* Mutant: close() keeps its path and the destructor unlinks it once more.
HostDestroyedUnlinks(h) ==
    /\ Goes(h, "gone", "destroyed")
    /\ sock' = {}
    /\ UNCHANGED <<entry, Client>>

\* The Host object goes: its stop() has nothing to do, and its listener's
\* close() neither, because the first one cleared path_.
HostDestroyed(h) ==
    /\ Goes(h, "gone", "destroyed")
    /\ UNCHANGED <<entry, sock, Client>>

\* The process dies; entry and socket file stay.
HostCrashes(h) ==
    /\ hst[h] \in {"bound", "up", "closing", "closed"}
    /\ hst' = [hst EXCEPT ![h] = "dead"]
    /\ UNCHANGED <<entry, sock, Client>>

-----------------------------------------------------------------------------
(* get_or_connect().                                                       *)

To(t, pcs) == pc' = [pc EXCEPT ![t] = pcs]

\* The call throws; its locals go.
Throws(t) ==
    /\ To(t, "idle")
    /\ tEntry' = [tEntry EXCEPT ![t] = {}] /\ tPeer' = [tPeer EXCEPT ![t] = {}]
    /\ tFresh' = [tFresh EXCEPT ![t] = FALSE]

\* The cached connection, if its alive is set.
Cached(t) ==
    /\ pc[t] = "idle"
    /\ IF conns \cap cAlive # {}
       THEN To(t, "have") /\ tConn' = [tConn EXCEPT ![t] = conns]
       ELSE To(t, "lookup") /\ UNCHANGED tConn
    /\ tBound' = [tBound EXCEPT ![t] =
                     IF \E u \in Threads : tFresh[u] THEN {} ELSE pin]
    /\ UNCHANGED <<hostVars, pin, conns, tEntry, tPeer, tFresh, connVars, history>>

\* registry::lookup reads the entry and asks whether its process is alive.
Lookup(t) ==
    /\ pc[t] = "lookup"
    /\ \/ /\ entry = {}
          /\ Throws(t)
       \/ \E h \in entry :
             /\ To(t, IF hst[h] = "dead" THEN "prune" ELSE "trust")
             /\ tEntry' = [tEntry EXCEPT ![t] = {h}]
             /\ UNCHANGED <<tPeer, tFresh>>
    /\ UNCHANGED <<hostVars, pin, conns, tConn, connVars, history, tBound>>

\* lookup() unpublishes what it takes to be the stale entry it read.
Prune(t) ==
    /\ pc[t] = "prune"
    /\ entry' = {}
    /\ Throws(t)
    /\ UNCHANGED <<hst, sock, pin, conns, tConn, connVars, history, tBound>>

\* The checks before a connection is opened.
TrustsEntry(k) ==
    /\ Policy = "RequireKnownPeer" => k \in Allowed
    /\ Policy = "TrustOnFirstUse" => pin \subseteq {k}

Trust(t) ==
    /\ pc[t] = "trust"
    /\ IF \A h \in tEntry[t] : TrustsEntry(KeyOf[h])
       THEN To(t, "dial") /\ UNCHANGED <<tEntry, tPeer, tFresh>>
       ELSE Throws(t)
    /\ UNCHANGED <<hostVars, pin, conns, tConn, connVars, history, tBound>>

\* transport::connect reaches whoever listens at the path now.
Dial(t) ==
    /\ pc[t] = "dial"
    /\ \/ /\ \E h \in sock :
                /\ hst[h] \in {"bound", "up", "closing"}
                /\ tPeer' = [tPeer EXCEPT ![t] = {h}]
          /\ To(t, "fresh")
          /\ UNCHANGED <<tEntry, tFresh>>
       \/ /\ \A h \in sock : hst[h] \notin {"bound", "up", "closing"}
          /\ Throws(t)
    /\ UNCHANGED <<hostVars, pin, conns, tConn, connVars, history, tBound>>

Fresh(t) ==
    /\ pc[t] = "fresh"
    /\ tFresh' = [tFresh EXCEPT ![t] = Policy = "TrustOnFirstUse" /\ pin = {}]
    /\ To(t, "shake")
    /\ UNCHANGED <<hostVars, pin, conns, tEntry, tPeer, tConn, connVars, history,
                   tBound>>

\* Mutant: the claimed key is not compared with the registry's.
TrustsAnyEntry(claimed, e) ==
    /\ Policy = "RequireKnownPeer" => claimed \in Allowed
    /\ Policy = "TrustOnFirstUse" => pin \subseteq {claimed}

\* Mutant: whoever answers at the path is trusted.
TrustsAnyone(claimed, e) == TRUE

\* is_client_side_trusted.
Trusts(claimed, e) ==
    /\ e = {h \in e : KeyOf[h] = claimed}
    /\ Policy = "RequireKnownPeer" => claimed \in Allowed
    /\ Policy = "TrustOnFirstUse" => pin \subseteq {claimed}

\* client_handshake: the peer answers, proves its key and accepts the client,
\* and is trusted; or the attempt ends (refused, closed, or 5 s of silence).
Shake(t) ==
    /\ pc[t] = "shake"
    /\ \/ /\ \E h \in tPeer[t] : /\ hst[h] \in {"up", "closing"}
                                 /\ Trusts(KeyOf[h], tEntry[t])
          /\ To(t, "pin")
          /\ UNCHANGED <<tEntry, tPeer, tFresh>>
       \/ Throws(t)
    /\ UNCHANGED <<hostVars, pin, conns, tConn, connVars, history, tBound>>

\* Mutant: whether this is a first contact is judged by the connection cache.
PinUnlessCached(t) ==
    /\ pc[t] = "pin"
    /\ IF tFresh[t] /\ conns = {}
       THEN \E h \in tPeer[t] : pin' = {KeyOf[h]} /\ pinned' = pinned \cup {KeyOf[h]}
       ELSE UNCHANGED <<pin, pinned>>
    /\ tFresh' = [tFresh EXCEPT ![t] = FALSE]
    /\ To(t, "make")
    /\ UNCHANGED <<hostVars, conns, tEntry, tPeer, tConn, connVars, lost, emptied,
                   tBound>>

\* pin_peer, with the answer freshly_pinned gave before the handshake.
Pin(t) ==
    /\ pc[t] = "pin"
    /\ IF tFresh[t]
       THEN \E h \in tPeer[t] : pin' = {KeyOf[h]} /\ pinned' = pinned \cup {KeyOf[h]}
       ELSE UNCHANGED <<pin, pinned>>
    /\ tFresh' = [tFresh EXCEPT ![t] = FALSE]
    /\ To(t, "make")
    /\ UNCHANGED <<hostVars, conns, tEntry, tPeer, tConn, connVars, lost, emptied,
                   tBound>>

\* pin_peer looks at no result.  If the tmp file cannot be opened, the rename
\* has nothing to rename; if it cannot be written, it is renamed empty and
\* replaces a pin that another thread has written meanwhile.
PinFails(t) ==
    /\ pc[t] = "pin" /\ tFresh[t]
    /\ pin' \in {pin, {}} /\ emptied' = (emptied \/ pin' # pin)
    /\ \E h \in tPeer[t] : lost' = lost \cup {KeyOf[h]}
    /\ tFresh' = [tFresh EXCEPT ![t] = FALSE]
    /\ To(t, "make")
    /\ UNCHANGED <<hostVars, conns, tEntry, tPeer, tConn, connVars, pinned, tBound>>

\* A Connection and its reader thread, which holds a reference of its own.
Make(t) ==
    /\ pc[t] = "make" /\ Len(cHost) < MaxConns
    /\ LET c == Len(cHost) + 1
       IN  /\ \E h \in tPeer[t] : cHost' = Append(cHost, h)
           /\ \E h \in tEntry[t] : cFrom' = Append(cFrom, h)
           /\ cAlive' = cAlive \cup {c} /\ reading' = reading \cup {c}
           /\ tConn' = [tConn EXCEPT ![t] = {c}]
    /\ To(t, "store")
    /\ UNCHANGED <<hostVars, pin, conns, tEntry, tPeer, tFresh, joined, history,
                   tBound>>

\* conns[target_service] = conn: an older Connection loses the map's reference.
Store(t) ==
    /\ pc[t] = "store"
    /\ conns' = tConn[t]
    /\ To(t, "have")
    /\ UNCHANGED <<hostVars, pin, local, connVars, history, tBound>>

\* The call that asked for the connection is over.
Release(t) ==
    /\ pc[t] = "have"
    /\ Throws(t)
    /\ tConn' = [tConn EXCEPT ![t] = {}]
    /\ UNCHANGED <<hostVars, pin, conns, connVars, history, tBound>>

\* The reader leaves its loop and its thread ends: the connection was closed on
\* either side, or its host cut it off.
ReaderEnds(c) ==
    /\ c \in reading
    /\ cAlive' = cAlive \ {c} /\ reading' = reading \ {c}
    /\ UNCHANGED <<hostVars, pin, conns, pc, local, cHost, joined, cFrom, history,
                   tBound>>

-----------------------------------------------------------------------------
(* close_connection(), of disconnect() and ~Client.                        *)

CloseTakes(t) ==
    /\ pc[t] = "idle" /\ conns # {}
    /\ tConn' = [tConn EXCEPT ![t] = conns] /\ conns' = {}
    /\ To(t, "close")
    /\ UNCHANGED <<hostVars, pin, tEntry, tPeer, tFresh, connVars, history, tBound>>

CloseEnds(t) ==
    /\ pc[t] = "close"
    /\ cAlive' = cAlive \ tConn[t]
    /\ To(t, "join")
    /\ UNCHANGED <<hostVars, pin, conns, local, cHost, reading, joined, cFrom,
                   history, tBound>>

\* Mutant: the reader thread is taken to have ended.
CloseJoinsNoWait(t) ==
    /\ pc[t] = "join"
    /\ joined' = joined \cup tConn[t]
    /\ tConn' = [tConn EXCEPT ![t] = {}]
    /\ To(t, "idle")
    /\ UNCHANGED <<hostVars, pin, conns, tEntry, tPeer, tFresh, cHost, cAlive,
                   reading, cFrom, history, tBound>>

CloseJoins(t) ==
    /\ pc[t] = "join" /\ tConn[t] \cap reading = {}
    /\ joined' = joined \cup tConn[t]
    /\ tConn' = [tConn EXCEPT ![t] = {}]
    /\ To(t, "idle")
    /\ UNCHANGED <<hostVars, pin, conns, tEntry, tPeer, tFresh, cHost, cAlive,
                   reading, cFrom, history, tBound>>

-----------------------------------------------------------------------------
Next ==
    \/ \E h \in Hosts :
          \/ HostListens(h) \/ HostPublishes(h) \/ HostStops(h) \/ HostCloses(h)
          \/ HostUnpublishes(h) \/ HostDestroyed(h) \/ HostCrashes(h)
    \/ \E t \in Threads :
          \/ Cached(t) \/ Lookup(t) \/ Prune(t) \/ Trust(t) \/ Dial(t) \/ Fresh(t)
          \/ Shake(t) \/ Pin(t) \/ PinFails(t) \/ Make(t) \/ Store(t) \/ Release(t)
          \/ CloseTakes(t) \/ CloseEnds(t) \/ CloseJoins(t)
    \/ \E c \in 1..MaxConns : ReaderEnds(c)

Spec == Init /\ [][Next]_vars

-----------------------------------------------------------------------------
(* Properties.                                                             *)

Made == DOMAIN cHost

\* Types; a running reader belongs to a Connection nobody has joined.
TypeOK ==
    /\ hst \in [Hosts -> {"off", "bound", "up", "closing", "closed", "gone",
                          "destroyed", "dead"}]
    /\ entry \in SUBSET Hosts /\ sock \in SUBSET Hosts /\ pin \in SUBSET Keys
    /\ Cardinality(entry) <= 1 /\ Cardinality(sock) <= 1 /\ Cardinality(pin) <= 1
    /\ pc \in [Threads -> {"idle", "lookup", "prune", "trust", "dial", "fresh",
                           "shake", "pin", "make", "store", "have", "close", "join"}]
    /\ tEntry \in [Threads -> SUBSET Hosts] /\ tPeer \in [Threads -> SUBSET Hosts]
    /\ tFresh \in [Threads -> BOOLEAN] /\ tConn \in [Threads -> SUBSET Made]
    /\ cHost \in Seq(Hosts) /\ cFrom \in Seq(Hosts) /\ DOMAIN cFrom = Made
    /\ conns \subseteq Made /\ cAlive \subseteq Made /\ joined \subseteq Made
    /\ reading \subseteq Made \ joined /\ pinned \subseteq Keys /\ lost \subseteq Keys
    /\ emptied \in BOOLEAN
    /\ tBound \in [Threads -> SUBSET Keys]

\* Every Connection is with the identity the registry named, although the
\* socket path may have changed hands between the lookup and the connect.
AuthenticatedPeer == \A c \in Made : KeyOf[cHost[c]] = KeyOf[cFrom[c]]

\* Under TrustOnFirstUse nothing is sent to a service whose key was not pinned
\* first, although freshly_pinned is read before the handshake, and the pin
\* may have been written meanwhile by another thread; unless the file of that
\* very key could not be written, or such a write emptied another thread's pin
\* between a third thread's freshly_pinned and handshake (keystore.cpp:126-127).
PinnedBeforeUse ==
    Policy = "TrustOnFirstUse" =>
        emptied \/ \A c \in Made : KeyOf[cHost[c]] \in pinned \cup lost

\* A pin that was there when a call began, with no first contact under way,
\* binds the call: what it gets from a new connection is the pinned peer.
PinHonoured ==
    Policy = "TrustOnFirstUse" =>
        \A t \in Threads : pc[t] = "store" =>
            \A k \in tBound[t] : \A c \in tConn[t] : KeyOf[cHost[c]] = k

\* Without overlapping instances the one that listens owns the socket path: no
\* late cleanup of a predecessor takes the path away from it.
SocketIsOurs ==
    ~Overlap => \A h \in Hosts :
        hst[h] \in {"bound", "up", "closing"} => sock = {h}

\* A Connection nobody refers to any more had its reader thread joined first:
\* destroying a joinable std::thread ends the process.
ReaderJoined == \A c \in Made :
    \/ c \in conns \cup reading \cup joined
    \/ \E t \in Threads : c \in tConn[t]
=============================================================================
