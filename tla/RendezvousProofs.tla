-------------------------- MODULE RendezvousProofs --------------------------
(***************************************************************************)
(* Proofs about Rendezvous, for every number of instances, keys, threads   *)
(* and connections, and for every trust policy.                            *)
(*                                                                         *)
(* What a call may rely on depends on how far it is: the invariant states  *)
(* it per program counter.  Peers is about the identity of the peer, Pins  *)
(* about what the pin file has said since freshly_pinned was read, Binds   *)
(* about a pin that was there when the call began, Path about who owns the *)
(* socket path.                                                            *)
(***************************************************************************)
EXTENDS Rendezvous, FiniteSetTheorems, TLAPS

Tofu == Policy = "TrustOnFirstUse"

\* TypeOK with its cardinalities spelled out.
Types ==
    /\ hst \in [Hosts -> {"off", "bound", "up", "closing", "closed", "gone",
                          "destroyed", "dead"}]
    /\ entry = {} \/ \E h \in Hosts : entry = {h}
    /\ sock = {} \/ \E h \in Hosts : sock = {h}
    /\ pin = {} \/ \E k \in Keys : pin = {k}
    /\ pc \in [Threads -> {"idle", "lookup", "prune", "trust", "dial", "fresh",
                           "shake", "pin", "make", "store", "have", "close", "join"}]
    /\ tEntry \in [Threads -> SUBSET Hosts] /\ tPeer \in [Threads -> SUBSET Hosts]
    /\ tFresh \in [Threads -> BOOLEAN] /\ tConn \in [Threads -> SUBSET Made]
    /\ tBound \in [Threads -> SUBSET Keys]

\* The Connection objects and the threads that read them.
Connections ==
    /\ cHost \in Seq(Hosts) /\ cFrom \in Seq(Hosts) /\ Len(cFrom) = Len(cHost)
    /\ conns \subseteq Made /\ cAlive \subseteq Made /\ joined \subseteq Made
    /\ reading \subseteq Made \ joined

\* A thread that got through the handshake talks to one instance, which has the
\* key of the entry it looked up.
Peers ==
    /\ \A t \in Threads : pc[t] \in {"fresh", "shake", "pin", "make"} =>
          \E h \in Hosts : tPeer[t] = {h}
    /\ \A t \in Threads : pc[t] \in {"pin", "make"} =>
          \A h \in tPeer[t], g \in tEntry[t] : KeyOf[h] = KeyOf[g]
    /\ AuthenticatedPeer

\* What freshly_pinned's answer still means when it is used.
Pins ==
    /\ pinned \subseteq Keys /\ lost \subseteq Keys /\ emptied \in BOOLEAN
    /\ pin \subseteq pinned
    /\ ~emptied /\ pin = {} => pinned = {}
    /\ \A t \in Threads : tFresh[t] => Tofu /\ pc[t] \in {"shake", "pin"}
    /\ \A t \in Threads : Tofu /\ pc[t] \in {"shake", "pin"} =>
          tFresh[t] \/ pinned # {}
    /\ \A t \in Threads : Tofu /\ pc[t] = "pin" =>
          tFresh[t] \/ emptied \/ \A h \in tPeer[t] : KeyOf[h] \in pinned
    /\ \A t \in Threads : Tofu /\ pc[t] = "make" =>
          emptied \/ \A h \in tPeer[t] : KeyOf[h] \in pinned \cup lost
    /\ PinnedBeforeUse

\* A pin that binds a call cannot change any more: only a thread whose
\* freshly_pinned is set writes it, and none can set it while there is a pin.
Binds ==
    /\ \A t \in Threads : tBound[t] # {} =>
          pin = tBound[t] /\ \A u \in Threads : ~tFresh[u]
    /\ Tofu => \A t \in Threads : pc[t] \in {"pin", "make"} =>
          \A k \in tBound[t], h \in tPeer[t] : KeyOf[h] = k
    /\ PinHonoured

\* Between listen() and the end of stop() an instance has the path to itself.
Path ==
    /\ ~Overlap => \A g, h \in Hosts :
          /\ hst[g] \in {"bound", "up", "closing", "closed"}
          /\ hst[h] \in {"bound", "up", "closing", "closed"}
          => g = h
    /\ SocketIsOurs

Inv == Types /\ Connections /\ Peers /\ Pins /\ Binds /\ Path

-----------------------------------------------------------------------------
\* The invariant holds before any connect.
LEMMA InitInv == Init => Inv
<1> SUFFICES ASSUME Init PROVE Inv  OBVIOUS
<1> USE RendezvousConstants
<1>0. Made = {}  BY DEF Init, Made
<1>1. Types  BY <1>0 DEF Init, Types
<1>2. Connections  BY <1>0 DEF Init, Connections
<1>3. Peers  BY <1>0 DEF Init, Peers, AuthenticatedPeer
<1>4. Pins  BY <1>0 DEF Init, Pins, PinnedBeforeUse
<1>5. Binds  BY DEF Init, Binds, PinHonoured
<1>6. Path  BY DEF Init, Path, SocketIsOurs
<1>7. QED  BY <1>1, <1>2, <1>3, <1>4, <1>5, <1>6 DEF Inv

\* Hosts starting, stopping and leaving registry entries and sockets behind.
LEMMA HostStep ==
    ASSUME Inv, NEW h \in Hosts,
           \/ HostListens(h) \/ HostPublishes(h) \/ HostStops(h) \/ HostCloses(h)
           \/ HostUnpublishes(h) \/ HostDestroyed(h) \/ HostCrashes(h)
    PROVE  Inv'
<1> USE RendezvousConstants
<1>0. UNCHANGED Client
  BY DEF HostListens, HostPublishes, HostStops, HostCloses, HostUnpublishes,
         HostDestroyed, HostCrashes
<1>1. Types'
  BY <1>0 DEF Inv, Types, Client, local, connVars, Made, Goes, HostListens,
         HostPublishes, HostStops, HostCloses, HostUnpublishes, HostDestroyed,
         HostCrashes
<1>2. Connections'
  BY <1>0 DEF Inv, Connections, Made, Client, connVars
<1>3. Peers'
  BY <1>0 DEF Inv, Peers, AuthenticatedPeer, Made, Client, connVars, local
<1>4. Pins'
  BY <1>0 DEF Inv, Pins, PinnedBeforeUse, Made, Client, connVars, local, history
<1>5. Binds'
  BY <1>0 DEF Inv, Binds, PinHonoured, Client, connVars, local
<1>6. Path'
  BY DEF Inv, Types, Path, SocketIsOurs, Goes, HostListens, HostPublishes,
         HostStops, HostCloses, HostUnpublishes, HostDestroyed, HostCrashes
<1>7. QED  BY <1>1, <1>2, <1>3, <1>4, <1>5, <1>6 DEF Inv

\* Everything a thread does leaves the hosts' part of the state alone, up to
\* the registry entry.
LEMMA PathFrame == ASSUME Path, UNCHANGED <<hst, sock>> PROVE Path'
  BY DEF Path, SocketIsOurs

\* Whatever a thread does to its own locals, it leaves those of the others.
Others(t) ==
    \A u \in Threads \ {t} :
        /\ pc'[u] = pc[u] /\ tEntry'[u] = tEntry[u] /\ tPeer'[u] = tPeer[u]
        /\ tFresh'[u] = tFresh[u] /\ tBound'[u] = tBound[u]

\* Where a call is before it has a peer, and once it has stored its Connection
\* or given up: nothing is claimed of its locals there.
Quiet == {"idle", "lookup", "prune", "trust", "dial", "have", "close", "join"}

\* A thread that is at such a place, and whose call is bound by the pin only
\* if no first contact is under way, cannot disturb what the others rely on.
LEMMA QuietStep ==
    ASSUME Inv, NEW t \in Threads, Others(t),
           UNCHANGED <<pin, pinned, lost, emptied, cHost, cFrom, hst, sock>>,
           pc'[t] \in Quiet, ~tFresh'[t],
           \/ tBound'[t] = {}
           \/ tBound'[t] = tBound[t]
           \/ tBound'[t] = pin /\ \A u \in Threads : ~tFresh[u],
           \A u \in Threads \ {t} : tConn'[u] = tConn[u]
    PROVE  Peers' /\ Pins' /\ Binds' /\ Path'
<1> USE DEF Inv, Others, Quiet
<1>1. Peers'  BY DEF Peers, AuthenticatedPeer, Made
<1>2. Pins'  BY DEF Pins, PinnedBeforeUse, Made
<1>3. Binds'  BY DEF Binds, PinHonoured
<1>4. QED  BY <1>1, <1>2, <1>3, PathFrame

\* connect finds a cached connection.
LEMMA CachedStep == ASSUME Inv, NEW t \in Threads, Cached(t) PROVE Inv'
<1> USE RendezvousConstants DEF Cached, To, hostVars, connVars, local, history
<1>1. Types'
  <2>1. CASE conns \cap cAlive # {}  BY <2>1 DEF Inv, Types, Connections, Made
  <2>2. CASE conns \cap cAlive = {}  BY <2>2 DEF Inv, Types, Connections, Made
  <2>3. QED  BY <2>1, <2>2
<1>2. Connections'  BY DEF Inv, Types, Connections, Made
<1>3. Others(t) /\ \A u \in Threads \ {t} : tConn'[u] = tConn[u]
  <2>1. CASE conns \cap cAlive # {}  BY <2>1 DEF Inv, Types, Others
  <2>2. CASE conns \cap cAlive = {}  BY <2>2 DEF Inv, Types, Others
  <2>3. QED  BY <2>1, <2>2
<1>4. pc'[t] \in Quiet /\ ~tFresh'[t]  BY DEF Inv, Types, Pins, Quiet
<1>5. \/ tBound'[t] = {}
      \/ tBound'[t] = pin /\ \A u \in Threads : ~tFresh[u]
  BY DEF Inv, Types
<1>6. QED  BY <1>1, <1>2, <1>3, <1>4, <1>5, QuietStep DEF Inv

\* connect reads the registry entry.
LEMMA LookupStep == ASSUME Inv, NEW t \in Threads, Lookup(t) PROVE Inv'
<1> USE RendezvousConstants DEF Lookup, To, hostVars, connVars, local, history, Throws
<1>1. Types'
  <2>1. CASE entry = {}  BY <2>1 DEF Inv, Types, Made
  <2>2. CASE entry # {}
    <3>1. PICK h \in entry :
             /\ pc' = [pc EXCEPT ![t] = IF hst[h] = "dead" THEN "prune" ELSE "trust"]
             /\ tEntry' = [tEntry EXCEPT ![t] = {h}]
             /\ UNCHANGED <<tPeer, tFresh>>
      BY <2>2
    <3>2. h \in Hosts  BY DEF Inv, Types
    <3>3. QED  BY <3>1, <3>2 DEF Inv, Types, Made
  <2>3. QED  BY <2>1, <2>2
<1>2. Connections'  BY DEF Inv, Types, Connections, Made
<1>3. Others(t) /\ \A u \in Threads \ {t} : tConn'[u] = tConn[u]
  BY DEF Inv, Types, Others
<1>4. pc'[t] \in Quiet /\ ~tFresh'[t]  BY DEF Inv, Types, Pins, Quiet
<1>5. tBound'[t] = tBound[t]  BY DEF Inv, Types
<1>6. QED  BY <1>1, <1>2, <1>3, <1>4, <1>5, QuietStep DEF Inv

\* lookup removes an entry it takes for a dead one.
LEMMA PruneStep == ASSUME Inv, NEW t \in Threads, Prune(t) PROVE Inv'
<1> USE RendezvousConstants DEF Prune, To, hostVars, connVars, local, history, Throws
<1>1. Types'  BY DEF Inv, Types, Connections, Made
<1>2. Connections'  BY DEF Inv, Types, Connections, Made
<1>3. Others(t) /\ \A u \in Threads \ {t} : tConn'[u] = tConn[u]
  BY DEF Inv, Types, Others
<1>4. pc'[t] \in Quiet /\ ~tFresh'[t]  BY DEF Inv, Types, Pins, Quiet
<1>5. tBound'[t] = tBound[t]  BY DEF Inv, Types
<1>6. QED  BY <1>1, <1>2, <1>3, <1>4, <1>5, QuietStep DEF Inv

\* connect asks the pin store.
LEMMA TrustStep == ASSUME Inv, NEW t \in Threads, Trust(t) PROVE Inv'
<1> USE RendezvousConstants DEF Trust, To, hostVars, connVars, local, history, Throws, TrustsEntry
<1>1. Types'  BY DEF Inv, Types, Connections, Made
<1>2. Connections'  BY DEF Inv, Types, Connections, Made
<1>3. Others(t) /\ \A u \in Threads \ {t} : tConn'[u] = tConn[u]
  BY DEF Inv, Types, Others
<1>4. pc'[t] \in Quiet /\ ~tFresh'[t]  BY DEF Inv, Types, Pins, Quiet
<1>5. tBound'[t] = tBound[t]  BY DEF Inv, Types
<1>6. QED  BY <1>1, <1>2, <1>3, <1>4, <1>5, QuietStep DEF Inv

\* The call ends with an exception.
LEMMA ThrowsStep ==
    ASSUME Inv, NEW t \in Threads, Throws(t),
           UNCHANGED <<hostVars, pin, conns, tConn, connVars, history, tBound>>
    PROVE  Inv'
<1> USE RendezvousConstants DEF Throws, To, hostVars, connVars, local, history
<1>1. Types'  BY DEF Inv, Types, Connections, Made
<1>2. Connections'  BY DEF Inv, Types, Connections, Made
<1>3. Others(t) /\ \A u \in Threads \ {t} : tConn'[u] = tConn[u]
  BY DEF Inv, Types, Others
<1>4. pc'[t] \in Quiet /\ ~tFresh'[t]  BY DEF Inv, Types, Pins, Quiet
<1>5. tBound'[t] = tBound[t]  BY DEF Inv, Types
<1>6. QED  BY <1>1, <1>2, <1>3, <1>4, <1>5, QuietStep DEF Inv

\* connect dials the socket and shakes hands.
LEMMA DialStep == ASSUME Inv, NEW t \in Threads, Dial(t) PROVE Inv'
<1> USE RendezvousConstants DEF To, hostVars, connVars, local, history, Tofu
<1>a. CASE Throws(t)  BY <1>a, ThrowsStep DEF Dial
<1>b. CASE ~Throws(t)
  <2>0. PICK h \in sock : tPeer' = [tPeer EXCEPT ![t] = {h}]  BY <1>b DEF Dial
  <2>1. h \in Hosts  BY DEF Inv, Types
  <2>2. /\ pc' = [pc EXCEPT ![t] = "fresh"]
        /\ UNCHANGED <<hostVars, pin, conns, tConn, connVars, history, tBound, tEntry, tFresh>>
    BY <1>b DEF Dial
  <2>3. Types' /\ Connections'  BY <2>0, <2>1, <2>2 DEF Inv, Types, Connections, Made
  <2>4. Others(t) /\ \A u \in Threads \ {t} : tConn'[u] = tConn[u]
    BY <2>0, <2>2 DEF Inv, Types, Others
  <2>5. pc'[t] = "fresh" /\ tPeer'[t] = {h} /\ tFresh'[t] = FALSE /\ tBound'[t] = tBound[t]
    BY <2>0, <2>2, <1>b DEF Inv, Types, Pins, Dial
  <2>6. Peers'  BY <2>1, <2>2, <2>4, <2>5 DEF Inv, Peers, AuthenticatedPeer, Made, Others
  <2>7. Pins'  BY <2>2, <2>4, <2>5 DEF Inv, Pins, PinnedBeforeUse, Made, Others
  <2>8. Binds'  BY <2>2, <2>4, <2>5 DEF Inv, Binds, PinHonoured, Others
  <2>9. QED  BY <2>2, <2>3, <2>6, <2>7, <2>8, PathFrame DEF Inv
<1>c. QED  BY <1>a, <1>b

\* freshly_pinned becomes true only where there is no pin, so that no call is
\* bound by one; where it stays false, a key has been pinned before.
LEMMA FreshStep == ASSUME Inv, NEW t \in Threads, Fresh(t) PROVE Inv'
<1> USE RendezvousConstants DEF Fresh, To, hostVars, connVars, local, history, Tofu
<1>1. Types' /\ Connections'  BY DEF Inv, Types, Connections, Made
<1>2. Others(t) /\ \A u \in Threads \ {t} : tConn'[u] = tConn[u]
  BY DEF Inv, Types, Others
<1>3. /\ pc'[t] = "shake" /\ tPeer'[t] = tPeer[t] /\ tBound'[t] = tBound[t]
      /\ tFresh'[t] <=> Tofu /\ pin = {}
  BY DEF Inv, Types
<1>4. Peers'  BY <1>2, <1>3 DEF Inv, Peers, AuthenticatedPeer, Made, Others
<1>5. Pins'  BY <1>2, <1>3 DEF Inv, Pins, PinnedBeforeUse, Made, Others
<1>6. Binds'
  <2>1. tFresh'[t] => \A u \in Threads : tBound[u] = {}  BY <1>3 DEF Inv, Binds
  <2>2. QED  BY <1>2, <1>3, <2>1 DEF Inv, Binds, PinHonoured, Others
<1>7. QED  BY <1>1, <1>4, <1>5, <1>6, PathFrame DEF Inv

\* The handshake compares the key with the entry's, and with the pin of the
\* moment: an empty one although freshly_pinned is false was emptied.
LEMMA ShakeStep == ASSUME Inv, NEW t \in Threads, Shake(t) PROVE Inv'
<1> USE RendezvousConstants DEF To, hostVars, connVars, local, history, Tofu
<1>a. CASE Throws(t)  BY <1>a, ThrowsStep DEF Shake
<1>b. CASE ~Throws(t)
  <2>0. PICK h \in tPeer[t] : Trusts(KeyOf[h], tEntry[t])  BY <1>b DEF Shake
  <2>1. /\ pc' = [pc EXCEPT ![t] = "pin"] /\ pc[t] = "shake"
        /\ UNCHANGED <<hostVars, pin, conns, tConn, connVars, history, tBound, tEntry,
                       tPeer, tFresh>>
    BY <1>b DEF Shake
  <2>2. h \in Hosts /\ tPeer[t] = {h}  BY <2>0, <2>1 DEF Inv, Types, Peers
  <2>3. /\ \A g \in tEntry[t] : KeyOf[g] = KeyOf[h]
        /\ Tofu => pin \subseteq {KeyOf[h]}
    BY <2>0 DEF Trusts
  <2>4. Types' /\ Connections'  BY <2>1 DEF Inv, Types, Connections, Made
  <2>5. Others(t) /\ pc'[t] = "pin"  BY <2>1 DEF Inv, Types, Others
  <2>6. Peers'  BY <2>1, <2>2, <2>3, <2>5 DEF Inv, Peers, AuthenticatedPeer, Made, Others
  <2>7. Tofu => tFresh[t] \/ emptied \/ KeyOf[h] \in pinned
    BY <2>1, <2>3 DEF Inv, Pins
  <2>8. Pins'  BY <2>1, <2>2, <2>5, <2>7 DEF Inv, Pins, PinnedBeforeUse, Made, Others
  <2>9. Tofu => \A k \in tBound[t] : k = KeyOf[h]  BY <2>3 DEF Inv, Binds
  <2>10. Binds'  BY <2>1, <2>2, <2>5, <2>9 DEF Inv, Binds, PinHonoured, Others
  <2>11. QED  BY <2>1, <2>4, <2>6, <2>8, <2>10, PathFrame DEF Inv
<1>c. QED  BY <1>a, <1>b

\* pin_peer: a thread that writes the pin is a first contact, so that no call
\* is bound by the pin it replaces.
LEMMA PinStep == ASSUME Inv, NEW t \in Threads, Pin(t) PROVE Inv'
<1> USE RendezvousConstants DEF Pin, To, hostVars, connVars, local, history, Tofu
<1>0. PICK h \in Hosts : tPeer[t] = {h}  BY DEF Inv, Peers
<1>1. \/ tFresh[t] /\ pin' = {KeyOf[h]} /\ pinned' = pinned \cup {KeyOf[h]}
      \/ ~tFresh[t] /\ pin' = pin /\ pinned' = pinned
  BY <1>0
<1>2. KeyOf[h] \in Keys  BY <1>0
<1>3. Types' /\ Connections'  BY <1>1, <1>2 DEF Inv, Types, Connections, Made
<1>4. Others(t) /\ \A u \in Threads \ {t} : tConn'[u] = tConn[u]
  BY DEF Inv, Types, Others
<1>5. /\ pc'[t] = "make" /\ tPeer'[t] = {h} /\ tEntry'[t] = tEntry[t]
      /\ tFresh'[t] = FALSE /\ tBound'[t] = tBound[t]
  BY <1>0 DEF Inv, Types
<1>6. Peers'  BY <1>0, <1>4, <1>5 DEF Inv, Peers, AuthenticatedPeer, Made, Others
<1>7. Tofu => emptied \/ KeyOf[h] \in pinned'  BY <1>0, <1>1 DEF Inv, Pins
<1>8. Pins'
  BY <1>1, <1>2, <1>4, <1>5, <1>7 DEF Inv, Pins, PinnedBeforeUse, Made, Others
<1>9. Binds'
  <2>1. tFresh[t] => \A u \in Threads : tBound[u] = {}  BY DEF Inv, Binds
  <2>2. QED  BY <1>0, <1>1, <1>4, <1>5, <2>1 DEF Inv, Binds, PinHonoured, Others
<1>10. QED  BY <1>3, <1>6, <1>8, <1>9, PathFrame DEF Inv

\* A pin that could not be written empties the file.
LEMMA PinFailsStep == ASSUME Inv, NEW t \in Threads, PinFails(t) PROVE Inv'
<1> USE RendezvousConstants DEF PinFails, To, hostVars, connVars, local, history, Tofu
<1>0. PICK h \in Hosts : tPeer[t] = {h}  BY DEF Inv, Peers
<1>1. lost' = lost \cup {KeyOf[h]}  BY <1>0
<1>2. KeyOf[h] \in Keys  BY <1>0
<1>3. Types' /\ Connections'  BY DEF Inv, Types, Connections, Made
<1>4. Others(t) /\ \A u \in Threads \ {t} : tConn'[u] = tConn[u]
  BY DEF Inv, Types, Others
<1>5. /\ pc'[t] = "make" /\ tPeer'[t] = {h} /\ tEntry'[t] = tEntry[t]
      /\ tFresh'[t] = FALSE /\ tBound'[t] = tBound[t]
  BY <1>0 DEF Inv, Types
<1>6. Peers'  BY <1>0, <1>4, <1>5 DEF Inv, Peers, AuthenticatedPeer, Made, Others
<1>7. Pins'
  <2>1. /\ emptied' \in BOOLEAN /\ (emptied => emptied') /\ (~emptied' => pin' = pin)
        /\ pin' \subseteq pin /\ UNCHANGED <<pinned, cHost>>
    BY DEF Inv, Pins
  <2>2. (Tofu => emptied' \/ \A d \in Made : KeyOf[cHost[d]] \in pinned' \cup lost')
    BY <1>1, <2>1 DEF Inv, Pins, PinnedBeforeUse
  <2>3. PinnedBeforeUse'  BY <2>1, <2>2 DEF PinnedBeforeUse, Made
  <2> HIDE DEF PinFails
  <2>4. QED  BY <1>1, <1>2, <1>4, <1>5, <2>1, <2>3 DEF Inv, Pins, Others
<1>8. Binds'
  <2>1. \A u \in Threads : tBound[u] = {}  BY DEF Inv, Binds
  <2>2. QED  BY <1>4, <1>5, <2>1 DEF Inv, Binds, PinHonoured, Others
<1>9. QED  BY <1>3, <1>6, <1>7, <1>8, PathFrame DEF Inv

\* A Connection object: the peer and the entry it is made from have one key.
LEMMA MakeStep == ASSUME Inv, NEW t \in Threads, Make(t) PROVE Inv'
<1> USE RendezvousConstants DEF To, hostVars, local, history, Tofu
<1> DEFINE c == Len(cHost) + 1
<1>0. PICK h \in Hosts : tPeer[t] = {h}  BY DEF Inv, Peers, Make
<1>1. PICK g \in tEntry[t] : cFrom' = Append(cFrom, g)  BY DEF Make
<1>2. /\ cHost' = Append(cHost, h) /\ cAlive' = cAlive \cup {c}
      /\ reading' = reading \cup {c} /\ tConn' = [tConn EXCEPT ![t] = {c}]
      /\ pc' = [pc EXCEPT ![t] = "store"] /\ pc[t] = "make"
      /\ UNCHANGED <<hostVars, pin, conns, tEntry, tPeer, tFresh, joined, history,
                     tBound>>
  BY <1>0 DEF Make
<1>3. g \in Hosts  BY DEF Inv, Types
<1>4. Len(cHost) \in Nat /\ Len(cFrom) = Len(cHost) /\ Made = 1 .. Len(cHost)
  BY DEF Inv, Connections, Made
<1>5. /\ cHost' \in Seq(Hosts) /\ cFrom' \in Seq(Hosts)
      /\ Len(cHost') = c /\ Len(cFrom') = c /\ Made' = 1 .. c
      /\ cHost'[c] = h /\ cFrom'[c] = g
      /\ \A d \in Made : cHost'[d] = cHost[d] /\ cFrom'[d] = cFrom[d]
  BY <1>1, <1>2, <1>3, <1>4 DEF Inv, Connections, Made
<1>6. Made' = Made \cup {c} /\ c \notin Made  BY <1>4, <1>5
<1> HIDE DEF c
<1>7. Connections'  BY <1>2, <1>5, <1>6 DEF Inv, Connections
<1>8. Types'  BY <1>2, <1>6 DEF Inv, Types
<1>9. Others(t) /\ pc'[t] = "store" /\ tConn'[t] = {c}
      /\ \A u \in Threads \ {t} : tConn'[u] = tConn[u]
  BY <1>2 DEF Inv, Types, Others
<1>10. Peers'
  <2>1. KeyOf[h] = KeyOf[g]  BY <1>0, <1>1, <1>2 DEF Inv, Peers
  <2>2. AuthenticatedPeer'
    BY <2>1, <1>5, <1>6 DEF Inv, Peers, AuthenticatedPeer
  <2>3. QED  BY <2>2, <1>9 DEF Inv, Peers, Others
<1>11. Pins'
  BY <1>0, <1>2, <1>5, <1>6, <1>9, ZenonT(30) DEF Inv, Pins, PinnedBeforeUse, Others
<1>12. Binds'
  <2>1. \A u \in Threads : tConn[u] \subseteq Made  BY DEF Inv, Types
  <2>2. Tofu => \A k \in tBound[t] : KeyOf[h] = k  BY <1>0, <1>2 DEF Inv, Binds
  <2>3. ASSUME NEW u \in Threads, Tofu, pc'[u] = "store",
               NEW k \in tBound'[u], NEW d \in tConn'[u]
        PROVE  KeyOf[cHost'[d]] = k
    <3>1. CASE u = t  BY <3>1, <2>2, <2>3, <1>2, <1>5, <1>9
    <3>2. CASE u # t
      <4>1. pc[u] = "store" /\ k \in tBound[u] /\ d \in tConn[u] /\ cHost'[d] = cHost[d]
        BY <3>2, <2>1, <2>3, <1>2, <1>5, <1>9 DEF Others
      <4>2. QED  BY <4>1, <2>3 DEF Inv, Binds, PinHonoured
    <3>3. QED  BY <3>1, <3>2
  <2>4. PinHonoured'  BY <2>3, <1>2 DEF PinHonoured
  <2>5. QED  BY <1>2, <1>9, <2>4 DEF Inv, Binds, Others
<1>13. QED  BY <1>2, <1>7, <1>8, <1>10, <1>11, <1>12, PathFrame DEF Inv

\* connect caches its connection.
LEMMA StoreStep == ASSUME Inv, NEW t \in Threads, Store(t) PROVE Inv'
<1> USE RendezvousConstants DEF Store, To, hostVars, connVars, local, history
<1>1. Types'  BY DEF Inv, Types, Connections, Made
<1>2. Connections'  BY DEF Inv, Types, Connections, Made
<1>3. Others(t) /\ \A u \in Threads \ {t} : tConn'[u] = tConn[u]
  BY DEF Inv, Types, Others
<1>4. pc'[t] \in Quiet /\ ~tFresh'[t]  BY DEF Inv, Types, Pins, Quiet
<1>5. tBound'[t] = tBound[t]  BY DEF Inv, Types
<1>6. QED  BY <1>1, <1>2, <1>3, <1>4, <1>5, QuietStep DEF Inv

\* connect returns.
LEMMA ReleaseStep == ASSUME Inv, NEW t \in Threads, Release(t) PROVE Inv'
<1> USE RendezvousConstants DEF Release, To, hostVars, connVars, local, history, Throws
<1>1. Types'  BY DEF Inv, Types, Connections, Made
<1>2. Connections'  BY DEF Inv, Types, Connections, Made
<1>3. Others(t) /\ \A u \in Threads \ {t} : tConn'[u] = tConn[u]
  BY DEF Inv, Types, Others
<1>4. pc'[t] \in Quiet /\ ~tFresh'[t]  BY DEF Inv, Types, Pins, Quiet
<1>5. tBound'[t] = tBound[t]  BY DEF Inv, Types
<1>6. QED  BY <1>1, <1>2, <1>3, <1>4, <1>5, QuietStep DEF Inv

\* disconnect takes a connection out of the cache.
LEMMA CloseTakesStep == ASSUME Inv, NEW t \in Threads, CloseTakes(t) PROVE Inv'
<1> USE RendezvousConstants DEF CloseTakes, To, hostVars, connVars, local, history
<1>1. Types'  BY DEF Inv, Types, Connections, Made
<1>2. Connections'  BY DEF Inv, Types, Connections, Made
<1>3. Others(t) /\ \A u \in Threads \ {t} : tConn'[u] = tConn[u]
  BY DEF Inv, Types, Others
<1>4. pc'[t] \in Quiet /\ ~tFresh'[t]  BY DEF Inv, Types, Pins, Quiet
<1>5. tBound'[t] = tBound[t]  BY DEF Inv, Types
<1>6. QED  BY <1>1, <1>2, <1>3, <1>4, <1>5, QuietStep DEF Inv

\* disconnect closes it.
LEMMA CloseEndsStep == ASSUME Inv, NEW t \in Threads, CloseEnds(t) PROVE Inv'
<1> USE RendezvousConstants DEF CloseEnds, To, hostVars, connVars, local, history
<1>1. Types'  BY DEF Inv, Types, Connections, Made
<1>2. Connections'  BY DEF Inv, Types, Connections, Made
<1>3. Others(t) /\ \A u \in Threads \ {t} : tConn'[u] = tConn[u]
  BY DEF Inv, Types, Others
<1>4. pc'[t] \in Quiet /\ ~tFresh'[t]  BY DEF Inv, Types, Pins, Quiet
<1>5. tBound'[t] = tBound[t]  BY DEF Inv, Types
<1>6. QED  BY <1>1, <1>2, <1>3, <1>4, <1>5, QuietStep DEF Inv

\* disconnect joins its reader.
LEMMA CloseJoinsStep == ASSUME Inv, NEW t \in Threads, CloseJoins(t) PROVE Inv'
<1> USE RendezvousConstants DEF CloseJoins, To, hostVars, connVars, local, history
<1>1. Types'  BY DEF Inv, Types, Connections, Made
<1>2. Connections'  BY DEF Inv, Types, Connections, Made
<1>3. Others(t) /\ \A u \in Threads \ {t} : tConn'[u] = tConn[u]
  BY DEF Inv, Types, Others
<1>4. pc'[t] \in Quiet /\ ~tFresh'[t]  BY DEF Inv, Types, Pins, Quiet
<1>5. tBound'[t] = tBound[t]  BY DEF Inv, Types
<1>6. QED  BY <1>1, <1>2, <1>3, <1>4, <1>5, QuietStep DEF Inv

\* A reader thread ends.
LEMMA ReaderEndsStep == ASSUME Inv, NEW c, ReaderEnds(c) PROVE Inv'
<1> USE DEF Inv, ReaderEnds, hostVars, connVars, local, history
<1>1. Types'  BY DEF Types, Made
<1>2. Connections'  BY DEF Connections, Made
<1>3. Peers'  BY DEF Peers, AuthenticatedPeer, Made
<1>4. Pins'  BY DEF Pins, PinnedBeforeUse, Made
<1>5. Binds'  BY DEF Binds, PinHonoured
<1>6. QED  BY <1>1, <1>2, <1>3, <1>4, <1>5, PathFrame

\* Nothing changes.
LEMMA StutterStep == ASSUME Inv, UNCHANGED vars PROVE Inv'
<1> USE DEF Inv, vars, hostVars, connVars, local, history
<1>1. Types' /\ Connections'  BY DEF Types, Connections, Made
<1>2. Peers'  BY DEF Peers, AuthenticatedPeer, Made
<1>3. Pins'  BY DEF Pins, PinnedBeforeUse, Made
<1>4. Binds'  BY DEF Binds, PinHonoured
<1>5. QED  BY <1>1, <1>2, <1>3, <1>4, PathFrame

\* Every step preserves the invariant.
LEMMA NextInv == Inv /\ [Next]_vars => Inv'
<1> SUFFICES ASSUME Inv, [Next]_vars PROVE Inv'  OBVIOUS
<1>1. CASE UNCHANGED vars  BY <1>1, StutterStep
<1>2. ASSUME NEW h \in Hosts,
             \/ HostListens(h) \/ HostPublishes(h) \/ HostStops(h) \/ HostCloses(h)
             \/ HostUnpublishes(h) \/ HostDestroyed(h) \/ HostCrashes(h)
      PROVE  Inv'
  BY <1>2, HostStep
<1>3. ASSUME NEW t \in Threads,
             \/ Cached(t) \/ Lookup(t) \/ Prune(t) \/ Trust(t) \/ Dial(t) \/ Fresh(t)
             \/ Shake(t)
      PROVE  Inv'
  BY <1>3, CachedStep, LookupStep, PruneStep, TrustStep, DialStep, FreshStep, ShakeStep
<1>4. ASSUME NEW t \in Threads,
             \/ Pin(t) \/ PinFails(t) \/ Make(t) \/ Store(t) \/ Release(t)
             \/ CloseTakes(t) \/ CloseEnds(t) \/ CloseJoins(t)
      PROVE  Inv'
  BY <1>4, PinStep, PinFailsStep, MakeStep, StoreStep, ReleaseStep, CloseTakesStep,
     CloseEndsStep, CloseJoinsStep
<1>5. ASSUME NEW c \in 1 .. MaxConns, ReaderEnds(c) PROVE Inv'  BY <1>5, ReaderEndsStep
<1>6. QED  BY <1>1, <1>2, <1>3, <1>4, <1>5 DEF Next

\* The invariant holds throughout.
THEOREM InvHolds == Spec => []Inv
  BY InitInv, NextInv, PTL DEF Spec

-----------------------------------------------------------------------------
(* What follows from it.                                                   *)

\* A set of at most one element.
LEMMA AtMostOne == ASSUME NEW S, S = {} \/ \E x : S = {x} PROVE Cardinality(S) <= 1
<1>1. CASE S = {}
  <2>1. Cardinality(S) = 0  BY <1>1, FS_EmptySet
  <2>2. QED  BY <2>1
<1>2. CASE \E x : S = {x}
  <2>1. PICK x : S = {x}  BY <1>2
  <2>2. Cardinality(S) = 1  BY <2>1, FS_Singleton
  <2>3. QED  BY <2>2
<1>3. QED  BY <1>1, <1>2

\* The variables of the registry, the socket path, the pin file and the calls
\* keep their types; there is one entry, one socket and one pin at most, and
\* no reader thread runs whose Connection was joined.
THEOREM TypeCorrect == Spec => []TypeOK
<1>1. Inv => TypeOK
  <2> SUFFICES ASSUME Inv PROVE TypeOK  OBVIOUS
  <2>1. Cardinality(entry) <= 1 /\ Cardinality(sock) <= 1 /\ Cardinality(pin) <= 1
    BY AtMostOne DEF Inv, Types
  <2>2. DOMAIN cFrom = Made  BY DEF Inv, Connections, Made
  <2>3. pin \in SUBSET Keys  BY DEF Inv, Types
  <2>4. QED  BY <2>1, <2>2, <2>3 DEF Inv, Types, Connections, Pins, TypeOK
<1>2. QED  BY <1>1, InvHolds, PTL

\* get_or_connect never hands out a Connection with another identity than the
\* registry entry named, however the socket path changes hands meanwhile.
THEOREM PeersAreAuthenticated == Spec => []AuthenticatedPeer
<1>1. Inv => AuthenticatedPeer  BY DEF Inv, Peers
<1>2. QED  BY <1>1, InvHolds, PTL

\* Under TrustOnFirstUse the key of every peer was pinned before its
\* Connection was made, unless its write failed or a failed write emptied a
\* pin: freshly_pinned is read early, but never acted on wrongly.
THEOREM PeersArePinned == Spec => []PinnedBeforeUse
<1>1. Inv => PinnedBeforeUse  BY DEF Inv, Pins
<1>2. QED  BY <1>1, InvHolds, PTL

\* A call that began with a pin and no first contact under way gets a
\* Connection with the pinned peer or none.
THEOREM PinsAreHonoured == Spec => []PinHonoured
<1>1. Inv => PinHonoured  BY DEF Inv, Binds
<1>2. QED  BY <1>1, InvHolds, PTL

\* While instances do not overlap, the socket at the path is that of the one
\* that listens: close() unlinks once, before the successor can bind.
THEOREM PathIsOurs == Spec => []SocketIsOurs
<1>1. Inv => SocketIsOurs  BY DEF Inv, Path
<1>2. QED  BY <1>1, InvHolds, PTL
=============================================================================
