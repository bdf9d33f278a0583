--------------------------- MODULE SessionProofs ---------------------------
(***************************************************************************)
(* Proofs about Session: type correctness, and that no AEAD nonce is used  *)
(* twice, for every number of threads, epochs, frames and buffer sizes.    *)
(***************************************************************************)
EXTENDS Session, TLAPS, FiniteSetTheorems

\* Only the holder of write_mutex is inside seal_and_send's critical section.
LockInv ==
    \A s \in Senders : spc[s] \in {"locked", "offered", "frame"} <=> wlock = {s}

\* An ephemeral on its way to becoming a key is newer than the client's key,
\* and at most one is on its way: in the offering thread, in pending_eph or in
\* the reader.
OfferInv ==
    /\ cTx.key.c <= ephs
    /\ \A s \in Senders : spc[s] = "offered" =>
          ~rekeying /\ cTx.key.c < offer /\ offer <= ephs
    /\ pendingEph # {} => rekeying
    /\ \A e \in pendingEph : cTx.key.c < e /\ e <= ephs
    /\ rpc = "switch" =>
          rekeying /\ pendingEph = {} /\ cTx.key.c < newKey.c /\ newKey.c <= ephs

\* Every client nonce belongs to an older key, or to the current one with a
\* counter already passed.
ClientNonceInv ==
    \A n \in sealed : n.dir = "c2s" =>
        /\ n.key.c <= cTx.key.c
        /\ n.key.c = cTx.key.c => n.ctr < cTx.ctr

\* The same for the host, as long as it may still send: a failed ack leaves
\* its nonce used and the counter in place, but clears alive.
HostNonceInv ==
    /\ hTx.key.s <= ephs
    /\ hAlive => \A n \in sealed : n.dir = "s2c" =>
          /\ n.key.s <= hTx.key.s
          /\ n.key.s = hTx.key.s => n.ctr < hTx.ctr

NonceInv == LockInv /\ OfferInv /\ ClientNonceInv /\ HostNonceInv /\ NonceUnique

-----------------------------------------------------------------------------
\* What the receive-side helpers return has the type of a receive state.
LEMMA RxTypes ==
    ASSUME NEW rx \in KeyState, NEW pend \in SUBSET Key, NEW f \in Frame
    PROVE  /\ RxAfter(rx, f) \in KeyState
           /\ PendAfter(rx, pend, f) \in SUBSET Key
BY DEF RxAfter, PendAfter, KeyState, Frame

\* A sealed frame is a frame.
LEMMA SealType ==
    ASSUME NEW tx \in KeyState, NEW body \in Nat,
           NEW type \in {"Data", "Rekey", "RekeyAck", "Error", "Garbled"}
    PROVE  Seal(tx, type, body) \in Frame
BY DEF Seal, KeyState, Frame

\* Reading a frame from a channel.
LEMMA ChanTypes ==
    ASSUME NEW ch \in Seq(Frame)
    PROVE  /\ ch # <<>> => Head(ch) \in Frame /\ Tail(ch) \in Seq(Frame)
           /\ \A f \in Frame : Append(ch, f) \in Seq(Frame)
OBVIOUS

\* The key state handshake hands over is well typed.
LEMMA HandshakeType == HandshakeKeys \in KeyState /\ HandshakeKeys.key \in Key
BY DEF HandshakeKeys, KeyState, Key


\* The initial state is well typed.
LEMMA InitTypes == Init => TypeOK
<1> SUFFICES ASSUME Init PROVE TypeOK
  OBVIOUS
<1>1. ChansOK
  BY DEF Init, ChansOK
<1>2. CSendOK
  BY HandshakeType DEF Init, CSendOK
<1>3. CReadOK
  BY HandshakeType DEF Init, CReadOK
<1>4. HThreadOK
  BY HandshakeType DEF Init, HThreadOK
<1>5. HSendOK
  BY HandshakeType DEF Init, HSendOK
<1>6. HistoryOK
  BY DEF Init, HistoryOK
<1>7. cAlive \in BOOLEAN
  BY DEF Init
<1>8. QED
  BY <1>1, <1>2, <1>3, <1>4, <1>5, <1>6, <1>7 DEF TypeOK

\* What send_frame_locked leaves behind is well typed.
LEMMA ClientSealTypes ==
    ASSUME TypeOK, NEW type \in {"Data", "Rekey"}, NEW body \in Nat,
           NEW ok \in BOOLEAN, ClientSeal(type, body, ok)
    PROVE  /\ c2s' \in Seq(Frame) /\ cTx' \in KeyState
           /\ cFault' \in {"none", "gap", "torn"}
           /\ sealed' \in SUBSET Nonce /\ seals' \in Nat
<1>1. c2s \in Seq(Frame) /\ cTx \in KeyState /\ cFault \in {"none", "gap", "torn"}
      /\ sealed \in SUBSET Nonce /\ seals \in Nat
  BY DEF TypeOK, ChansOK, CSendOK, HistoryOK
<1>2. Seal(cTx, IF cFault = "torn" THEN "Garbled" ELSE type, body) \in Frame
  BY <1>1, SealType
<1>3. c2s' \in Seq(Frame) /\ cFault' \in {"none", "gap", "torn"}
  BY <1>1, <1>2, ChanTypes DEF ClientSeal
<1>4. cTx' \in KeyState /\ sealed' \in SUBSET Nonce /\ seals' \in Nat
  BY <1>1 DEF ClientSeal, KeyState, Nonce
<1>5. QED
  BY <1>3, <1>4

\* What send_sealed leaves behind is well typed.
LEMMA HostSealTypes ==
    ASSUME TypeOK, NEW type \in {"Data", "Error"}, NEW body \in Nat,
           NEW ok \in BOOLEAN, HostSeal(type, body, ok)
    PROVE  /\ s2c' \in Seq(Frame) /\ hTx' \in KeyState /\ hAlive' \in BOOLEAN
           /\ sealed' \in SUBSET Nonce /\ seals' \in Nat
<1>1. s2c \in Seq(Frame) /\ hTx \in KeyState /\ hAlive \in BOOLEAN
      /\ sealed \in SUBSET Nonce /\ seals \in Nat
  BY DEF TypeOK, ChansOK, HSendOK, HistoryOK
<1>2. Seal(hTx, type, body) \in Frame
  BY <1>1, SealType
<1>3. s2c' \in Seq(Frame) /\ hAlive' \in BOOLEAN
  BY <1>1, <1>2, ChanTypes DEF HostSeal
<1>4. hTx' \in KeyState /\ sealed' \in SUBSET Nonce /\ seals' \in Nat
  BY <1>1 DEF HostSeal, KeyState, Nonce
<1>5. QED
  BY <1>3, <1>4

\* Steps of the client's senders keep the types.
LEMMA SenderTypes ==
    ASSUME TypeOK, NEW s \in Senders, Call(s) \/ SenderStep(s)
    PROVE  TypeOK'
<1> USE DEF TypeOK, ChansOK, CSendOK, CReadOK, HThreadOK, HSendOK, HistoryOK
<1> USE DEF chans, cSend, cRead, hThread, hSend, history
<1>1. CASE Call(s)
  BY <1>1 DEF Call
<1>2. CASE Lock(s)
  BY <1>2 DEF Lock
<1>3. CASE NotDue(s)
  BY <1>3 DEF NotDue
<1>4. CASE BeginRekey(s)
  <2>1. PICK ok \in BOOLEAN :
           /\ ClientSeal("Rekey", ephs + 1, ok)
           /\ offer' = IF ok THEN ephs + 1 ELSE offer
           /\ spc' = [spc EXCEPT ![s] = IF ok THEN "offered" ELSE "frame"]
    BY <1>4 DEF BeginRekey
  <2>2. ephs + 1 \in Nat
    OBVIOUS
  <2>3. /\ c2s' \in Seq(Frame) /\ cTx' \in KeyState
        /\ cFault' \in {"none", "gap", "torn"}
        /\ sealed' \in SUBSET Nonce /\ seals' \in Nat
    BY <2>1, <2>2, ClientSealTypes
  <2>4. /\ spc' \in [Senders -> {"idle", "wait", "locked", "offered", "frame"}]
        /\ offer' \in Nat
    BY <2>1
  <2>5. QED
    BY <1>4, <2>3, <2>4 DEF BeginRekey
<1>5. CASE StoreEph(s)
  BY <1>5 DEF StoreEph
<1>6. CASE SendFrame(s)
  <2>1. PICK ok \in BOOLEAN : ClientSeal("Data", cSent + 1, ok)
    BY <1>6 DEF SendFrame
  <2>2. cSent + 1 \in Nat
    OBVIOUS
  <2>3. /\ c2s' \in Seq(Frame) /\ cTx' \in KeyState
        /\ cFault' \in {"none", "gap", "torn"}
        /\ sealed' \in SUBSET Nonce /\ seals' \in Nat
    BY <2>1, <2>2, ClientSealTypes
  <2>4. QED
    BY <1>6, <2>3 DEF SendFrame
<1>7. QED
  BY <1>1, <1>2, <1>3, <1>4, <1>5, <1>6 DEF SenderStep

\* Where the reader and the connection thread go when they leave their loop,
\* or stay in it.
LEMMA ExitTypes ==
    ASSUME TypeOK
    PROVE  /\ \A w \in {"bad", "error", "unsolicited", "eof"} : ReaderExit(w) =>
                 /\ rpc' \in {"read", "switch", "done"} /\ cAlive' \in BOOLEAN
                 /\ rWhy' \in {"none", "bad", "error", "unsolicited", "eof"}
           /\ \A w \in {"bad", "exhausted", "ackfail", "told", "untold", "eof"} :
                 HostExit(w) =>
                 /\ hpc' \in {"read", "ack", "reply", "limit", "told", "untold", "done"}
                 /\ hWhy' \in {"none", "bad", "exhausted", "ackfail", "told",
                               "untold", "eof"}
                 /\ hAlive' \in BOOLEAN /\ hOpen' \in BOOLEAN
           /\ \A pc \in {"read", "ack", "reply", "limit"} : HostStays(pc) =>
                 /\ hpc' \in {"read", "ack", "reply", "limit", "told", "untold", "done"}
                 /\ hWhy' \in {"none", "bad", "exhausted", "ackfail", "told",
                               "untold", "eof"}
                 /\ hAlive' \in BOOLEAN /\ hOpen' \in BOOLEAN
BY DEF ReaderExit, HostExit, HostStays, TypeOK, ChansOK, HThreadOK, HSendOK

\* Steps of the client's reader thread keep the types.
LEMMA ReaderTypes ==
    ASSUME TypeOK, ReaderStep
    PROVE  TypeOK'
<1> USE ExitTypes
<1> USE DEF TypeOK, ChansOK, CSendOK, CReadOK, HThreadOK, HSendOK, HistoryOK
<1> USE DEF chans, cSend, cRead, hThread, hSend, history, ReaderLeaves
<1>1. ReaderTakes => Head(s2c) \in Frame /\ s2c' \in Seq(Frame)
  BY ChanTypes DEF ReaderTakes
<1>2. ReaderTakes /\ ReaderOpens => cRx' \in KeyState /\ cPend' \in SUBSET Key
  BY <1>1, RxTypes DEF ReaderOpens
<1>4. CASE ReaderData
  <2>1. Head(s2c).body \in Nat
    BY <1>1, <1>4 DEF ReaderData, Frame
  <2>2. cGot' \in Seq(Nat)
    BY <1>4, <2>1 DEF ReaderData
  <2>3. QED
    BY <1>1, <1>2, <1>4, <2>2 DEF ReaderData
<1>5. CASE ReaderBreaks
  <2>1. CASE Accepts(cRx, cPend, Head(s2c))
    BY <1>1, <1>2, <1>5, <2>1 DEF ReaderBreaks
  <2>2. CASE ~Accepts(cRx, cPend, Head(s2c))
    BY <1>1, <1>5, <2>2 DEF ReaderBreaks
  <2>3. QED
    BY <2>1, <2>2
<1>6. CASE ReaderAck
  <2>1. Head(s2c).body \in Nat
    BY <1>1, <1>6 DEF ReaderAck, Frame
  <2>2. newKey' \in Key
    BY <1>6, <2>1 DEF ReaderAck, Key
  <2>3. /\ rpc' \in {"read", "switch", "done"} /\ cAlive' \in BOOLEAN
        /\ rWhy' \in {"none", "bad", "error", "unsolicited", "eof"}
        /\ pendingEph' \in SUBSET Nat
    BY <1>6 DEF ReaderAck
  <2>4. QED
    BY <1>1, <1>2, <1>6, <2>2, <2>3 DEF ReaderAck
<1>7. CASE ReaderSwitch
  <2>1. cTx' \in KeyState
    BY <1>7 DEF ReaderSwitch, InstallTx, KeyState
  <2>2. rekeying' \in BOOLEAN
    BY <1>7 DEF ReaderSwitch
  <2>3. /\ cPend' = {newKey} /\ rpc' = "read"
        /\ UNCHANGED <<chans, spc, wlock, offer, pendingEph, cFault, cAlive, rWhy,
                       cRx, newKey, death, hThread, hSend, history>>
    BY <1>7 DEF ReaderSwitch
  <2>4. QED
    BY <2>1, <2>2, <2>3
<1>8. CASE ReaderEof
  BY <1>8 DEF ReaderEof
<1>9. QED
  BY <1>4, <1>5, <1>6, <1>7, <1>8 DEF ReaderStep

\* Steps of the host's connection thread keep the types.
LEMMA HostTypes ==
    ASSUME TypeOK, HostStep
    PROVE  TypeOK'
<1> USE SessionConstants
<1> USE ExitTypes
<1> USE DEF TypeOK, ChansOK, CSendOK, CReadOK, HThreadOK, HSendOK, HistoryOK
<1> USE DEF chans, cSend, cRead, hThread, hSend, history, HostLeaves
<1>1. HostTakes => Head(c2s) \in Frame /\ c2s' \in Seq(Frame)
  BY ChanTypes DEF HostTakes
<1>2. HostTakes /\ HostOpens => hRx' \in KeyState /\ hPend' \in SUBSET Key
  BY <1>1, RxTypes DEF HostOpens
<1>3. CASE HostBad
  BY <1>1, <1>3 DEF HostBad
<1>4. CASE HostSkip
  BY <1>1, <1>4 DEF HostSkip
<1>5. CASE HostRekey
  <2>1. Head(c2s).body \in Nat
    BY <1>1, <1>5 DEF HostRekey, Frame
  <2>2. QED
    BY <1>1, <1>2, <1>5, <2>1 DEF HostRekey
<1>6. CASE HostData
  <2>1. [body |-> Head(c2s).body, epoch |-> Head(c2s).epoch]
           \in [body : Nat, epoch : Nat]
    BY <1>1, <1>6 DEF HostData, Frame
  <2>2. hGot' \in Seq([body : Nat, epoch : Nat])
    BY <1>6, <2>1 DEF HostData
  <2>3. hLeft' \in Nat
    BY <1>6 DEF HostData
  <2>4. QED
    BY <1>1, <1>2, <1>6, <2>2, <2>3 DEF HostData
<1>7. CASE HostAck
  <2>1. ephs + 1 \in Nat
    OBVIOUS
  <2>2. s2c' \in Seq(Frame)
    BY <1>7, <2>1, SealType, ChanTypes DEF HostAck
  <2>3. [c |-> hEph, s |-> ephs + 1] \in Key
    BY DEF Key
  <2>4. hTx' \in KeyState /\ hPend' \in SUBSET Key
    BY <1>7, <2>3, SMTT(30) DEF HostAck, KeyState
  <2>5. sealed' \in SUBSET Nonce /\ seals' \in Nat
    BY <1>7, SMTT(30) DEF HostAck, KeyState, Nonce
  <2>6. QED
    BY <1>7, <2>2, <2>4, <2>5 DEF HostAck
<1>8. CASE HostAckFails
  <2>1. sealed' \in SUBSET Nonce /\ seals' \in Nat
    BY <1>8 DEF HostAckFails, KeyState, Nonce
  <2>2. QED
    BY <1>8, <2>1 DEF HostAckFails
<1>9. CASE HostReply
  <2>1. hSent + 1 \in Nat /\ hLeft' \in Nat
    BY <1>9 DEF HostReply
  <2>2. /\ s2c' \in Seq(Frame) /\ hTx' \in KeyState /\ hAlive' \in BOOLEAN
        /\ sealed' \in SUBSET Nonce /\ seals' \in Nat /\ hSent' \in Nat
    BY <1>9, <2>1, HostSealTypes DEF HostReply
  <2>3. QED
    BY <1>9, <2>1, <2>2 DEF HostReply
<1>10. CASE HostReplied
  BY <1>10 DEF HostReplied
<1>11. CASE HostLimit
  <2>1. /\ s2c' \in Seq(Frame) /\ hTx' \in KeyState /\ hAlive' \in BOOLEAN
        /\ sealed' \in SUBSET Nonce /\ seals' \in Nat
        /\ hpc' \in {"told", "untold"}
    BY <1>11, HostSealTypes DEF HostLimit
  <2>2. QED
    BY <1>11, <2>1 DEF HostLimit
<1>12. CASE HostLimitClose
  BY <1>12 DEF HostLimitClose
<1>13. CASE HostEof
  BY <1>13 DEF HostEof
<1>14. QED
  BY <1>3, <1>4, <1>5, <1>6, <1>7, <1>8, <1>9, <1>10, <1>11, <1>12, <1>13
     DEF HostStep

\* The remaining steps keep the types.
LEMMA OtherTypes ==
    ASSUME TypeOK, Publish \/ Disconnect \/ StopBegins \/ StopCloses
    PROVE  TypeOK'
<1> USE DEF TypeOK, ChansOK, CSendOK, CReadOK, HThreadOK, HSendOK, HistoryOK
<1> USE DEF chans, cSend, cRead, hThread, hSend, history
<1>1. CASE Publish
  <2>1. hSent + 1 \in Nat
    OBVIOUS
  <2>2. /\ s2c' \in Seq(Frame) /\ hTx' \in KeyState /\ hAlive' \in BOOLEAN
        /\ sealed' \in SUBSET Nonce /\ seals' \in Nat /\ hSent' \in Nat
    BY <1>1, <2>1, HostSealTypes DEF Publish
  <2>3. QED
    BY <1>1, <2>2 DEF Publish
<1>2. CASE Disconnect
  <2>1. cAlive' \in BOOLEAN /\ cOpen' \in BOOLEAN
    BY <1>2 DEF Disconnect
  <2>2. UNCHANGED <<c2s, s2c, hOpen, cSend, cRead, hThread, hSend, history>>
    BY <1>2 DEF Disconnect
  <2>3. QED
    BY <2>1, <2>2
<1>3. CASE StopBegins
  BY <1>3 DEF StopBegins
<1>4. CASE StopCloses
  <2>1. hOpen' \in BOOLEAN
    BY <1>4 DEF StopCloses
  <2>2. UNCHANGED <<c2s, s2c, cOpen, cSend, cAlive, cRead, hThread, hSend, history>>
    BY <1>4 DEF StopCloses
  <2>3. QED
    BY <2>1, <2>2
<1>5. QED
  BY <1>1, <1>2, <1>3, <1>4

\* Every step keeps the types.
LEMMA StepTypes == TypeOK /\ [Next]_vars => TypeOK'
<1> SUFFICES ASSUME TypeOK, [Next]_vars PROVE TypeOK'
  OBVIOUS
<1>1. CASE Next
  BY <1>1, SenderTypes, ReaderTypes, HostTypes, OtherTypes DEF Next
<1>2. CASE UNCHANGED vars
  BY <1>2 DEF vars, chans, cSend, cRead, hThread, hSend, history,
     TypeOK, ChansOK, CSendOK, CReadOK, HThreadOK, HSendOK, HistoryOK
<1>3. QED
  BY <1>1, <1>2

\* The state of a session is always well typed: the counters, epochs, pending
\* keys and frames on the wire stay what the code's declarations say they are.
THEOREM TypeCorrect == Spec => []TypeOK
<1>1. QED
  BY InitTypes, StepTypes, PTL DEF Spec

-----------------------------------------------------------------------------
(* No nonce is used twice.                                                 *)

\* One more nonce, and one more seal call.
LEMMA AddNonce ==
    ASSUME NonceUnique, NEW n, n \notin sealed, seals \in Nat,
           sealed' = sealed \cup {n}, seals' = seals + 1
    PROVE  NonceUnique'
BY FS_AddElement DEF NonceUnique

\* send_frame_locked uses a nonce no earlier frame used.
LEMMA ClientSealNonce ==
    ASSUME TypeOK, NonceInv, NEW type, NEW body, NEW ok, ClientSeal(type, body, ok)
    PROVE  /\ NonceUnique' /\ ClientNonceInv'
           /\ cTx'.key = cTx.key
           /\ \A n \in sealed' : n.dir = "s2c" => n \in sealed
<1> DEFINE n0 == [dir |-> "c2s", key |-> cTx.key, ctr |-> cTx.ctr]
<1>1. /\ cTx \in KeyState /\ sealed \in SUBSET Nonce /\ seals \in Nat
  BY DEF TypeOK, CSendOK, HistoryOK
<1>2. /\ cTx.key.c \in Nat /\ cTx.ctr \in Nat
      /\ cTx' = [cTx EXCEPT !.ctr = @ + 1]
      /\ sealed' = sealed \cup {n0} /\ seals' = seals + 1
  BY <1>1 DEF ClientSeal, KeyState, Key
<1>3. cTx'.key = cTx.key /\ cTx'.ctr = cTx.ctr + 1
  BY <1>1, <1>2 DEF KeyState
<1>4. n0.dir = "c2s" /\ n0.key = cTx.key /\ n0.ctr = cTx.ctr
  OBVIOUS
<1> HIDE DEF n0
<1>5. n0 \notin sealed
  BY <1>2, <1>4 DEF NonceInv, ClientNonceInv
<1>6. NonceUnique'
  BY <1>1, <1>2, <1>5, AddNonce DEF NonceInv
<1>7. ClientNonceInv'
  <2> SUFFICES ASSUME NEW n \in sealed', n.dir = "c2s"
               PROVE  /\ n.key.c <= cTx'.key.c
                      /\ n.key.c = cTx'.key.c => n.ctr < cTx'.ctr
    BY DEF ClientNonceInv
  <2>1. CASE n = n0
    BY <1>2, <1>3, <1>4, <2>1
  <2>2. CASE n \in sealed
    <3>1. n.key.c \in Nat /\ n.ctr \in Nat
      BY <1>1, <2>2 DEF Nonce, Key
    <3>2. QED
      BY <1>2, <1>3, <2>2, <3>1 DEF NonceInv, ClientNonceInv
  <2>3. QED
    BY <1>2, <2>1, <2>2
<1>8. \A n \in sealed' : n.dir = "s2c" => n \in sealed
  BY <1>2, <1>4
<1>9. QED
  BY <1>3, <1>6, <1>7, <1>8

\* The nonce the host is about to use is new, as long as the connection is
\* alive; using it keeps all nonces unique.
LEMMA HostNonceFresh ==
    ASSUME TypeOK, NonceInv, hAlive, NEW n0,
           n0 = [dir |-> "s2c", key |-> hTx.key, ctr |-> hTx.ctr],
           sealed' = sealed \cup {n0}, seals' = seals + 1
    PROVE  /\ NonceUnique'
           /\ \A n \in sealed' : n.dir = "c2s" => n \in sealed
           /\ \A n \in sealed' : n.dir = "s2c" =>
                 /\ n.key.s \in Nat /\ n.key.s <= hTx.key.s
                 /\ n.key.s = hTx.key.s => n.ctr \in Nat /\ n.ctr <= hTx.ctr
<1>1. /\ hTx \in KeyState /\ sealed \in SUBSET Nonce /\ seals \in Nat
  BY DEF TypeOK, HSendOK, HistoryOK
<1>2. hTx.key.s \in Nat /\ hTx.ctr \in Nat
  BY <1>1 DEF KeyState, Key
<1>3. n0.dir = "s2c" /\ n0.key = hTx.key /\ n0.ctr = hTx.ctr
  OBVIOUS
<1>4. \A n \in sealed : n.dir = "s2c" =>
          /\ n.key.s <= hTx.key.s
          /\ n.key.s = hTx.key.s => n.ctr < hTx.ctr
  BY DEF NonceInv, HostNonceInv
<1>5. n0 \notin sealed
  BY <1>2, <1>3, <1>4
<1>6. NonceUnique'
  BY <1>1, <1>5, AddNonce DEF NonceInv
<1>7. \A n \in sealed : n.key.s \in Nat /\ n.ctr \in Nat
  BY <1>1 DEF Nonce, Key
<1>8. \A n \in sealed' : n.dir = "s2c" =>
          /\ n.key.s \in Nat /\ n.key.s <= hTx.key.s
          /\ n.key.s = hTx.key.s => n.ctr \in Nat /\ n.ctr <= hTx.ctr
  BY <1>2, <1>3, <1>4, <1>7
<1>9. QED
  BY <1>3, <1>6, <1>8

\* send_sealed keeps the host's part of the invariant.
LEMMA HostSealNonce ==
    ASSUME TypeOK, NonceInv, hAlive, NEW type, NEW body, NEW ok,
           HostSeal(type, body, ok), ephs' = ephs
    PROVE  /\ NonceUnique' /\ HostNonceInv'
           /\ \A n \in sealed' : n.dir = "c2s" => n \in sealed
<1>1. hTx \in KeyState /\ ephs \in Nat
  BY DEF TypeOK, HSendOK, HistoryOK
<1>2. hTx.key.s \in Nat /\ hTx.ctr \in Nat
  BY <1>1 DEF KeyState, Key
<1>3. hTx'.key = hTx.key /\ hTx'.ctr = hTx.ctr + 1
  BY <1>1 DEF HostSeal, KeyState
<1>4. /\ NonceUnique'
      /\ \A n \in sealed' : n.dir = "c2s" => n \in sealed
      /\ \A n \in sealed' : n.dir = "s2c" =>
            /\ n.key.s \in Nat /\ n.key.s <= hTx.key.s
            /\ n.key.s = hTx.key.s => n.ctr \in Nat /\ n.ctr <= hTx.ctr
  BY HostNonceFresh DEF HostSeal
<1>5. HostNonceInv'
  BY <1>1, <1>2, <1>3, <1>4 DEF NonceInv, HostNonceInv
<1>6. QED
  BY <1>4, <1>5

\* A step that seals nothing, leaves the client's send path alone and at most
\* clears the host's alive flag keeps the invariant.
LEMMA QuietStep ==
    ASSUME NonceInv,
           UNCHANGED <<spc, wlock, cTx, rekeying, offer, pendingEph, rpc, newKey,
                       ephs, sealed, seals, hTx>>,
           hAlive' => hAlive
    PROVE  NonceInv'
BY DEF NonceInv, LockInv, OfferInv, ClientNonceInv, HostNonceInv, NonceUnique

\* Senders: the lock discipline protects the offered ephemeral.
LEMMA SenderNonce ==
    ASSUME TypeOK, NonceInv, NEW s \in Senders, Call(s) \/ SenderStep(s)
    PROVE  NonceInv'
<1> USE DEF chans, cSend, cRead, hThread, hSend, history
<1>0. /\ spc \in [Senders -> {"idle", "wait", "locked", "offered", "frame"}]
      /\ ephs \in Nat /\ cTx \in KeyState /\ offer \in Nat
  BY DEF TypeOK, CSendOK, HistoryOK
<1>n. cTx.key.c \in Nat
  BY <1>0 DEF KeyState, Key
<1>1. CASE Call(s)
  <2>1. LockInv'
    BY <1>0, <1>1 DEF Call, NonceInv, LockInv
  <2>2. OfferInv'
    BY <1>0, <1>1 DEF Call, NonceInv, OfferInv
  <2>3. QED
    BY <1>1, <2>1, <2>2
       DEF Call, NonceInv, ClientNonceInv, HostNonceInv, NonceUnique
<1>2. CASE Lock(s)
  <2>1. LockInv'
    BY <1>0, <1>2 DEF Lock, NonceInv, LockInv
  <2>2. OfferInv'
    BY <1>0, <1>2 DEF Lock, NonceInv, OfferInv
  <2>3. QED
    BY <1>2, <2>1, <2>2
       DEF Lock, NonceInv, ClientNonceInv, HostNonceInv, NonceUnique
<1>3. CASE NotDue(s)
  <2>1. LockInv'
    BY <1>0, <1>3 DEF NotDue, NonceInv, LockInv
  <2>2. OfferInv'
    BY <1>0, <1>3 DEF NotDue, NonceInv, OfferInv
  <2>3. QED
    BY <1>3, <2>1, <2>2
       DEF NotDue, NonceInv, ClientNonceInv, HostNonceInv, NonceUnique
<1>4. CASE BeginRekey(s)
  <2>1. PICK ok \in BOOLEAN :
           /\ ClientSeal("Rekey", ephs + 1, ok)
           /\ offer' = IF ok THEN ephs + 1 ELSE offer
           /\ spc' = [spc EXCEPT ![s] = IF ok THEN "offered" ELSE "frame"]
    BY <1>4 DEF BeginRekey
  <2>2. /\ NonceUnique' /\ ClientNonceInv' /\ cTx'.key = cTx.key
        /\ \A n \in sealed' : n.dir = "s2c" => n \in sealed
    BY <2>1, ClientSealNonce
  <2>3. LockInv'
    BY <1>0, <1>4, <2>1 DEF BeginRekey, NonceInv, LockInv
  <2>4. OfferInv'
    <3>1. /\ spc[s] = "locked" /\ ~rekeying /\ ephs' = ephs + 1
          /\ UNCHANGED <<rekeying, pendingEph, rpc, newKey>>
      BY <1>4 DEF BeginRekey, MayRotate
    <3>2. \A t \in Senders : t # s => spc'[t] = spc[t]
      BY <1>0, <2>1
    <3>3. \A t \in Senders : t # s => spc[t] # "offered"
      BY <3>1, <1>0 DEF NonceInv, LockInv
    <3>4. spc'[s] = "offered" => offer' = ephs + 1
      BY <1>0, <2>1
    <3>5. \A t \in Senders : spc'[t] = "offered" =>
             ~rekeying /\ cTx.key.c < offer' /\ offer' <= ephs'
      BY <1>0, <1>n, <3>1, <3>2, <3>3, <3>4 DEF NonceInv, OfferInv
    <3>6. pendingEph = {} /\ rpc # "switch"
      BY <3>1 DEF NonceInv, OfferInv
    <3>7. cTx.key.c <= ephs'
      BY <1>0, <1>n, <3>1 DEF NonceInv, OfferInv
    <3>8. QED
      BY <2>2, <3>1, <3>5, <3>6, <3>7 DEF OfferInv
  <2>5. HostNonceInv'
    <3>1. hTx \in KeyState
      BY DEF TypeOK, HSendOK
    <3>2. hTx.key.s \in Nat
      BY <3>1 DEF KeyState, Key
    <3>3. ephs' = ephs + 1 /\ UNCHANGED <<hTx, hAlive>>
      BY <1>4 DEF BeginRekey
    <3>4. QED
      BY <1>0, <2>2, <3>2, <3>3 DEF NonceInv, HostNonceInv
  <2>6. QED
    BY <2>2, <2>3, <2>4, <2>5 DEF NonceInv
<1>5. CASE StoreEph(s)
  <2>1. LockInv'
    BY <1>0, <1>5 DEF StoreEph, NonceInv, LockInv
  <2>2. OfferInv'
    <3>1. /\ spc[s] = "offered" /\ pendingEph' = {offer} /\ rekeying' = TRUE
          /\ spc' = [spc EXCEPT ![s] = "frame"]
          /\ UNCHANGED <<cTx, offer, rpc, newKey, ephs>>
      BY <1>5 DEF StoreEph
    <3>2. cTx.key.c < offer /\ offer <= ephs /\ rpc # "switch"
      BY <3>1 DEF NonceInv, OfferInv
    <3>3. \A t \in Senders : spc'[t] # "offered"
      BY <1>0, <3>1 DEF NonceInv, LockInv
    <3>4. QED
      BY <3>1, <3>2, <3>3 DEF NonceInv, OfferInv
  <2>3. QED
    BY <1>5, <2>1, <2>2
       DEF StoreEph, NonceInv, ClientNonceInv, HostNonceInv, NonceUnique
<1>6. CASE SendFrame(s)
  <2>1. PICK ok \in BOOLEAN : ClientSeal("Data", cSent + 1, ok)
    BY <1>6 DEF SendFrame
  <2>2. /\ NonceUnique' /\ ClientNonceInv' /\ cTx'.key = cTx.key
        /\ \A n \in sealed' : n.dir = "s2c" => n \in sealed
    BY <2>1, ClientSealNonce
  <2>3. LockInv'
    BY <1>0, <1>6 DEF SendFrame, NonceInv, LockInv
  <2>4. OfferInv'
    BY <1>0, <1>6, <2>2 DEF SendFrame, NonceInv, OfferInv
  <2>5. HostNonceInv'
    BY <1>6, <2>2 DEF SendFrame, NonceInv, HostNonceInv
  <2>6. QED
    BY <2>2, <2>3, <2>4, <2>5 DEF NonceInv
<1>7. QED
  BY <1>1, <1>2, <1>3, <1>4, <1>5, <1>6 DEF SenderStep

\* The reader installs only a key whose client ephemeral is new.
LEMMA ReaderNonce ==
    ASSUME TypeOK, NonceInv, ReaderStep
    PROVE  NonceInv'
<1> USE DEF chans, cSend, cRead, hThread, hSend, history, ReaderLeaves
<1>1. CASE ReaderAck
  <2>1. UNCHANGED <<spc, wlock, cTx, rekeying, offer, ephs, sealed, seals, hTx, hAlive>>
    BY <1>1 DEF ReaderAck
  <2>2. /\ pendingEph' = {}
        /\ \/ rpc' = "done"
           \/ rpc' = "switch" /\ \E e \in pendingEph : newKey' = [c |-> e, s |-> Head(s2c).body]
    BY <1>1 DEF ReaderAck, ReaderExit
  <2>3. OfferInv'
    BY <2>1, <2>2 DEF NonceInv, OfferInv
  <2>4. QED
    BY <2>1, <2>3
       DEF NonceInv, LockInv, ClientNonceInv, HostNonceInv, NonceUnique
<1>2. CASE ReaderSwitch
  <2>1. /\ cTx' = [key |-> newKey, epoch |-> cTx.epoch + 1, ctr |-> 0]
        /\ rpc = "switch" /\ rpc' = "read" /\ wlock = {}
        /\ UNCHANGED <<spc, wlock, offer, pendingEph, newKey, ephs, sealed, seals,
                       hTx, hAlive>>
    BY <1>2 DEF ReaderSwitch, InstallTx
  <2>2. pendingEph = {} /\ cTx.key.c < newKey.c /\ newKey.c <= ephs
    BY <2>1 DEF NonceInv, OfferInv
  <2>3. \A s \in Senders : spc[s] # "offered"
    BY <2>1 DEF NonceInv, LockInv
  <2>4. cTx'.key = newKey
    BY <2>1
  <2>5. OfferInv'
    BY <2>1, <2>2, <2>3, <2>4 DEF OfferInv
  <2>6. ClientNonceInv'
    <3>1. cTx.key.c \in Nat /\ newKey.c \in Nat
      BY DEF TypeOK, CSendOK, CReadOK, KeyState, Key
    <3>2. \A n \in sealed : n.key.c \in Nat
      BY DEF TypeOK, HistoryOK, Nonce, Key
    <3>3. \A n \in sealed : n.dir = "c2s" => n.key.c < newKey.c
      BY <2>2, <3>1, <3>2 DEF NonceInv, ClientNonceInv
    <3>4. QED
      BY <2>1, <2>4, <3>1, <3>2, <3>3 DEF ClientNonceInv
  <2>7. QED
    BY <2>1, <2>5, <2>6 DEF NonceInv, LockInv, HostNonceInv, NonceUnique
<1>3. CASE ReaderBreaks \/ ReaderData \/ ReaderEof
  <2>1. /\ UNCHANGED <<spc, wlock, cTx, rekeying, offer, pendingEph, newKey, ephs,
                       sealed, seals, hTx, hAlive>>
        /\ rpc' \in {"done", rpc}
    BY <1>3 DEF ReaderBreaks, ReaderData, ReaderEof, ReaderExit
  <2>2. OfferInv'
    BY <2>1 DEF NonceInv, OfferInv
  <2>3. QED
    BY <2>1, <2>2
       DEF NonceInv, LockInv, ClientNonceInv, HostNonceInv, NonceUnique
<1>4. QED
  BY <1>1, <1>2, <1>3 DEF ReaderStep

\* A host send leaves the client's parts of the invariant alone.
LEMMA HostSendStep ==
    ASSUME NonceInv, NonceUnique', HostNonceInv',
           \A n \in sealed' : n.dir = "c2s" => n \in sealed,
           UNCHANGED <<spc, wlock, cTx, rekeying, offer, pendingEph, rpc, newKey>>,
           ephs \in Nat, ephs' \in {ephs, ephs + 1},
           cTx.key.c \in Nat, newKey.c \in Nat, offer \in Nat,
           pendingEph \in SUBSET Nat
    PROVE  NonceInv'
<1>1. LockInv'
  BY DEF NonceInv, LockInv
<1>2. OfferInv'
  BY DEF NonceInv, OfferInv
<1>3. ClientNonceInv'
  BY DEF NonceInv, ClientNonceInv
<1>4. QED
  BY <1>1, <1>2, <1>3 DEF NonceInv

\* The host switches keys to one made with a fresh ephemeral, and a failed ack
\* ends its sending.
LEMMA HostNonce ==
    ASSUME TypeOK, NonceInv, HostStep \/ Publish
    PROVE  NonceInv'
<1> USE DEF chans, cSend, cRead, hThread, hSend, history, HostLeaves
<1>0. /\ ephs \in Nat /\ cTx.key.c \in Nat /\ newKey.c \in Nat /\ offer \in Nat
      /\ pendingEph \in SUBSET Nat /\ hTx \in KeyState /\ hTx.key.s \in Nat
  BY DEF TypeOK, CSendOK, CReadOK, HSendOK, HistoryOK, KeyState, Key
<1>1. CASE HostAck
  <2> DEFINE k == [c |-> hEph, s |-> ephs + 1]
  <2>1. /\ hAlive /\ ephs' = ephs + 1
        /\ sealed' = sealed \cup {[dir |-> "s2c", key |-> hTx.key, ctr |-> hTx.ctr]}
        /\ seals' = seals + 1
        /\ hTx' = [key |-> k, epoch |-> hTx.epoch + 1, ctr |-> 0]
        /\ UNCHANGED <<spc, wlock, cTx, rekeying, offer, pendingEph, rpc, newKey>>
    BY <1>1 DEF HostAck
  <2>2. /\ NonceUnique'
        /\ \A n \in sealed' : n.dir = "c2s" => n \in sealed
        /\ \A n \in sealed' : n.dir = "s2c" =>
              n.key.s \in Nat /\ n.key.s <= hTx.key.s
    BY <2>1, HostNonceFresh
  <2>3. hTx'.key.s = ephs + 1 /\ hTx.key.s <= ephs
    BY <2>1 DEF NonceInv, HostNonceInv
  <2>4. HostNonceInv'
    BY <1>0, <2>1, <2>2, <2>3 DEF HostNonceInv
  <2>5. QED
    BY <1>0, <2>1, <2>2, <2>4, HostSendStep
<1>2. CASE HostAckFails
  <2>1. /\ ephs' = ephs + 1 /\ ~hAlive' /\ hTx' = hTx
        /\ UNCHANGED <<spc, wlock, cTx, rekeying, offer, pendingEph, rpc, newKey>>
    BY <1>2 DEF HostAckFails, HostExit
  <2>2. HostNonceInv'
    BY <1>0, <2>1 DEF NonceInv, HostNonceInv
  <2>3. NonceUnique' /\ \A n \in sealed' : n.dir = "c2s" => n \in sealed
    <3>1. CASE hAlive
      <4>1. /\ sealed' = sealed \cup
                         {[dir |-> "s2c", key |-> hTx.key, ctr |-> hTx.ctr]}
            /\ seals' = seals + 1
        BY <1>2, <3>1 DEF HostAckFails
      <4>2. QED
        BY <3>1, <4>1, HostNonceFresh
    <3>2. CASE ~hAlive
      <4>1. UNCHANGED <<sealed, seals>>
        BY <1>2, <3>2 DEF HostAckFails
      <4>2. QED
        BY <4>1 DEF NonceInv, NonceUnique
    <3>3. QED
      BY <3>1, <3>2
  <2>4. QED
    BY <1>0, <2>1, <2>2, <2>3, HostSendStep
<1>3. ASSUME NEW type, NEW body, NEW ok, HostSeal(type, body, ok), hAlive, ephs' = ephs,
             UNCHANGED <<spc, wlock, cTx, rekeying, offer, pendingEph, rpc, newKey>>
      PROVE  NonceInv'
  BY <1>0, <1>3, HostSealNonce, HostSendStep
<1>4. CASE HostReply
  <2>1. CASE hAlive
    <3>1. /\ ephs' = ephs
          /\ UNCHANGED <<spc, wlock, cTx, rekeying, offer, pendingEph, rpc, newKey>>
      BY <1>4 DEF HostReply
    <3>2. PICK ok \in BOOLEAN : HostSeal("Data", hSent + 1, ok)
      BY <1>4, <2>1 DEF HostReply
    <3>3. QED
      BY <1>3, <2>1, <3>1, <3>2
  <2>2. CASE ~hAlive
    BY <1>4, <2>2, QuietStep DEF HostReply
  <2>3. QED
    BY <2>1, <2>2
<1>5. CASE HostLimit
  <2>1. CASE hAlive
    <3>1. /\ ephs' = ephs
          /\ UNCHANGED <<spc, wlock, cTx, rekeying, offer, pendingEph, rpc, newKey>>
      BY <1>5 DEF HostLimit
    <3>2. PICK ok \in BOOLEAN : HostSeal("Error", 0, ok)
      BY <1>5, <2>1 DEF HostLimit
    <3>3. QED
      BY <1>3, <2>1, <3>1, <3>2
  <2>2. CASE ~hAlive
    BY <1>5, <2>2, QuietStep DEF HostLimit
  <2>3. QED
    BY <2>1, <2>2
<1>6. CASE Publish
  <2>1. /\ hAlive /\ ephs' = ephs
        /\ UNCHANGED <<spc, wlock, cTx, rekeying, offer, pendingEph, rpc, newKey>>
    BY <1>6 DEF Publish
  <2>2. PICK ok \in BOOLEAN : HostSeal("Data", hSent + 1, ok)
    BY <1>6 DEF Publish
  <2>3. QED
    BY <1>3, <2>1, <2>2
<1>7. CASE HostBad \/ HostSkip \/ HostRekey \/ HostData \/ HostReplied
           \/ HostLimitClose \/ HostEof
  <2>1. /\ UNCHANGED <<spc, wlock, cTx, rekeying, offer, pendingEph, rpc, newKey,
                       ephs, sealed, seals, hTx>>
        /\ hAlive' => hAlive
    BY <1>7 DEF HostBad, HostSkip, HostRekey, HostData, HostReplied, HostLimitClose,
                HostEof, HostExit, HostStays
  <2>2. QED
    BY <2>1, QuietStep
<1>8. QED
  BY <1>1, <1>2, <1>4, <1>5, <1>6, <1>7 DEF HostStep

\* The initial state satisfies the nonce invariant.
LEMMA InitNonce == Init => NonceInv
<1> SUFFICES ASSUME Init PROVE NonceInv
  OBVIOUS
<1>1. LockInv
  BY DEF Init, LockInv
<1>2. cTx.key.c = 0 /\ hTx.key.s = 0
  BY DEF Init, HandshakeKeys
<1>3. OfferInv
  BY <1>2 DEF Init, OfferInv
<1>4. ClientNonceInv /\ HostNonceInv
  BY <1>2 DEF Init, ClientNonceInv, HostNonceInv
<1>5. NonceUnique
  BY FS_EmptySet DEF Init, NonceUnique
<1>6. QED
  BY <1>1, <1>3, <1>4, <1>5 DEF NonceInv

\* Every step keeps the nonce invariant.
LEMMA StepNonce == TypeOK /\ NonceInv /\ [Next]_vars => NonceInv'
<1> SUFFICES ASSUME TypeOK, NonceInv, [Next]_vars PROVE NonceInv'
  OBVIOUS
<1> USE DEF chans, cSend, cRead, hThread, hSend, history
<1>1. CASE Disconnect \/ StopBegins \/ StopCloses
  BY <1>1, QuietStep DEF Disconnect, StopBegins, StopCloses
<1>2. CASE UNCHANGED vars
  BY <1>2, QuietStep DEF vars
<1>3. QED
  BY <1>1, <1>2, SenderNonce, ReaderNonce, HostNonce DEF Next

\* No (key, counter) pair is ever used for two AEAD seal calls, whatever the
\* number of client threads, rotations, failed writes and failed acks; the
\* argument uses nothing about the frames that were received.
THEOREM NonceNeverReused == Spec => []NonceUnique
<1>1. NonceInv => NonceUnique
  BY DEF NonceInv
<1>2. QED
  BY <1>1, InitTypes, StepTypes, InitNonce, StepNonce, PTL DEF Spec
=============================================================================
