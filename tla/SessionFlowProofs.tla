------------------------- MODULE SessionFlowProofs -------------------------
(***************************************************************************)
(* Proofs about the frames of a Session: that the two ends of a session    *)
(* stay in step through every rotation, whatever is in flight, and what    *)
(* follows from it for acceptance, order and the reason of a drop.  For    *)
(* every number of threads, epochs, frames and buffer sizes.               *)
(*                                                                         *)
(* No frame of the client marks its switch to a new key, so KeyInv and     *)
(* RotationInv are about both directions at once: a REKEY on its way, its  *)
(* being answered and an ack on its way exclude each other.  ClientFlow,   *)
(* ClientCounters and HostFlow say of every frame in flight which of the   *)
(* two keys of the moment it was sealed with, and how its counter relates  *)
(* to its neighbours'.                                                     *)
(***************************************************************************)
EXTENDS SessionProofs

Rekeys == {i \in DOMAIN c2s : c2s[i].type = "Rekey"}
Acks   == {i \in DOMAIN s2c : s2c[i].type = "RekeyAck"}

\* The host has answered a REKEY and the client has not switched yet.
Ahead == hTx.epoch = cTx.epoch + 1

\* The four key states and the two pending keys.
KeyInv ==
    /\ hRx.epoch <= cTx.epoch /\ cTx.epoch <= hTx.epoch /\ hTx.epoch <= hRx.epoch + 1
    /\ hTx.epoch <= MaxEpoch
    /\ cRx.epoch <= cTx.epoch /\ cTx.epoch <= cRx.epoch + 1
    /\ cTx.epoch = hTx.epoch => cTx.key = hTx.key
    /\ cTx.epoch = hRx.epoch => cTx.key = hRx.key
    /\ cTx.epoch = cRx.epoch => cTx.key = cRx.key
    /\ hTx.epoch = hRx.epoch => hPend = {}
    /\ hTx.epoch # hRx.epoch => hPend = {hTx.key}
    /\ rpc # "done" /\ cTx.epoch = cRx.epoch => cPend = {}
    /\ rpc # "done" /\ cTx.epoch # cRx.epoch => cPend = {cTx.key}

\* One rotation at a time, made with the ephemeral that was offered.
RotationInv ==
    /\ pendingEph \subseteq {offer}
    /\ \A i, j \in Rekeys : i = j
    /\ \A i \in Rekeys : c2s[i].body = offer /\ c2s[i].epoch = hTx.epoch
    /\ Rekeys # {} => ~Ahead /\ hpc # "ack" /\ hTx.epoch < MaxEpoch
    /\ hpc = "ack" => ~Ahead /\ hRx.epoch = hTx.epoch /\ hTx.epoch < MaxEpoch /\ hEph = offer
    /\ Ahead => hTx.key.c = offer
    /\ Rekeys # {} \/ hpc = "ack" \/ Ahead =>
          rekeying \/ \E s \in Senders : spc[s] = "offered"

\* The client's frames in flight: their keys, and the order of epochs and of
\* counters within an epoch, whatever writes failed in between.
ClientFlow ==
    /\ \A i \in DOMAIN c2s :
          /\ hRx.epoch <= c2s[i].epoch /\ c2s[i].epoch <= cTx.epoch
          /\ c2s[i].epoch = hRx.epoch => c2s[i].key = hRx.key /\ hRx.ctr <= c2s[i].ctr
          /\ c2s[i].epoch = hTx.epoch => c2s[i].key = hTx.key
          /\ c2s[i].epoch = cTx.epoch => c2s[i].ctr < cTx.ctr
    /\ \A i, j \in DOMAIN c2s : i < j =>
          /\ c2s[i].epoch <= c2s[j].epoch
          /\ c2s[i].epoch = c2s[j].epoch => c2s[i].ctr < c2s[j].ctr
    /\ cTx.epoch = hRx.epoch => hRx.ctr <= cTx.ctr

\* Where the counter of a frame is to continue after (epoch, next).
Continues(f, epoch, next) == f.ctr = IF f.epoch = epoch THEN next ELSE 0

\* As long as no write of the client failed there is no gap either.
ClientCounters ==
    /\ cFault # "torn" => \A i \in DOMAIN c2s : c2s[i].type # "Garbled"
    /\ cFault = "none" =>
          /\ Len(c2s) = 0 => Continues(cTx, hRx.epoch, hRx.ctr)
          /\ Len(c2s) > 0 =>
                /\ Continues(c2s[1], hRx.epoch, hRx.ctr)
                /\ Continues(cTx, c2s[Len(c2s)].epoch, c2s[Len(c2s)].ctr + 1)
          /\ \A i \in DOMAIN c2s : i > 1 =>
                Continues(c2s[i], c2s[i - 1].epoch, c2s[i - 1].ctr + 1)

\* The counter the reader expects next.
RxCtr == IF rpc = "switch" \/ cPend # {} THEN 0 ELSE cRx.ctr

After(i) == IF i \in Acks THEN 0 ELSE s2c[i].ctr + 1

\* The host's frames in flight: an ack is the last frame of its epoch, and
\* there is never a gap, because a failed write clears alive.
HostFlow ==
    /\ \A i \in DOMAIN s2c :
          \/ s2c[i].epoch = cTx.epoch /\ s2c[i].key = cTx.key
          \/ s2c[i].epoch = hTx.epoch /\ s2c[i].key = hTx.key
    /\ \A i \in Acks :
          /\ Ahead /\ s2c[i].body = hTx.key.s
          /\ \A j \in DOMAIN s2c :
                s2c[j].epoch = IF j <= i THEN cTx.epoch ELSE hTx.epoch
    /\ Acks = {} => \A j \in DOMAIN s2c : s2c[j].epoch = hTx.epoch
    /\ Ahead => Acks # {} \/ rpc # "read"
    /\ rpc = "switch" => Ahead /\ Acks = {} /\ newKey = hTx.key /\ cRx.epoch = cTx.epoch
    /\ \A i \in DOMAIN s2c : s2c[i].type # "Garbled" /\ (i > 1 => s2c[i].ctr = After(i - 1))
    /\ hAlive /\ Len(s2c) > 0 => hTx.ctr = After(Len(s2c))
    /\ rpc # "done" /\ Len(s2c) > 0 => s2c[1].ctr = RxCtr
    /\ rpc # "done" /\ Len(s2c) = 0 /\ hAlive => hTx.ctr = RxCtr

\* Why the two threads left their loops, and the Error frame on its way.
DropInv ==
    /\ DropsAreJustified
    /\ cOpen /\ rpc # "done" => cAlive
    /\ rpc = "done" <=> rWhy # "none"
    /\ rpc = "done" /\ cOpen /\ rWhy # "unsolicited" /\ ~death =>
          ~hOpen /\ hpc # "told" /\ hWhy # "told"
    /\ hpc = "told" \/ hWhy = "told" =>
          rpc = "done" \/ \E i \in DOMAIN s2c : s2c[i].type = "Error"
    /\ hWhy # "none" => hpc = "done"

Datum(f) == IF f.type = "Data" THEN 1 ELSE 0

\* d[i] Data frames were sealed before the i-th frame in flight.
HostCounts(d) ==
    /\ d[1] = Len(cGot)
    /\ \A i \in DOMAIN s2c :
          /\ s2c[i].type = "Data" => s2c[i].body = d[i] + 1
          /\ d[i + 1] = d[i] + Datum(s2c[i])
    /\ hAlive => d[Len(s2c) + 1] = hSent

HostOrder ==
    /\ \A i \in DOMAIN cGot : cGot[i] = i
    /\ \E d \in [1 .. Len(s2c) + 1 -> 0 .. hSent] : HostCounts(d)

\* The host takes the client's frames in order, none twice; a frame that is
\* missing in between (its write failed) was the last of its epoch.
GapsOnlyAcrossEpochs ==
    \A i \in DOMAIN hGot :
        LET before == IF i = 1 THEN [body |-> 0, epoch |-> 0] ELSE hGot[i - 1]
        IN  \/ hGot[i].body = before.body + 1
            \/ hGot[i].body > before.body /\ hGot[i].epoch > before.epoch

LastGot == IF Len(hGot) = 0 THEN [body |-> 0, epoch |-> 0] ELSE hGot[Len(hGot)]

\* The same for the client's frames: frame i, and the one before it if their
\* counters have no gap.
Counted(q, d, i) ==
    /\ q[i].type = "Data" => q[i].body = d[i] + 1
    /\ d[i] + Datum(q[i]) <= d[i + 1]
    /\ /\ i > 1 /\ q[i - 1].type # "Garbled"
       /\ q[i].epoch = q[i - 1].epoch /\ q[i].ctr = q[i - 1].ctr + 1
       => d[i] = d[i - 1] + Datum(q[i - 1])

\* Where d has to begin and to end: at the last frame the host took, unless an
\* epoch lies between them, and at the number of frames sealed.
ClientCounts(d) ==
    /\ LastGot.body <= d[1] /\ d[Len(c2s) + 1] = cSent
    /\ \A i \in DOMAIN c2s : Counted(c2s, d, i)
    /\ Len(c2s) > 0 /\ c2s[1].epoch = hRx.epoch /\ c2s[1].ctr = hRx.ctr =>
          d[1] = LastGot.body \/ LastGot.epoch < hRx.epoch
    /\ /\ Len(c2s) > 0 /\ c2s[Len(c2s)].type # "Garbled"
       /\ cTx.epoch = c2s[Len(c2s)].epoch /\ cTx.ctr = c2s[Len(c2s)].ctr + 1
       => cSent = d[Len(c2s)] + Datum(c2s[Len(c2s)])
    /\ Len(c2s) = 0 /\ cTx.epoch = hRx.epoch /\ cTx.ctr = hRx.ctr =>
          cSent = LastGot.body \/ LastGot.epoch < hRx.epoch

ClientOrder ==
    /\ GapsOnlyAcrossEpochs
    /\ LastGot.epoch <= hRx.epoch
    /\ \E d \in [1 .. Len(c2s) + 1 -> 0 .. cSent] : ClientCounts(d)

\* Without a failed write every frame sealed and not taken yet is in flight.
WholeCounts(d) ==
    /\ d[1] = LastGot.body /\ d[Len(c2s) + 1] = cSent
    /\ \A i \in DOMAIN c2s :
          /\ c2s[i].type = "Data" => c2s[i].body = d[i] + 1
          /\ d[i + 1] = d[i] + Datum(c2s[i])

WholeOrder ==
    cFault = "none" => \E d \in [1 .. Len(c2s) + 1 -> 0 .. cSent] : WholeCounts(d)

-----------------------------------------------------------------------------
(* Sequences of frames, index by index.                                    *)

\* r is q with f at its end; r is q without its first frame.
Grown(q, r, f) ==
    /\ Len(r) = Len(q) + 1 /\ DOMAIN r = 1 .. Len(r)
    /\ r[Len(r)] = f /\ \A i \in DOMAIN q : r[i] = q[i]
Shrunk(q, r) ==
    /\ Len(q) > 0 /\ Len(r) = Len(q) - 1 /\ DOMAIN r = 1 .. Len(r)
    /\ \A i \in DOMAIN r : r[i] = q[i + 1]

\* Append, index by index.
LEMMA Grows == ASSUME NEW S, NEW q \in Seq(S), NEW f \in S PROVE Grown(q, Append(q, f), f)
  BY DEF Grown

\* Tail and Head, index by index.
LEMMA Shrinks ==
    ASSUME NEW S, NEW q \in Seq(S), q # <<>>
    PROVE  Shrunk(q, Tail(q)) /\ Head(q) = q[1]
  BY DEF Shrunk

\* The indices of a sequence and the types of its elements.
LEMMA Indices ==
    ASSUME NEW S, NEW q \in Seq(S)
    PROVE  /\ Len(q) \in Nat /\ DOMAIN q = 1 .. Len(q)
           /\ q # <<>> <=> Len(q) > 0
           /\ \A i \in DOMAIN q : q[i] \in S
  OBVIOUS

\* Below the largest epoch the epoch byte does not wrap.
LEMMA NoWrap == ASSUME NEW a \in Nat, NEW b \in Nat, a <= b PROVE a % (b + 1) = a
  OBVIOUS

\* What the proofs below use of TypeOK.
Nats ==
    /\ \A k \in {cTx, cRx, hTx, hRx} : k \in KeyState /\ k.epoch \in Nat /\ k.ctr \in Nat
    /\ \A i \in DOMAIN c2s : c2s[i].epoch \in Nat /\ c2s[i].ctr \in Nat /\ c2s[i].body \in Nat
    /\ \A i \in DOMAIN s2c : s2c[i].epoch \in Nat /\ s2c[i].ctr \in Nat /\ s2c[i].body \in Nat
    /\ Len(c2s) \in Nat /\ DOMAIN c2s = 1 .. Len(c2s)
    /\ Len(s2c) \in Nat /\ DOMAIN s2c = 1 .. Len(s2c)
    /\ cSent \in Nat /\ hSent \in Nat

\* The type invariant gives all of Nats.
LEMMA TypesNats == TypeOK => Nats
<1> SUFFICES ASSUME TypeOK PROVE Nats  OBVIOUS
<1>1. c2s \in Seq(Frame) /\ s2c \in Seq(Frame)  BY DEF TypeOK, ChansOK
<1>2. /\ Len(c2s) \in Nat /\ DOMAIN c2s = 1 .. Len(c2s)
      /\ Len(s2c) \in Nat /\ DOMAIN s2c = 1 .. Len(s2c)
      /\ \A i \in DOMAIN c2s : c2s[i] \in Frame
      /\ \A i \in DOMAIN s2c : s2c[i] \in Frame
  BY <1>1, Indices
<1>3. cTx \in KeyState /\ cRx \in KeyState /\ hTx \in KeyState /\ hRx \in KeyState
  BY DEF TypeOK, CSendOK, CReadOK, HSendOK, HThreadOK
<1>4. cSent \in Nat /\ hSent \in Nat  BY DEF TypeOK, HistoryOK
<1>5. \A k \in {cTx, cRx, hTx, hRx} : k \in KeyState /\ k.epoch \in Nat /\ k.ctr \in Nat
  BY <1>3 DEF KeyState
<1>6. \A i \in DOMAIN c2s : c2s[i].epoch \in Nat /\ c2s[i].ctr \in Nat /\ c2s[i].body \in Nat
  BY <1>2 DEF Frame
<1>7. \A i \in DOMAIN s2c : s2c[i].epoch \in Nat /\ s2c[i].ctr \in Nat /\ s2c[i].body \in Nat
  BY <1>2 DEF Frame
<1>8. QED  BY <1>2, <1>4, <1>5, <1>6, <1>7 DEF Nats

\* Epochs and counters of the four key states, one by one.
LEMMA KeyNats ==
    ASSUME Nats
    PROVE  /\ cTx.epoch \in Nat /\ cRx.epoch \in Nat /\ hTx.epoch \in Nat /\ hRx.epoch \in Nat
           /\ cTx.ctr \in Nat /\ cRx.ctr \in Nat /\ hTx.ctr \in Nat /\ hRx.ctr \in Nat
  BY DEF Nats

-----------------------------------------------------------------------------
(* The client seals a frame.                                               *)

\* The effect of send_frame_locked on the key state and on the wire.
Sealed(type, body) ==
    LET f == Seal(cTx, IF cFault = "torn" THEN "Garbled" ELSE type, body)
    IN  /\ cTx'.key = cTx.key /\ cTx'.epoch = cTx.epoch /\ cTx'.ctr = cTx.ctr + 1
        /\ \/ Grown(c2s, c2s', f) /\ cFault' = cFault /\ cOpen /\ hOpen
           \/ c2s' = c2s /\ cFault' \in {"gap", "torn"} /\ (cFault = "torn" => cFault' = "torn")

\* send_frame_locked has the effect Sealed; only a failed write leaves the wire alone.
LEMMA ClientSealEffect ==
    ASSUME TypeOK, NEW type \in {"Data", "Rekey"}, NEW body \in Nat, NEW ok \in BOOLEAN,
           ClientSeal(type, body, ok)
    PROVE  /\ Sealed(type, body)
           /\ ~ok => c2s' = c2s
           /\ ok => Grown(c2s, c2s', Seal(cTx, IF cFault = "torn" THEN "Garbled" ELSE type, body))
<1>1. c2s \in Seq(Frame) /\ cTx \in KeyState /\ cFault \in {"none", "gap", "torn"}
  BY DEF TypeOK, ChansOK, CSendOK
<1>2. Seal(cTx, IF cFault = "torn" THEN "Garbled" ELSE type, body) \in Frame
  BY <1>1, SealType
<1>3. cTx'.key = cTx.key /\ cTx'.epoch = cTx.epoch /\ cTx'.ctr = cTx.ctr + 1
  BY <1>1 DEF ClientSeal, KeyState
<1>4. ~ok => /\ c2s' = c2s /\ cFault' \in {"gap", "torn"} /\ (cFault = "torn" => cFault' = "torn")
  BY DEF ClientSeal
<1>5. ok => /\ c2s' = Append(c2s, Seal(cTx, IF cFault = "torn" THEN "Garbled" ELSE type, body))
            /\ cFault' = cFault /\ cOpen /\ hOpen
  BY DEF ClientSeal, WriteCompletes
<1>6. QED  BY <1>1, <1>2, <1>3, <1>4, <1>5, Grows DEF Sealed

\* Sealing a frame keeps the order of epochs and counters on the wire.
LEMMA SealedFlow ==
    ASSUME Nats, KeyInv, ClientFlow, UNCHANGED <<hRx, hTx>>,
           NEW type, NEW body \in Nat, Sealed(type, body)
    PROVE  ClientFlow'
<1> DEFINE f == Seal(cTx, IF cFault = "torn" THEN "Garbled" ELSE type, body)
<1>1. f.key = cTx.key /\ f.epoch = cTx.epoch /\ f.ctr = cTx.ctr  BY DEF Seal
<1>2. cTx'.key = cTx.key /\ cTx'.epoch = cTx.epoch /\ cTx'.ctr = cTx.ctr + 1  BY DEF Sealed
<1> HIDE DEF f
<1>3. CASE Grown(c2s, c2s', f)
  <2>0. /\ DOMAIN c2s' = 1 .. Len(c2s) + 1 /\ DOMAIN c2s = 1 .. Len(c2s) /\ Len(c2s) \in Nat
        /\ c2s'[Len(c2s) + 1] = f /\ \A i \in DOMAIN c2s : c2s'[i] = c2s[i]
    BY <1>3 DEF Grown, Nats
  <2>1. \A i \in DOMAIN c2s' : i = Len(c2s) + 1 \/ i \in DOMAIN c2s  BY <2>0
  <2>2. ASSUME NEW i \in DOMAIN c2s'
        PROVE  /\ hRx.epoch <= c2s'[i].epoch /\ c2s'[i].epoch <= cTx.epoch
               /\ c2s'[i].epoch = hRx.epoch => c2s'[i].key = hRx.key /\ hRx.ctr <= c2s'[i].ctr
               /\ c2s'[i].epoch = hTx.epoch => c2s'[i].key = hTx.key
               /\ c2s'[i].epoch = cTx.epoch => c2s'[i].ctr < cTx.ctr + 1
    <3>1. CASE i = Len(c2s) + 1  BY <3>1, <2>0, <1>1 DEF Nats, KeyInv, ClientFlow
    <3>2. CASE i \in DOMAIN c2s
      <4>1. c2s'[i] = c2s[i]  BY <3>2, <2>0
      <4>2. /\ hRx.epoch <= c2s[i].epoch /\ c2s[i].epoch <= cTx.epoch
            /\ c2s[i].epoch = hRx.epoch => c2s[i].key = hRx.key /\ hRx.ctr <= c2s[i].ctr
            /\ c2s[i].epoch = hTx.epoch => c2s[i].key = hTx.key
            /\ c2s[i].epoch = cTx.epoch => c2s[i].ctr < cTx.ctr
        BY <3>2 DEF ClientFlow
      <4>3. c2s[i].ctr \in Nat /\ cTx.ctr \in Nat  BY <3>2 DEF Nats
      <4>4. c2s[i].epoch = cTx.epoch => c2s[i].ctr < cTx.ctr + 1  BY <4>2, <4>3
      <4>5. QED  BY <4>1, <4>2, <4>4
    <3>3. QED  BY <2>1, <3>1, <3>2
  <2>3. ASSUME NEW i \in DOMAIN c2s', NEW j \in DOMAIN c2s', i < j
        PROVE  /\ c2s'[i].epoch <= c2s'[j].epoch
               /\ c2s'[i].epoch = c2s'[j].epoch => c2s'[i].ctr < c2s'[j].ctr
    <3>0. i \in DOMAIN c2s  BY <2>0, <2>3
    <3>1. CASE j = Len(c2s) + 1  BY <3>0, <3>1, <2>0, <1>1 DEF Nats, ClientFlow
    <3>2. CASE j \in DOMAIN c2s  BY <3>0, <3>2, <2>0, <2>3 DEF ClientFlow
    <3>3. QED  BY <2>1, <3>1, <3>2
  <2>4. QED  BY <2>2, <2>3, <1>2 DEF ClientFlow, Nats
<1>4. CASE c2s' = c2s  BY <1>2, <1>4 DEF Nats, ClientFlow
<1>5. QED  BY <1>3, <1>4 DEF Sealed, f

\* Sealing a frame leaves no gap unless its write fails.
LEMMA SealedCounters ==
    ASSUME Nats, ClientCounters, UNCHANGED hRx,
           NEW type \in {"Data", "Rekey"}, NEW body \in Nat, Sealed(type, body)
    PROVE  ClientCounters'
<1> DEFINE f == Seal(cTx, IF cFault = "torn" THEN "Garbled" ELSE type, body)
<1>1. /\ f.epoch = cTx.epoch /\ f.ctr = cTx.ctr
      /\ f.type = IF cFault = "torn" THEN "Garbled" ELSE type
  BY DEF Seal
<1>2. cTx'.epoch = cTx.epoch /\ cTx'.ctr = cTx.ctr + 1  BY DEF Sealed
<1> HIDE DEF f
<1>3. CASE Grown(c2s, c2s', f) /\ cFault' = cFault
  <2>0. /\ DOMAIN c2s' = 1 .. Len(c2s) + 1 /\ DOMAIN c2s = 1 .. Len(c2s) /\ Len(c2s) \in Nat
        /\ c2s'[Len(c2s) + 1] = f /\ \A i \in DOMAIN c2s : c2s'[i] = c2s[i]
        /\ Len(c2s') = Len(c2s) + 1
    BY <1>3 DEF Grown, Nats
  <2>1. \A i \in DOMAIN c2s' : i = Len(c2s) + 1 \/ i \in DOMAIN c2s  BY <2>0
  <2>2. cFault # "torn" => \A i \in DOMAIN c2s' : c2s'[i].type # "Garbled"
    BY <2>0, <2>1, <1>1 DEF ClientCounters
  <2>3. ASSUME cFault = "none"
        PROVE  /\ Continues(c2s'[1], hRx.epoch, hRx.ctr)
               /\ Continues(cTx', c2s'[Len(c2s')].epoch, c2s'[Len(c2s')].ctr + 1)
    <3>1. CASE Len(c2s) = 0
      BY <3>1, <2>0, <2>3, <1>1, <1>2 DEF ClientCounters, Continues
    <3>2. CASE Len(c2s) > 0
      <4>1. 1 \in DOMAIN c2s  BY <3>2, <2>0
      <4>2. QED  BY <4>1, <3>2, <2>0, <2>3, <1>1, <1>2 DEF ClientCounters, Continues
    <3>3. QED  BY <2>0, <3>1, <3>2
  <2>4. ASSUME cFault = "none", NEW i \in DOMAIN c2s', i > 1
        PROVE  Continues(c2s'[i], c2s'[i - 1].epoch, c2s'[i - 1].ctr + 1)
    <3>0. i - 1 \in DOMAIN c2s  BY <2>0, <2>4
    <3>1. CASE i = Len(c2s) + 1
      BY <3>0, <3>1, <2>0, <2>4, <1>1 DEF ClientCounters, Continues
    <3>2. CASE i \in DOMAIN c2s  BY <3>0, <3>2, <2>0, <2>4 DEF ClientCounters
    <3>3. QED  BY <2>1, <3>1, <3>2
  <2>5. QED  BY <2>0, <2>2, <2>3, <2>4, <1>3 DEF ClientCounters
<1>4. CASE c2s' = c2s /\ cFault' \in {"gap", "torn"} /\ (cFault = "torn" => cFault' = "torn")
  BY <1>2, <1>4 DEF ClientCounters
<1>5. QED  BY <1>3, <1>4 DEF Sealed, f

-----------------------------------------------------------------------------
(* What a step that leaves a part's variables alone does to it.            *)

\* The key generations of both ends stay as they are (counters may move).
SameTx  == cTx'.key = cTx.key /\ cTx'.epoch = cTx.epoch
SameHTx == hTx'.key = hTx.key /\ hTx'.epoch = hTx.epoch
SameKeys ==
    /\ SameTx /\ SameHTx
    /\ UNCHANGED <<hRx, cRx, hPend, cPend>>

\* KeyInv does not depend on counters, and a reader that leaves only weakens it.
LEMMA KeyFrame ==
    ASSUME KeyInv, SameKeys, rpc' # "done" => rpc # "done"
    PROVE  KeyInv'
  BY DEF KeyInv, SameKeys, SameTx, SameHTx

\* RotationInv when no rotation begins, is answered or ends.
LEMMA RotationFrame ==
    ASSUME RotationInv, SameTx, SameHTx, UNCHANGED <<hRx, offer, hEph, rekeying>>,
           pendingEph' \subseteq pendingEph,
           \A s \in Senders : spc'[s] = "offered" <=> spc[s] = "offered",
           hpc' = "ack" => hpc = "ack",
           Rekeys' # {} => Rekeys # {},
           \A i, j \in Rekeys' : i = j,
           \A i \in Rekeys' : \E j \in Rekeys : c2s'[i] = c2s[j]
    PROVE  RotationInv'
<1>1. Ahead' = Ahead  BY DEF Ahead, SameTx, SameHTx
<1>2. \A i \in Rekeys' : c2s'[i].body = offer' /\ c2s'[i].epoch = hTx'.epoch
  BY DEF RotationInv, SameHTx
<1>3. QED  BY <1>1, <1>2 DEF RotationInv, SameTx, SameHTx

\* The hypotheses of RotationFrame about REKEYs hold when the wire is left alone.
LEMMA SameRekeys ==
    ASSUME RotationInv, c2s' = c2s
    PROVE  /\ Rekeys' # {} => Rekeys # {}
           /\ \A i, j \in Rekeys' : i = j
           /\ \A i \in Rekeys' : \E j \in Rekeys : c2s'[i] = c2s[j]
  BY DEF RotationInv, Rekeys

\* ClientFlow when neither the wire nor a key changes.
LEMMA ClientFlowFrame ==
    ASSUME ClientFlow, UNCHANGED <<c2s, hRx, cTx>>, SameHTx
    PROVE  ClientFlow'
  BY DEF ClientFlow, SameHTx

\* ClientCounters when neither the wire nor a counter changes.
LEMMA ClientCountersFrame ==
    ASSUME ClientCounters, UNCHANGED <<c2s, hRx, cTx, cFault>>
    PROVE  ClientCounters'
  BY DEF ClientCounters, Continues

\* HostFlow when the host writes nothing and the reader takes nothing.
LEMMA HostFlowFrame ==
    ASSUME HostFlow, SameTx, UNCHANGED <<s2c, hTx, newKey, cRx, cPend>>,
           hAlive' => hAlive, rpc' = rpc \/ rpc' = "done"
    PROVE  HostFlow'
<1>1. Ahead' = Ahead /\ Acks' = Acks  BY DEF Ahead, Acks, SameTx
<1>2. rpc' # "done" => RxCtr' = RxCtr  BY DEF RxCtr
<1>3. \A i : After(i)' = After(i)  BY <1>1 DEF After
<1>4. QED  BY <1>1, <1>2, <1>3 DEF HostFlow, SameTx

\* The parts that are about the frames in flight and the keys they need.
Flow == KeyInv /\ RotationInv /\ ClientFlow /\ ClientCounters /\ HostFlow

\* Steps that touch neither frames nor keys.
LEMMA QuietFlow ==
    ASSUME Flow,
           UNCHANGED <<c2s, s2c, cTx, hTx, hRx, cRx, hPend, cPend, newKey, offer,
                       pendingEph, rekeying, hEph, cFault>>,
           \A s \in Senders : spc'[s] = "offered" <=> spc[s] = "offered",
           hAlive' => hAlive, rpc' = rpc \/ rpc' = "done",
           hpc' = "ack" => hpc = "ack"
    PROVE  Flow'
<1> USE DEF Flow
<1>1. SameTx /\ SameHTx /\ SameKeys  BY DEF SameTx, SameHTx, SameKeys
<1>2. RotationInv'  BY <1>1, SameRekeys, RotationFrame
<1>3. QED
  BY <1>1, <1>2, KeyFrame, ClientFlowFrame, ClientCountersFrame, HostFlowFrame

-----------------------------------------------------------------------------
(* The client's senders.                                                   *)

\* The REKEY frames in flight after a frame was sealed.
LEMMA SealedRekeys ==
    ASSUME Nats, NEW type, type # "Garbled", NEW body \in Nat, Sealed(type, body)
    PROVE  \A i \in Rekeys' :
              \/ i \in Rekeys /\ c2s'[i] = c2s[i]
              \/ /\ type = "Rekey" /\ i = Len(c2s) + 1
                 /\ c2s'[i].body = body /\ c2s'[i].epoch = cTx.epoch
<1> DEFINE f == Seal(cTx, IF cFault = "torn" THEN "Garbled" ELSE type, body)
<1>1. f.body = body /\ f.epoch = cTx.epoch /\ (f.type = "Rekey" => type = "Rekey")
  BY DEF Seal
<1> HIDE DEF f
<1>2. CASE Grown(c2s, c2s', f)
  <2>1. /\ DOMAIN c2s' = 1 .. Len(c2s) + 1 /\ DOMAIN c2s = 1 .. Len(c2s) /\ Len(c2s) \in Nat
        /\ c2s'[Len(c2s) + 1] = f /\ \A i \in DOMAIN c2s : c2s'[i] = c2s[i]
    BY <1>2 DEF Grown, Nats
  <2>2. \A i \in DOMAIN c2s' : i = Len(c2s) + 1 \/ i \in DOMAIN c2s  BY <2>1
  <2>3. QED  BY <1>1, <2>1, <2>2 DEF Rekeys
<1>3. CASE c2s' = c2s  BY <1>3 DEF Rekeys
<1>4. QED  BY <1>2, <1>3 DEF Sealed, f

\* The steps of the client's sending threads keep both directions in step.
LEMMA SenderFlow ==
    ASSUME TypeOK, NonceInv, Flow, NEW s \in Senders, Call(s) \/ SenderStep(s)
    PROVE  Flow'
<1> USE DEF chans, cSend, cRead, hThread, hSend, history
<1>0. /\ spc \in [Senders -> {"idle", "wait", "locked", "offered", "frame"}]
      /\ ephs \in Nat /\ cSent \in Nat
  BY DEF TypeOK, CSendOK, HistoryOK
<1>n. Nats  BY TypesNats
<1>1. CASE Call(s)
  <2>1. \A t \in Senders : spc'[t] = "offered" <=> spc[t] = "offered"  BY <1>0, <1>1 DEF Call
  <2>2. QED  BY <2>1, <1>1, QuietFlow DEF Call
<1>2. CASE Lock(s)
  <2>1. \A t \in Senders : spc'[t] = "offered" <=> spc[t] = "offered"  BY <1>0, <1>2 DEF Lock
  <2>2. QED  BY <2>1, <1>2, QuietFlow DEF Lock
<1>3. CASE NotDue(s)
  <2>1. \A t \in Senders : spc'[t] = "offered" <=> spc[t] = "offered"  BY <1>0, <1>3 DEF NotDue
  <2>2. QED  BY <2>1, <1>3, QuietFlow DEF NotDue
<1>4. CASE StoreEph(s)
  <2>0. UNCHANGED <<c2s, s2c, cTx, hTx, hRx, cRx, hPend, cPend, newKey, offer,
                    hEph, cFault, hAlive, rpc, hpc>>
        /\ rekeying' = TRUE /\ pendingEph' = {offer}
    BY <1>4 DEF StoreEph
  <2>1. SameTx /\ SameHTx /\ SameKeys  BY <2>0 DEF SameTx, SameHTx, SameKeys
  <2>2. RotationInv'
    BY <2>0 DEF Flow, RotationInv, Rekeys, Ahead
  <2>3. QED
    BY <2>0, <2>1, <2>2, KeyFrame, ClientFlowFrame, ClientCountersFrame, HostFlowFrame DEF Flow
<1>5. CASE SendFrame(s)
  <2>0. UNCHANGED <<s2c, hTx, hRx, cRx, hPend, cPend, newKey, offer, hEph, hAlive,
                    rpc, hpc, rekeying, pendingEph>>
    BY <1>5 DEF SendFrame
  <2>1. PICK ok \in BOOLEAN : ClientSeal("Data", cSent + 1, ok)  BY <1>5 DEF SendFrame
  <2>2. Sealed("Data", cSent + 1)  BY <2>1, <1>0, ClientSealEffect
  <2>3. \A t \in Senders : spc'[t] = "offered" <=> spc[t] = "offered"
    BY <1>0, <1>5 DEF SendFrame
  <2>4. \A i \in Rekeys' : i \in Rekeys /\ c2s'[i] = c2s[i]
    BY <1>n, <1>0, <2>2, SealedRekeys
  <2>5. SameTx /\ SameHTx /\ SameKeys  BY <2>0, <2>2 DEF SameTx, SameHTx, SameKeys, Sealed
  <2>6. \A i, j \in Rekeys' : i = j  BY <2>4 DEF Flow, RotationInv
  <2>7. RotationInv'
    BY <2>0, <2>3, <2>4, <2>5, <2>6, RotationFrame DEF Flow
  <2>8. ClientFlow' /\ ClientCounters'
    BY <1>n, <1>0, <2>0, <2>2, SealedFlow, SealedCounters DEF Flow
  <2>9. QED  BY <2>0, <2>5, <2>7, <2>8, KeyFrame, HostFlowFrame DEF Flow
<1>6. CASE BeginRekey(s)
  <2>0. UNCHANGED <<s2c, hTx, hRx, cRx, hPend, cPend, newKey, hEph, hAlive,
                    rpc, hpc, rekeying, pendingEph>>
    BY <1>6 DEF BeginRekey
  <2>1. PICK ok \in BOOLEAN :
            /\ ClientSeal("Rekey", ephs + 1, ok)
            /\ offer' = IF ok THEN ephs + 1 ELSE offer
            /\ spc' = [spc EXCEPT ![s] = IF ok THEN "offered" ELSE "frame"]
    BY <1>6 DEF BeginRekey
  <2>2. Sealed("Rekey", ephs + 1) /\ (~ok => c2s' = c2s)  BY <2>1, <1>0, ClientSealEffect
  <2>3. ~rekeying /\ cTx.epoch < MaxEpoch /\ spc[s] = "locked"
    BY <1>6 DEF BeginRekey, MayRotate
  <2>4. \A t \in Senders : spc[t] # "offered"
    BY <2>3 DEF NonceInv, LockInv
  <2>5. Rekeys = {} /\ hpc # "ack" /\ ~Ahead
    BY <2>3, <2>4 DEF Flow, RotationInv
  <2>6. pendingEph = {}  BY <2>3 DEF NonceInv, OfferInv
  <2>7. hTx.epoch = cTx.epoch
    BY <2>5, <1>n DEF Flow, KeyInv, Ahead, Nats
  <2>8. SameTx /\ SameHTx /\ SameKeys  BY <2>0, <2>2 DEF SameTx, SameHTx, SameKeys, Sealed
  <2>9. /\ \A i, j \in Rekeys' : i = j
        /\ \A i \in Rekeys' : c2s'[i].body = ephs + 1 /\ c2s'[i].epoch = cTx.epoch
    BY <1>n, <1>0, <2>2, <2>5, SealedRekeys
  <2>10. ~ok => Rekeys' = {}  BY <2>2, <2>5 DEF Rekeys
  <2>11. ok => spc'[s] = "offered"  BY <2>1, <1>0
  <2>12. ~Ahead'  BY <2>5, <2>8 DEF Ahead, SameTx, SameHTx
  <2>13. RotationInv'
    BY <2>0, <2>1, <2>3, <2>5, <2>6, <2>7, <2>9, <2>10, <2>11, <2>12 DEF RotationInv
  <2>14. ClientFlow' /\ ClientCounters'
    BY <1>n, <1>0, <2>0, <2>2, SealedFlow, SealedCounters DEF Flow
  <2>15. QED  BY <2>0, <2>8, <2>13, <2>14, KeyFrame, HostFlowFrame DEF Flow
<1>7. QED  BY <1>1, <1>2, <1>3, <1>4, <1>5, <1>6 DEF SenderStep

-----------------------------------------------------------------------------
(* The host takes a frame.                                                 *)

\* Nothing the host reads can be turned down while no write of the client
\* failed; what it accepts is of its own epoch or the first of the next.
LEMMA HostAccepts ==
    ASSUME Nats, KeyInv, ClientFlow, ClientCounters, Len(c2s) > 0, cFault = "none",
           MaxEpoch \in Nat
    PROVE  Accepts(hRx, hPend, c2s[1])
<1> DEFINE f == c2s[1]
<1>0. 1 \in DOMAIN c2s  BY DEF Nats
<1>1. /\ hRx.epoch <= f.epoch /\ f.epoch <= cTx.epoch /\ f.epoch \in Nat
      /\ f.epoch = hRx.epoch => f.key = hRx.key
      /\ f.epoch = hTx.epoch => f.key = hTx.key
  BY <1>0 DEF Nats, ClientFlow
<1>2. Continues(f, hRx.epoch, hRx.ctr)  BY DEF ClientCounters
<1> HIDE DEF f
<1>3. CASE f.epoch = hRx.epoch  BY <1>1, <1>2, <1>3 DEF Continues, Accepts, f
<1>4. CASE f.epoch # hRx.epoch
  <2>1. f.epoch = hRx.epoch + 1 /\ f.epoch = hTx.epoch /\ hTx.epoch # hRx.epoch
    <3>1. cTx.epoch <= hTx.epoch /\ hTx.epoch <= hRx.epoch + 1  BY DEF KeyInv
    <3>2. QED  BY <3>1, <1>1, <1>4, KeyNats, SMTT(30)
  <2>2. hPend = {hTx.key} /\ hRx.epoch + 1 <= MaxEpoch  BY <2>1 DEF KeyInv
  <2>3. (hRx.epoch + 1) % (MaxEpoch + 1) = hRx.epoch + 1
    BY <2>2, NoWrap, KeyNats
  <2>4. QED  BY <1>1, <1>2, <1>4, <2>1, <2>2, <2>3 DEF Continues, Accepts, f
<1>5. QED  BY <1>3, <1>4

\* The receive state after a frame was opened.
LEMMA HostOpened ==
    ASSUME Nats, KeyInv, ClientFlow, c2s \in Seq(Frame), c2s # <<>>, HostOpens
    PROVE  /\ hRx'.epoch = c2s[1].epoch /\ hRx'.ctr = c2s[1].ctr + 1 /\ hRx'.key = c2s[1].key
           /\ \/ hRx'.epoch = hRx.epoch /\ hRx'.key = hRx.key /\ hPend' = hPend
              \/ /\ hRx'.epoch = hTx.epoch /\ hRx'.key = hTx.key /\ hPend' = {}
                 /\ hRx'.epoch = cTx.epoch /\ hRx.epoch + 1 = cTx.epoch
           /\ c2s[1].type # "Garbled"
<1> DEFINE f == c2s[1]
<1>0. 1 \in DOMAIN c2s /\ Head(c2s) = f  BY Shrinks, Indices DEF Nats
<1>1. /\ hRx.epoch <= f.epoch /\ f.epoch <= cTx.epoch /\ f.epoch \in Nat /\ f.ctr \in Nat
      /\ f.epoch = hTx.epoch => f.key = hTx.key
  BY <1>0 DEF Nats, ClientFlow
<1>2. /\ Accepts(hRx, hPend, f) /\ f.type # "Garbled"
      /\ hRx' = RxAfter(hRx, f) /\ hPend' = PendAfter(hRx, hPend, f)
  BY <1>0 DEF HostOpens
<1>3. hRx \in KeyState  BY DEF Nats
<1> HIDE DEF f
<1>4. CASE f.epoch = hRx.epoch
  <2>1. hRx' = [hRx EXCEPT !.ctr = @ + 1] /\ hPend' = hPend
    BY <1>2, <1>4 DEF RxAfter, PendAfter
  <2>2. hRx'.epoch = hRx.epoch /\ hRx'.ctr = hRx.ctr + 1 /\ hRx'.key = hRx.key
    BY <2>1, <1>3 DEF KeyState
  <2>3. f.ctr = hRx.ctr /\ f.key = hRx.key  BY <1>2, <1>4 DEF Accepts
  <2>4. QED  BY <1>2, <1>4, <2>1, <2>2, <2>3 DEF f
<1>5. CASE f.epoch # hRx.epoch
  <2>1. hRx' = [key |-> f.key, epoch |-> f.epoch, ctr |-> 1] /\ hPend' = {} /\ f.ctr = 0
    BY <1>2, <1>5 DEF RxAfter, PendAfter, Accepts
  <2>2. f.epoch = hRx.epoch + 1 /\ f.epoch = hTx.epoch /\ f.epoch = cTx.epoch
    BY <1>1, <1>5, KeyNats, SMTT(30) DEF KeyInv
  <2>3. QED  BY <1>1, <1>2, <2>1, <2>2 DEF f
<1>6. QED  BY <1>4, <1>5

\* The host is done with its first frame, accepted or passed over.
LEMMA TakenRekeys ==
    ASSUME Nats, RotationInv, Shrunk(c2s, c2s')
    PROVE  /\ Rekeys' # {} => Rekeys # {}
           /\ \A i, j \in Rekeys' : i = j
           /\ \A i \in Rekeys' : \E j \in Rekeys : c2s'[i] = c2s[j]
           /\ 1 \in Rekeys => Rekeys' = {}
<1>0. /\ Len(c2s) \in Nat /\ DOMAIN c2s = 1 .. Len(c2s) /\ DOMAIN c2s' = 1 .. Len(c2s) - 1
      /\ \A i \in DOMAIN c2s' : c2s'[i] = c2s[i + 1]
  BY DEF Nats, Shrunk
<1>1. \A i \in Rekeys' : i \in Int /\ i > 0 /\ i + 1 \in Rekeys /\ c2s'[i] = c2s[i + 1]
  BY <1>0 DEF Rekeys
<1>2. \A i, j \in Rekeys : i = j  BY DEF RotationInv
<1>3. \A i, j \in Rekeys' : i = j
  <2>1. SUFFICES ASSUME NEW i \in Rekeys', NEW j \in Rekeys' PROVE i = j  OBVIOUS
  <2>2. i + 1 = j + 1  BY <1>1, <1>2
  <2>3. QED  BY <2>2, <1>1
<1>4. 1 \in Rekeys => Rekeys' = {}
  <2>1. SUFFICES ASSUME 1 \in Rekeys, NEW i \in Rekeys' PROVE FALSE  OBVIOUS
  <2>2. i + 1 = 1  BY <1>1, <1>2, <2>1
  <2>3. QED  BY <2>2, <1>1
<1>5. QED  BY <1>1, <1>3, <1>4

\* The frames behind the one the host accepted.
LEMMA OpenedFlow ==
    ASSUME Nats, KeyInv, ClientFlow, Shrunk(c2s, c2s'), UNCHANGED <<cTx, hTx>>,
           hRx'.epoch = c2s[1].epoch, hRx'.ctr = c2s[1].ctr + 1, hRx'.key = c2s[1].key
    PROVE  ClientFlow'
<1>0. /\ Len(c2s) \in Nat /\ Len(c2s) > 0 /\ DOMAIN c2s = 1 .. Len(c2s)
      /\ DOMAIN c2s' = 1 .. Len(c2s) - 1
      /\ \A i \in DOMAIN c2s' : c2s'[i] = c2s[i + 1]
  BY DEF Nats, Shrunk
<1>1. 1 \in DOMAIN c2s /\ \A i \in DOMAIN c2s' : i \in Int /\ i + 1 \in DOMAIN c2s /\ 1 < i + 1
  BY <1>0
<1>2. ASSUME NEW i \in DOMAIN c2s'
      PROVE  /\ hRx'.epoch <= c2s'[i].epoch /\ c2s'[i].epoch <= cTx.epoch
             /\ c2s'[i].epoch = hRx'.epoch => c2s'[i].key = hRx'.key /\ hRx'.ctr <= c2s'[i].ctr
             /\ c2s'[i].epoch = hTx.epoch => c2s'[i].key = hTx.key
             /\ c2s'[i].epoch = cTx.epoch => c2s'[i].ctr < cTx.ctr
  <2> DEFINE f == c2s[1]  g == c2s[i + 1]
  <2>1. c2s'[i] = g  BY <1>0
  <2>2. /\ f.epoch <= g.epoch /\ (f.epoch = g.epoch => f.ctr < g.ctr)
        /\ f.epoch \in Nat /\ f.ctr \in Nat /\ g.epoch \in Nat /\ g.ctr \in Nat
    BY <1>1 DEF ClientFlow, Nats
  <2>3. /\ hRx.epoch <= f.epoch /\ f.epoch <= cTx.epoch
        /\ f.epoch = hRx.epoch => f.key = hRx.key
        /\ f.epoch = hTx.epoch => f.key = hTx.key
    BY <1>1 DEF ClientFlow
  <2>4. /\ hRx.epoch <= g.epoch /\ g.epoch <= cTx.epoch
        /\ g.epoch = hRx.epoch => g.key = hRx.key
        /\ g.epoch = hTx.epoch => g.key = hTx.key
        /\ g.epoch = cTx.epoch => g.ctr < cTx.ctr
    BY <1>1 DEF ClientFlow
  <2> HIDE DEF f, g
  <2>5. f.epoch = g.epoch => g.key = f.key
    BY <2>2, <2>3, <2>4, KeyNats DEF KeyInv
  <2>6. hRx'.epoch = f.epoch /\ hRx'.ctr = f.ctr + 1 /\ hRx'.key = f.key  BY DEF f
  <2>7. QED  BY <2>1, <2>2, <2>4, <2>5, <2>6
<1>3. ASSUME NEW i \in DOMAIN c2s', NEW j \in DOMAIN c2s', i < j
      PROVE  /\ c2s'[i].epoch <= c2s'[j].epoch
             /\ c2s'[i].epoch = c2s'[j].epoch => c2s'[i].ctr < c2s'[j].ctr
  <2>1. i + 1 < j + 1  BY <1>1, <1>3
  <2>2. QED  BY <2>1, <1>0, <1>1 DEF ClientFlow
<1>4. cTx.epoch = hRx'.epoch => hRx'.ctr <= cTx.ctr
  <2>1. c2s[1].epoch = cTx.epoch => c2s[1].ctr < cTx.ctr  BY <1>1 DEF ClientFlow
  <2>2. c2s[1].ctr \in Nat  BY <1>1 DEF Nats
  <2>3. QED  BY <2>1, <2>2, KeyNats
<1>5. QED  BY <1>2, <1>3, <1>4 DEF ClientFlow

\* The frames behind one the host did not accept.
LEMMA PassedFlow ==
    ASSUME Nats, ClientFlow, Shrunk(c2s, c2s'), UNCHANGED <<cTx, hTx, hRx>>
    PROVE  ClientFlow'
<1>0. /\ Len(c2s) \in Nat /\ Len(c2s) > 0 /\ DOMAIN c2s = 1 .. Len(c2s)
      /\ DOMAIN c2s' = 1 .. Len(c2s) - 1
      /\ \A i \in DOMAIN c2s' : c2s'[i] = c2s[i + 1]
  BY DEF Nats, Shrunk
<1>1. \A i \in DOMAIN c2s' : i \in Int /\ i + 1 \in DOMAIN c2s  BY <1>0
<1>2. ASSUME NEW i \in DOMAIN c2s', NEW j \in DOMAIN c2s', i < j
      PROVE  /\ c2s'[i].epoch <= c2s'[j].epoch
             /\ c2s'[i].epoch = c2s'[j].epoch => c2s'[i].ctr < c2s'[j].ctr
  <2>1. i + 1 < j + 1  BY <1>1, <1>2
  <2>2. QED  BY <2>1, <1>0, <1>1 DEF ClientFlow
<1>3. QED  BY <1>0, <1>1, <1>2 DEF ClientFlow

\* Either the counters continue where the frame left off, or a write failed.
LEMMA TakenCounters ==
    ASSUME Nats, ClientCounters, Shrunk(c2s, c2s'), UNCHANGED <<cTx, cFault>>,
           \/ cFault # "none"
           \/ hRx'.epoch = c2s[1].epoch /\ hRx'.ctr = c2s[1].ctr + 1
    PROVE  ClientCounters'
<1>0. /\ Len(c2s) \in Nat /\ Len(c2s) > 0 /\ DOMAIN c2s = 1 .. Len(c2s)
      /\ DOMAIN c2s' = 1 .. Len(c2s) - 1 /\ Len(c2s') = Len(c2s) - 1
      /\ \A i \in DOMAIN c2s' : c2s'[i] = c2s[i + 1]
  BY DEF Nats, Shrunk
<1>1. \A i \in DOMAIN c2s' : i \in Int /\ i + 1 \in DOMAIN c2s  BY <1>0
<1>2. cFault # "torn" => \A i \in DOMAIN c2s' : c2s'[i].type # "Garbled"
  BY <1>0, <1>1 DEF ClientCounters
<1>3. CASE cFault # "none"  BY <1>2, <1>3 DEF ClientCounters
<1>4. CASE cFault = "none"
  <2>0. /\ Continues(cTx, c2s[Len(c2s)].epoch, c2s[Len(c2s)].ctr + 1)
        /\ \A i \in DOMAIN c2s : i > 1 =>
              Continues(c2s[i], c2s[i - 1].epoch, c2s[i - 1].ctr + 1)
    BY <1>0, <1>4 DEF ClientCounters
  <2>1. hRx'.epoch = c2s[1].epoch /\ hRx'.ctr = c2s[1].ctr + 1  BY <1>4
  <2>2. CASE Len(c2s) = 1
    <3>1. Continues(cTx, hRx'.epoch, hRx'.ctr)  BY <2>0, <2>1, <2>2
    <3>2. QED  BY <3>1, <2>2, <1>0, <1>2, <1>4 DEF ClientCounters, Continues
  <2>3. CASE Len(c2s) > 1
    <3>1. c2s'[1] = c2s[2] /\ 2 \in DOMAIN c2s /\ c2s'[Len(c2s')] = c2s[Len(c2s)]
      BY <2>3, <1>0
    <3>2. Continues(c2s'[1], hRx'.epoch, hRx'.ctr)
      <4>1. \A i \in DOMAIN c2s : i > 1 /\ i - 1 = 1 =>
               Continues(c2s[i], c2s[1].epoch, c2s[1].ctr + 1)
        BY <2>0
      <4>2. QED  BY <4>1, <2>1, <3>1
    <3>3. Continues(cTx, c2s'[Len(c2s')].epoch, c2s'[Len(c2s')].ctr + 1)
      BY <2>0, <3>1
    <3>4. ASSUME NEW i \in DOMAIN c2s', i > 1
          PROVE  Continues(c2s'[i], c2s'[i - 1].epoch, c2s'[i - 1].ctr + 1)
      <4>1. i + 1 \in DOMAIN c2s /\ i + 1 > 1 /\ i - 1 \in DOMAIN c2s' /\ i \in Int
        BY <1>0, <3>4
      <4>2. c2s'[i] = c2s[i + 1] /\ c2s'[i - 1] = c2s[(i + 1) - 1]  BY <4>1, <1>0
      <4>3. QED  BY <4>1, <4>2, <2>0
    <3>5. Continues(cTx', c2s'[Len(c2s')].epoch, c2s'[Len(c2s')].ctr + 1)  BY <3>3
    <3>6. Len(c2s') > 0  BY <2>3, <1>0
    <3>7. QED  BY <3>2, <3>4, <3>5, <3>6, <1>2, <1>4 DEF ClientCounters
  <2>4. QED  BY <2>2, <2>3, <1>0
<1>5. QED  BY <1>3, <1>4

\* The steps of the connection thread that read a frame.
LEMMA HostTakesFlow ==
    ASSUME TypeOK, Flow, HostBad \/ HostSkip \/ HostRekey \/ HostData
    PROVE  Flow'
<1> USE DEF chans, cSend, cRead, hThread, hSend, history, HostLeaves
<1>0. c2s \in Seq(Frame) /\ Nats /\ MaxEpoch \in Nat
  BY TypesNats, SessionConstants DEF TypeOK, ChansOK
<1>1. HostTakes  BY DEF HostBad, HostSkip, HostRekey, HostData
<1>2. Shrunk(c2s, c2s') /\ Head(c2s) = c2s[1] /\ c2s # <<>> /\ Len(c2s) > 0 /\ 1 \in DOMAIN c2s
  BY <1>0, <1>1, Shrinks, Indices DEF HostTakes, Nats
<1>3. /\ UNCHANGED <<s2c, cTx, cRx, cPend, newKey, offer, pendingEph, rekeying, spc, rpc,
                     hTx, cFault>>
      /\ hAlive' => hAlive
  BY DEF HostBad, HostSkip, HostRekey, HostData, HostExit, HostStays
<1>4. /\ Rekeys' # {} => Rekeys # {}
      /\ \A i, j \in Rekeys' : i = j
      /\ \A i \in Rekeys' : \E j \in Rekeys : c2s'[i] = c2s[j]
      /\ 1 \in Rekeys => Rekeys' = {}
  BY <1>0, <1>2, TakenRekeys DEF Flow
<1>5. SameTx /\ SameHTx  BY <1>3 DEF SameTx, SameHTx
<1>6. HostFlow'  BY <1>3, <1>5, HostFlowFrame DEF Flow
<1>7. CASE HostBad \/ HostSkip
  <2>1. UNCHANGED <<hRx, hPend, hEph>> /\ hpc' # "ack"
    BY <1>7 DEF HostBad, HostSkip, HostExit, HostStays
  <2>2. cFault # "none"
    <3>1. CASE c2s[1].type = "Garbled"  BY <3>1, <1>2 DEF Flow, ClientCounters
    <3>2. CASE c2s[1].type # "Garbled"
      <4>1. ~Accepts(hRx, hPend, c2s[1])  BY <3>2, <1>2, <1>7 DEF HostBad, HostSkip
      <4>2. QED  BY <4>1, <1>0, <1>2, HostAccepts DEF Flow
    <3>3. QED  BY <3>1, <3>2
  <2>3. KeyInv'  BY <1>3, <1>5, <2>1, KeyFrame DEF Flow, SameKeys
  <2>4. RotationInv'  BY <1>3, <1>4, <1>5, <2>1, RotationFrame DEF Flow
  <2>5. ClientFlow'  BY <1>0, <1>2, <1>3, <2>1, PassedFlow DEF Flow
  <2>6. ClientCounters'  BY <1>0, <1>2, <1>3, <2>2, TakenCounters DEF Flow
  <2>7. QED  BY <1>6, <2>3, <2>4, <2>5, <2>6 DEF Flow
<1>8. CASE HostRekey \/ HostData
  <2>0. HostOpens  BY <1>8 DEF HostRekey, HostData
  <2>1. /\ hRx'.epoch = c2s[1].epoch /\ hRx'.ctr = c2s[1].ctr + 1 /\ hRx'.key = c2s[1].key
        /\ \/ hRx'.epoch = hRx.epoch /\ hRx'.key = hRx.key /\ hPend' = hPend
           \/ /\ hRx'.epoch = hTx.epoch /\ hRx'.key = hTx.key /\ hPend' = {}
              /\ hRx'.epoch = cTx.epoch /\ hRx.epoch + 1 = cTx.epoch
    BY <1>0, <1>2, <2>0, HostOpened DEF Flow
  <2>2. ClientFlow'  BY <1>0, <1>2, <1>3, <2>1, OpenedFlow DEF Flow
  <2>3. ClientCounters'  BY <1>0, <1>2, <1>3, <2>1, TakenCounters DEF Flow
  <2>4. KeyInv'
    <3>1. CASE hRx'.epoch = hRx.epoch /\ hRx'.key = hRx.key /\ hPend' = hPend
      BY <3>1, <1>3 DEF Flow, KeyInv
    <3>2. CASE /\ hRx'.epoch = hTx.epoch /\ hRx'.key = hTx.key /\ hPend' = {}
               /\ hRx'.epoch = cTx.epoch /\ hRx.epoch + 1 = cTx.epoch
      <4>1. cTx.epoch \in Nat /\ hTx.epoch \in Nat  BY <1>0, KeyNats
      <4>2. cTx'.epoch = hTx'.epoch /\ cTx'.key = hTx'.key /\ hRx'.key = hTx'.key
        BY <3>2, <1>3 DEF Flow, KeyInv
      <4>3. /\ hRx'.epoch <= cTx'.epoch /\ cTx'.epoch <= hTx'.epoch
            /\ hTx'.epoch <= hRx'.epoch + 1 /\ hTx'.epoch = hRx'.epoch
        BY <3>2, <4>1, <4>2, <1>3
      <4>4. QED  BY <4>2, <4>3, <3>2, <1>3 DEF Flow, KeyInv
    <3>3. QED  BY <2>1, <3>1, <3>2
  <2>5. RotationInv'
    <3>0. Ahead' = Ahead  BY <1>3 DEF Ahead
    <3>1. CASE HostRekey
      <4>1. 1 \in Rekeys  BY <3>1, <1>2 DEF HostRekey, Rekeys
      <4>2. /\ c2s[1].body = offer /\ c2s[1].epoch = hTx.epoch
            /\ ~Ahead /\ hTx.epoch < MaxEpoch
            /\ rekeying \/ \E s \in Senders : spc[s] = "offered"
        BY <4>1 DEF Flow, RotationInv
      <4>3. hEph' = c2s[1].body
        BY <3>1, <1>0, <1>2, <4>2, KeyNats DEF HostRekey
      <4>4. Rekeys' = {}  BY <4>1, <1>4
      <4>5. pendingEph' \subseteq {offer'}  BY <1>3 DEF Flow, RotationInv
      <4>6. QED  BY <4>2, <4>3, <4>4, <4>5, <3>0, <1>3, <2>1 DEF RotationInv
    <3>2. CASE HostData
      <4>1. hpc' # "ack" /\ hEph' = hEph  BY <3>2 DEF HostData, HostStays
      <4>2. \A i \in Rekeys' : c2s'[i].body = offer' /\ c2s'[i].epoch = hTx'.epoch
        BY <1>3, <1>4 DEF Flow, RotationInv
      <4>3. QED  BY <4>1, <4>2, <3>0, <1>3, <1>4 DEF Flow, RotationInv
    <3>3. QED  BY <1>8, <3>1, <3>2
  <2>6. QED  BY <1>6, <2>2, <2>3, <2>4, <2>5 DEF Flow
<1>9. QED  BY <1>7, <1>8
-----------------------------------------------------------------------------
(* The host seals a frame.                                                 *)

\* The effect of send_sealed on the key state and on the wire.
HostSealed(type, body) ==
    /\ hAlive /\ SameHTx /\ hTx'.ctr = hTx.ctr + 1
    /\ \/ Grown(s2c, s2c', Seal(hTx, type, body)) /\ hAlive' = hAlive
       \/ s2c' = s2c /\ ~hAlive'

\* send_sealed has the effect HostSealed; only a failed write leaves the wire alone.
LEMMA HostSealEffect ==
    ASSUME TypeOK, hAlive, NEW type \in {"Data", "Error"}, NEW body \in Nat, NEW ok \in BOOLEAN,
           HostSeal(type, body, ok)
    PROVE  /\ HostSealed(type, body)
           /\ ~ok => s2c' = s2c
           /\ ok => Grown(s2c, s2c', Seal(hTx, type, body)) /\ cOpen /\ hOpen
<1>1. s2c \in Seq(Frame) /\ hTx \in KeyState
  BY DEF TypeOK, ChansOK, HSendOK
<1>2. Seal(hTx, type, body) \in Frame  BY <1>1, SealType
<1>3. SameHTx /\ hTx'.ctr = hTx.ctr + 1
  BY <1>1 DEF HostSeal, KeyState, SameHTx
<1>4. ~ok => s2c' = s2c /\ ~hAlive'  BY DEF HostSeal
<1>5. ok => s2c' = Append(s2c, Seal(hTx, type, body)) /\ hAlive' = hAlive /\ cOpen /\ hOpen
  BY DEF HostSeal, WriteCompletes
<1>6. QED  BY <1>1, <1>2, <1>3, <1>4, <1>5, Grows DEF HostSealed

\* Sealing a frame keeps the order of the host's frames, or it is the last.
LEMMA HostSealedFlow ==
    ASSUME Nats, KeyInv, HostFlow, UNCHANGED <<cTx, rpc, newKey, cRx, cPend>>,
           NEW type \in {"Data", "Error"}, NEW body \in Nat, HostSealed(type, body)
    PROVE  HostFlow'
<1> DEFINE f == Seal(hTx, type, body)
<1>n. PICK n \in Nat : n = Len(s2c)  BY DEF Nats
<1>0. n = Len(s2c) /\ DOMAIN s2c = 1 .. n  BY <1>n DEF Nats
<1>1. f.key = hTx.key /\ f.epoch = hTx.epoch /\ f.ctr = hTx.ctr /\ f.type \in {"Data", "Error"}
  BY DEF Seal
<1>2. hTx'.key = hTx.key /\ hTx'.epoch = hTx.epoch /\ hTx'.ctr = hTx.ctr + 1 /\ hAlive
  BY DEF HostSealed, SameHTx
<1>3. Ahead' = Ahead /\ RxCtr' = RxCtr  BY <1>2 DEF Ahead, RxCtr
<1> HIDE DEF f
<1>4. CASE Grown(s2c, s2c', f)
  <2>0. /\ DOMAIN s2c' = 1 .. n + 1 /\ Len(s2c') = n + 1
        /\ s2c'[n + 1] = f /\ \A i \in DOMAIN s2c : s2c'[i] = s2c[i]
    BY <1>4, <1>0 DEF Grown
  <2>1. \A i \in DOMAIN s2c' : i = n + 1 \/ i \in DOMAIN s2c  BY <2>0, <1>0
  <2>2. Acks' = Acks /\ n + 1 \notin Acks /\ \A i \in Acks : i \in DOMAIN s2c /\ i <= n
    BY <2>0, <2>1, <1>0, <1>1 DEF Acks
  <2>3. After(n + 1)' = hTx.ctr + 1 /\ \A i \in DOMAIN s2c : After(i)' = After(i)
    BY <2>0, <2>2, <1>1 DEF After
  <2>4. ASSUME NEW i \in DOMAIN s2c'
        PROVE  /\ \/ s2c'[i].epoch = cTx'.epoch /\ s2c'[i].key = cTx'.key
                  \/ s2c'[i].epoch = hTx'.epoch /\ s2c'[i].key = hTx'.key
               /\ s2c'[i].type # "Garbled"
    BY <2>0, <2>1, <1>1, <1>2 DEF HostFlow
  <2>5. ASSUME NEW i \in Acks'
        PROVE  /\ Ahead' /\ s2c'[i].body = hTx'.key.s
               /\ \A j \in DOMAIN s2c' :
                     s2c'[j].epoch = IF j <= i THEN cTx'.epoch ELSE hTx'.epoch
    <3>1. i \in Acks /\ i \in DOMAIN s2c /\ i <= n /\ i \in Int  BY <2>2, <1>0
    <3>2. Ahead' /\ s2c'[i].body = hTx'.key.s  BY <3>1, <2>0, <1>2, <1>3 DEF HostFlow
    <3>3. ASSUME NEW j \in DOMAIN s2c'
          PROVE  s2c'[j].epoch = IF j <= i THEN cTx'.epoch ELSE hTx'.epoch
      <4>1. CASE j = n + 1  BY <4>1, <3>1, <2>0, <1>0, <1>1, <1>2
      <4>2. CASE j \in DOMAIN s2c  BY <4>2, <3>1, <2>0, <1>2 DEF HostFlow
      <4>3. QED  BY <4>1, <4>2, <2>1
    <3>4. QED  BY <3>2, <3>3
  <2>6. Acks' = {} => \A j \in DOMAIN s2c' : s2c'[j].epoch = hTx'.epoch
    BY <2>0, <2>1, <2>2, <1>1, <1>2 DEF HostFlow
  <2>7. ASSUME NEW i \in DOMAIN s2c', i > 1 PROVE s2c'[i].ctr = After(i - 1)'
    <3>0. i - 1 \in DOMAIN s2c  BY <2>0, <2>7, <1>0
    <3>1. CASE i = n + 1
      <4>1. n > 0 /\ i - 1 = n  BY <3>1, <2>7, <1>0
      <4>2. hTx.ctr = After(n)  BY <4>1, <1>0, <1>2 DEF HostFlow
      <4>3. After(n)' = After(n)  BY <2>3, <3>0, <4>1
      <4>4. QED  BY <3>1, <4>1, <4>2, <4>3, <2>0, <1>1
    <3>2. CASE i \in DOMAIN s2c
      <4>1. s2c[i].ctr = After(i - 1)  BY <3>2, <2>7 DEF HostFlow
      <4>2. After(i - 1)' = After(i - 1)  BY <3>0, <2>3
      <4>3. QED  BY <3>2, <4>1, <4>2, <2>0
    <3>3. QED  BY <3>1, <3>2, <2>1
  <2>8. hTx'.ctr = After(Len(s2c))'  BY <2>0, <2>3, <1>2
  <2>9. rpc' # "done" => s2c'[1].ctr = RxCtr'
    <3>1. CASE n = 0  BY <3>1, <2>0, <1>0, <1>1, <1>2, <1>3 DEF HostFlow
    <3>2. CASE n > 0
      <4>1. s2c'[1] = s2c[1]  BY <3>2, <2>0, <1>0
      <4>2. QED  BY <3>2, <4>1, <1>0, <1>3 DEF HostFlow
    <3>3. QED  BY <3>1, <3>2, <1>0
  <2>10. Len(s2c') > 0 /\ Len(s2c') # 0  BY <2>0, <1>0
  <2>11. /\ Ahead' => Acks' # {} \/ rpc' # "read"
         /\ rpc' = "switch" =>
               Ahead' /\ Acks' = {} /\ newKey' = hTx'.key /\ cRx'.epoch = cTx'.epoch
    BY <2>2, <1>2, <1>3 DEF HostFlow
  <2>12. QED
    BY <2>4, <2>5, <2>6, <2>7, <2>8, <2>9, <2>10, <2>11 DEF HostFlow
<1>5. CASE s2c' = s2c /\ ~hAlive'
  <2>1. Acks' = Acks  BY <1>5 DEF Acks
  <2>2. \A i : After(i)' = After(i)  BY <1>5, <2>1 DEF After
  <2>3. QED  BY <1>2, <1>3, <1>5, <2>1, <2>2 DEF HostFlow
<1>6. QED  BY <1>4, <1>5 DEF HostSealed, f

\* Nothing else depends on the host's counter.
LEMMA HostSealedRest ==
    ASSUME Nats, Flow, NEW type \in {"Data", "Error"}, NEW body \in Nat,
           HostSealed(type, body),
           UNCHANGED <<c2s, cTx, hRx, cRx, hPend, cPend, newKey, offer, pendingEph, rekeying,
                       spc, rpc, hEph, cFault>>,
           hpc' = "ack" => hpc = "ack"
    PROVE  Flow'
<1>1. SameHTx /\ SameTx /\ SameKeys  BY DEF HostSealed, SameTx, SameKeys
<1>2. RotationInv'  BY <1>1, SameRekeys, RotationFrame DEF Flow
<1>3. QED
  BY <1>1, <1>2, KeyFrame, ClientFlowFrame, ClientCountersFrame, HostSealedFlow DEF Flow
-----------------------------------------------------------------------------
(* The client's reader takes a frame.                                      *)

\* While the reader reads, the next frame is one of the client's epoch.
LEMMA ReaderHead ==
    ASSUME Nats, KeyInv, HostFlow, rpc = "read", Len(s2c) > 0
    PROVE  s2c[1].epoch = cTx.epoch /\ s2c[1].key = cTx.key /\ s2c[1].ctr = RxCtr
<1>0. 1 \in DOMAIN s2c  BY DEF Nats
<1>1. s2c[1].epoch = cTx.epoch
  <2>1. CASE Acks # {}
    <3>1. PICK i \in Acks : TRUE  BY <2>1
    <3>2. 1 <= i  BY DEF Acks, Nats
    <3>3. QED  BY <1>0, <3>1, <3>2 DEF HostFlow
  <2>2. CASE Acks = {}
    <3>1. ~Ahead /\ s2c[1].epoch = hTx.epoch  BY <1>0, <2>2 DEF HostFlow
    <3>2. hTx.epoch = cTx.epoch  BY <3>1, KeyNats, SMTT(30) DEF KeyInv, Ahead
    <3>3. QED  BY <3>1, <3>2
  <2>3. QED  BY <2>1, <2>2
<1>2. s2c[1].key = cTx.key  BY <1>0, <1>1 DEF HostFlow, KeyInv
<1>3. QED  BY <1>1, <1>2 DEF HostFlow

\* The reader accepts whatever the host wrote.
LEMMA ReaderAccepts ==
    ASSUME Nats, KeyInv, HostFlow, rpc = "read", Len(s2c) > 0, MaxEpoch \in Nat
    PROVE  Accepts(cRx, cPend, s2c[1])
<1> DEFINE f == s2c[1]
<1>1. f.epoch = cTx.epoch /\ f.key = cTx.key /\ f.ctr = RxCtr  BY ReaderHead
<1> HIDE DEF f
<1>2. CASE cTx.epoch = cRx.epoch
  <2>1. cPend = {} /\ cTx.key = cRx.key  BY <1>2 DEF KeyInv
  <2>2. QED  BY <1>1, <1>2, <2>1 DEF RxCtr, Accepts, f
<1>3. CASE cTx.epoch # cRx.epoch
  <2>1. cPend = {cTx.key}  BY <1>3 DEF KeyInv
  <2>2. cTx.epoch = cRx.epoch + 1 /\ cTx.epoch <= MaxEpoch  BY <1>3, KeyNats DEF KeyInv
  <2>3. (cRx.epoch + 1) % (MaxEpoch + 1) = cRx.epoch + 1
    BY <2>2, NoWrap, KeyNats
  <2>4. QED  BY <1>1, <1>3, <2>1, <2>2, <2>3 DEF RxCtr, Accepts, f
<1>4. QED  BY <1>2, <1>3

\* After an accepted frame the reader has caught up with the client's epoch.
LEMMA ReaderOpened ==
    ASSUME Nats, KeyInv, HostFlow, rpc = "read", s2c \in Seq(Frame), s2c # <<>>, ReaderOpens
    PROVE  /\ cRx'.epoch = cTx.epoch /\ cRx'.key = cTx.key /\ cRx'.ctr = s2c[1].ctr + 1
           /\ cPend' = {}
<1> DEFINE f == s2c[1]
<1>0. Head(s2c) = f /\ Len(s2c) > 0  BY Shrinks, Indices
<1>1. f.epoch = cTx.epoch /\ f.key = cTx.key /\ f.ctr = RxCtr  BY <1>0, ReaderHead
<1>2. cRx' = RxAfter(cRx, f) /\ cPend' = PendAfter(cRx, cPend, f)  BY <1>0 DEF ReaderOpens
<1>3. cRx \in KeyState  BY DEF Nats
<1> HIDE DEF f
<1>4. CASE cTx.epoch = cRx.epoch
  <2>1. cPend = {} /\ cTx.key = cRx.key /\ f.ctr = cRx.ctr  BY <1>1, <1>4 DEF KeyInv, RxCtr
  <2>2. cRx' = [cRx EXCEPT !.ctr = @ + 1] /\ cPend' = cPend
    BY <1>1, <1>2, <1>4 DEF RxAfter, PendAfter
  <2>3. cRx'.epoch = cRx.epoch /\ cRx'.ctr = cRx.ctr + 1 /\ cRx'.key = cRx.key
    BY <2>2, <1>3 DEF KeyState
  <2>4. QED  BY <1>4, <2>1, <2>2, <2>3 DEF f
<1>5. CASE cTx.epoch # cRx.epoch
  <2>1. f.ctr = 0  BY <1>1, <1>5 DEF KeyInv, RxCtr
  <2>2. cRx' = [key |-> f.key, epoch |-> f.epoch, ctr |-> 1] /\ cPend' = {}
    BY <1>1, <1>2, <1>5 DEF RxAfter, PendAfter
  <2>3. QED  BY <1>1, <2>1, <2>2 DEF f
<1>6. QED  BY <1>4, <1>5

\* The frames behind the one the reader took.
LEMMA ReaderTakenFlow ==
    ASSUME Nats, KeyInv, HostFlow, Shrunk(s2c, s2c'), rpc = "read",
           UNCHANGED <<cTx, hTx, hAlive>>,
           rpc' # "done" => RxCtr' = After(1),
           rpc' \in {"read", "switch", "done"},
           1 \in Acks => rpc' # "read",
           rpc' = "switch" => 1 \in Acks /\ newKey' = hTx.key /\ cRx'.epoch = cTx.epoch
    PROVE  HostFlow'
<1>n. PICK n \in Nat : n = Len(s2c)  BY DEF Nats
<1>0. /\ n > 0 /\ DOMAIN s2c = 1 .. n /\ DOMAIN s2c' = 1 .. n - 1 /\ Len(s2c') = n - 1
      /\ \A i \in DOMAIN s2c' : s2c'[i] = s2c[i + 1]
  BY <1>n DEF Nats, Shrunk
<1>1. \A i \in DOMAIN s2c' : i \in Int /\ i > 0 /\ i + 1 \in DOMAIN s2c  BY <1>0
<1>2. \A i \in DOMAIN s2c' : i \in Acks' <=> i + 1 \in Acks  BY <1>0, <1>1 DEF Acks
<1>3. Ahead' = Ahead  BY DEF Ahead
<1>4. \A i \in DOMAIN s2c' : After(i)' = After(i + 1)  BY <1>0, <1>2 DEF After
<1>5. Acks' \subseteq DOMAIN s2c' /\ 1 \in DOMAIN s2c  BY <1>0 DEF Acks
<1>6. 1 \in Acks => Acks' = {}
  <2>1. SUFFICES ASSUME 1 \in Acks, NEW i \in Acks' PROVE FALSE  OBVIOUS
  <2>2. i + 1 \in Acks /\ i + 1 > 1 /\ i + 1 \in DOMAIN s2c /\ i + 1 <= i + 1
    BY <1>1, <1>2, <1>5
  <2>3. s2c[i + 1].epoch = hTx.epoch /\ Ahead  BY <2>1, <2>2, SMTT(30) DEF HostFlow
  <2>4. s2c[i + 1].epoch = cTx.epoch  BY <2>2 DEF HostFlow
  <2>5. QED  BY <2>3, <2>4, KeyNats DEF Ahead
<1>7. ASSUME NEW i \in DOMAIN s2c'
      PROVE  /\ \/ s2c'[i].epoch = cTx'.epoch /\ s2c'[i].key = cTx'.key
                \/ s2c'[i].epoch = hTx'.epoch /\ s2c'[i].key = hTx'.key
             /\ s2c'[i].type # "Garbled"
  BY <1>0, <1>1 DEF HostFlow
<1>8. ASSUME NEW i \in Acks'
      PROVE  /\ Ahead' /\ s2c'[i].body = hTx'.key.s
             /\ \A j \in DOMAIN s2c' :
                   s2c'[j].epoch = IF j <= i THEN cTx'.epoch ELSE hTx'.epoch
  <2>1. i + 1 \in Acks /\ i \in DOMAIN s2c' /\ i \in Int  BY <1>1, <1>2, <1>5
  <2>2. \A j \in DOMAIN s2c' : s2c[j + 1].epoch = IF j + 1 <= i + 1 THEN cTx.epoch ELSE hTx.epoch
    BY <2>1, <1>1 DEF HostFlow
  <2>3. \A j \in DOMAIN s2c' : j + 1 <= i + 1 <=> j <= i  BY <2>1, <1>1
  <2>4. QED  BY <2>1, <2>2, <2>3, <1>0, <1>3 DEF HostFlow
<1>9. Acks' = {} => \A j \in DOMAIN s2c' : s2c'[j].epoch = hTx'.epoch
  <2>1. SUFFICES ASSUME Acks' = {}, NEW j \in DOMAIN s2c' PROVE s2c[j + 1].epoch = hTx.epoch
    BY <1>0
  <2>2. CASE 1 \in Acks
    <3>1. ~(j + 1 <= 1) /\ j + 1 \in DOMAIN s2c  BY <1>1
    <3>2. QED  BY <2>2, <3>1 DEF HostFlow
  <2>3. CASE 1 \notin Acks
    <3>1. Acks = {}
      <4>1. SUFFICES ASSUME NEW i \in Acks PROVE FALSE  OBVIOUS
      <4>2. i \in DOMAIN s2c /\ i # 1  BY <2>3 DEF Acks
      <4>3. i - 1 \in DOMAIN s2c' /\ (i - 1) + 1 = i  BY <4>2, <1>0
      <4>4. QED  BY <4>3, <1>2, <2>1
    <3>2. QED  BY <3>1, <1>1 DEF HostFlow
  <2>4. QED  BY <2>2, <2>3
<1>10. Ahead' => Acks' # {} \/ rpc' # "read"
  <2>1. SUFFICES ASSUME Ahead, rpc' = "read" PROVE Acks' # {}  BY <1>3
  <2>2. PICK i \in Acks : TRUE  BY <2>1 DEF HostFlow
  <2>3. i \in DOMAIN s2c /\ i # 1  BY <2>1 DEF Acks
  <2>4. i - 1 \in DOMAIN s2c' /\ (i - 1) + 1 = i  BY <2>3, <1>0
  <2>5. QED  BY <2>4, <1>2
<1>11. rpc' = "switch" => Ahead' /\ Acks' = {} /\ newKey' = hTx'.key /\ cRx'.epoch = cTx'.epoch
  BY <1>3, <1>6 DEF HostFlow
<1>12. ASSUME NEW i \in DOMAIN s2c', i > 1 PROVE s2c'[i].ctr = After(i - 1)'
  <2>1. i - 1 \in DOMAIN s2c' /\ (i - 1) + 1 = i /\ i + 1 \in DOMAIN s2c /\ i + 1 > 1 /\ (i + 1) - 1 = i
    BY <1>0, <1>12
  <2>2. After(i - 1)' = After(i)  BY <2>1, <1>4
  <2>3. s2c[i + 1].ctr = After(i)  BY <2>1 DEF HostFlow
  <2>4. QED  BY <2>2, <2>3, <1>0
<1>13. hAlive' /\ Len(s2c') > 0 => hTx'.ctr = After(Len(s2c))'
  <2>1. SUFFICES ASSUME hAlive, n - 1 > 0 PROVE hTx.ctr = After(n - 1)'  BY <1>0
  <2>2. n - 1 \in DOMAIN s2c' /\ (n - 1) + 1 = n  BY <2>1, <1>0
  <2>3. After(n - 1)' = After(n)  BY <2>2, <1>4
  <2>4. QED  BY <2>1, <2>3, <1>n, <1>0 DEF HostFlow
<1>14. rpc' # "done" /\ Len(s2c') > 0 => s2c'[1].ctr = RxCtr'
  <2>1. SUFFICES ASSUME n - 1 > 0 PROVE s2c'[1].ctr = After(1)  BY <1>0
  <2>2. s2c'[1] = s2c[2] /\ 2 \in DOMAIN s2c  BY <2>1, <1>0
  <2>3. \A i \in DOMAIN s2c : i > 1 /\ i - 1 = 1 => s2c[i].ctr = After(1)  BY DEF HostFlow
  <2>4. QED  BY <2>2, <2>3
<1>15. rpc' # "done" /\ Len(s2c') = 0 /\ hAlive' => hTx'.ctr = RxCtr'
  <2>1. SUFFICES ASSUME n - 1 = 0, hAlive PROVE hTx.ctr = After(1)  BY <1>0
  <2>2. QED  BY <2>1, <1>n, SMTT(30) DEF HostFlow
<1>16. QED
  BY <1>7, <1>8, <1>9, <1>10, <1>11, <1>12, <1>13, <1>14, <1>15 DEF HostFlow

\* The steps of the reader thread.
LEMMA ReaderFlow ==
    ASSUME TypeOK, NonceInv, Flow, ReaderStep
    PROVE  Flow'
<1> USE DEF chans, cSend, cRead, hThread, hSend, history, ReaderLeaves
<1>0. s2c \in Seq(Frame) /\ Nats /\ MaxEpoch \in Nat
  BY TypesNats, SessionConstants DEF TypeOK, ChansOK
<1>1. ASSUME ReaderData \/ ReaderBreaks \/ ReaderAck
      PROVE  Flow'
  <2>0. ReaderTakes  BY <1>1 DEF ReaderData, ReaderBreaks, ReaderAck
  <2>1. /\ Shrunk(s2c, s2c') /\ Head(s2c) = s2c[1] /\ s2c # <<>> /\ Len(s2c) > 0
        /\ 1 \in DOMAIN s2c /\ rpc = "read"
    BY <1>0, <2>0, Shrinks, Indices DEF ReaderTakes, Nats
  <2>2. Accepts(cRx, cPend, Head(s2c))  BY <1>0, <2>1, ReaderAccepts DEF Flow
  <2>3. ReaderOpens  BY <1>1, <2>2 DEF ReaderData, ReaderBreaks, ReaderAck
  <2>4. /\ cRx'.epoch = cTx.epoch /\ cRx'.key = cTx.key /\ cRx'.ctr = s2c[1].ctr + 1
        /\ cPend' = {}
    BY <1>0, <2>1, <2>3, ReaderOpened DEF Flow
  <2>5. /\ UNCHANGED <<c2s, cTx, hTx, hRx, hPend, offer, rekeying, spc, hpc, hEph, hAlive, cFault>>
        /\ pendingEph' \subseteq pendingEph
    BY <1>1 DEF ReaderData, ReaderBreaks, ReaderAck
  <2>6. SameTx /\ SameHTx  BY <2>5 DEF SameTx, SameHTx
  <2>7. RotationInv'  BY <2>5, <2>6, SameRekeys, RotationFrame DEF Flow
  <2>8. KeyInv'
    <3>1. cTx.epoch \in Nat  BY <1>0, KeyNats
    <3>2. QED  BY <2>4, <2>5, <3>1 DEF Flow, KeyInv
  <2>9. HostFlow'
    <3>1. CASE ReaderData \/ ReaderBreaks
      <4>1. 1 \notin Acks /\ rpc' \in {"read", "done"}
        BY <3>1, <2>1, <2>2 DEF ReaderData, ReaderBreaks, ReaderExit, Acks
      <4>2. rpc' # "done" => RxCtr' = After(1)  BY <4>1, <2>4 DEF RxCtr, After
      <4>3. QED  BY <4>1, <4>2, <1>0, <2>1, <2>5, ReaderTakenFlow DEF Flow
    <3>2. CASE ReaderAck
      <4>1. 1 \in Acks /\ rpc' \in {"switch", "done"}
        BY <3>2, <2>1 DEF ReaderAck, ReaderExit, Acks
      <4>2. rpc' # "done" => RxCtr' = After(1)  BY <4>1 DEF RxCtr, After
      <4>3. ASSUME rpc' = "switch" PROVE newKey' = hTx.key
        <5>1. PICK e \in pendingEph : newKey' = [c |-> e, s |-> s2c[1].body]
          BY <3>2, <2>1, <4>3 DEF ReaderAck, ReaderExit
        <5>2. Ahead /\ s2c[1].body = hTx.key.s  BY <4>1 DEF Flow, HostFlow
        <5>3. e = offer /\ hTx.key.c = offer  BY <5>1, <5>2 DEF Flow, RotationInv
        <5>4. hTx.key = [c |-> hTx.key.c, s |-> hTx.key.s]
          <6>1. hTx.key \in Key  BY DEF TypeOK, HSendOK, KeyState
          <6>2. QED  BY <6>1 DEF Key
        <5>5. QED  BY <5>1, <5>2, <5>3, <5>4
      <4>4. QED  BY <4>1, <4>2, <4>3, <1>0, <2>1, <2>4, <2>5, ReaderTakenFlow DEF Flow
    <3>3. QED  BY <1>1, <3>1, <3>2
  <2>10. QED
    BY <2>5, <2>6, <2>7, <2>8, <2>9, ClientFlowFrame, ClientCountersFrame DEF Flow
<1>2. CASE ReaderSwitch
  <2>1. /\ rpc = "switch" /\ wlock = {} /\ rekeying' = FALSE /\ cPend' = {newKey} /\ rpc' = "read"
        /\ cTx' = [key |-> newKey, epoch |-> cTx.epoch + 1, ctr |-> 0]
        /\ UNCHANGED <<c2s, s2c, hTx, hRx, cRx, hPend, offer, pendingEph, spc, hpc, hEph,
                       newKey, hAlive, cFault>>
    BY <1>2 DEF ReaderSwitch, InstallTx
  <2>2. Ahead /\ Acks = {} /\ newKey = hTx.key /\ cRx.epoch = cTx.epoch
    BY <2>1 DEF Flow, HostFlow
  <2>3. /\ cTx'.key = hTx.key /\ cTx'.epoch = hTx.epoch /\ cTx'.ctr = 0
        /\ hTx.epoch = cTx.epoch + 1 /\ cTx.epoch \in Nat /\ hRx.epoch \in Nat
    BY <2>1, <2>2, <1>0, KeyNats DEF Ahead
  <2>4. ~Ahead'  BY <2>1, <2>3 DEF Ahead
  <2>5. hRx.epoch # hTx.epoch /\ hRx.epoch <= cTx.epoch /\ hTx.epoch <= MaxEpoch
    BY <2>3 DEF Flow, KeyInv
  <2>6. KeyInv'
    <3>1. /\ hRx'.epoch <= cTx'.epoch /\ cTx'.epoch <= hTx'.epoch /\ hTx'.epoch <= hRx'.epoch + 1
          /\ cRx'.epoch <= cTx'.epoch /\ cTx'.epoch <= cRx'.epoch + 1
          /\ cTx'.epoch # cRx'.epoch /\ cTx'.epoch # hRx'.epoch
      BY <2>1, <2>2, <2>3, <2>5 DEF Flow, KeyInv
    <3>2. QED  BY <2>1, <2>2, <2>3, <2>5, <3>1 DEF Flow, KeyInv
  <2>7. RotationInv'
    <3>1. Rekeys = {} /\ hpc # "ack"  BY <2>2 DEF Flow, RotationInv
    <3>2. Rekeys' = {}  BY <3>1, <2>1 DEF Rekeys
    <3>3. QED  BY <3>1, <3>2, <2>1, <2>4 DEF Flow, RotationInv
  <2>8. ClientFlow'
    <3>1. \A i \in DOMAIN c2s : c2s[i].epoch # hTx.epoch /\ c2s[i].epoch <= hTx.epoch
      <4>1. SUFFICES ASSUME NEW i \in DOMAIN c2s
                     PROVE  c2s[i].epoch # hTx.epoch /\ c2s[i].epoch <= hTx.epoch
        OBVIOUS
      <4>2. c2s[i].epoch \in Nat /\ c2s[i].epoch <= cTx.epoch  BY <1>0 DEF Nats, Flow, ClientFlow
      <4>3. QED  BY <4>2, <2>3
    <3>2. QED  BY <3>1, <2>1, <2>3, <2>5 DEF Flow, ClientFlow
  <2>9. ClientCounters'
    <3>1. cTx'.epoch # hRx.epoch  BY <2>3, <2>5
    <3>2. Len(c2s) > 0 => cTx'.epoch # c2s[Len(c2s)].epoch
      <4>1. SUFFICES ASSUME Len(c2s) > 0 PROVE cTx'.epoch # c2s[Len(c2s)].epoch  OBVIOUS
      <4>2. Len(c2s) \in DOMAIN c2s  BY <4>1, <1>0 DEF Nats
      <4>3. c2s[Len(c2s)].epoch <= cTx.epoch /\ c2s[Len(c2s)].epoch \in Nat
        BY <4>2, <1>0 DEF Nats, Flow, ClientFlow
      <4>4. QED  BY <4>3, <2>3
    <3>3. QED  BY <3>1, <3>2, <2>1, <2>3 DEF Flow, ClientCounters, Continues
  <2>10. HostFlow'
    <3>1. Acks' = Acks  BY <2>1 DEF Acks
    <3>2. \A i : After(i)' = After(i)  BY <2>1, <3>1 DEF After
    <3>3. RxCtr' = 0 /\ RxCtr = 0  BY <2>1 DEF RxCtr
    <3>4. \A j \in DOMAIN s2c : s2c[j].epoch = hTx.epoch /\ s2c[j].key = hTx.key
      BY <2>2, <2>3 DEF Flow, HostFlow
    <3>5. QED  BY <2>1, <2>2, <2>3, <2>4, <3>1, <3>2, <3>3, <3>4 DEF Flow, HostFlow
  <2>11. QED  BY <2>6, <2>7, <2>8, <2>9, <2>10 DEF Flow
<1>3. CASE ReaderEof
  BY <1>3, QuietFlow DEF ReaderEof, ReaderExit
<1>4. QED  BY <1>1, <1>2, <1>3 DEF ReaderStep

-----------------------------------------------------------------------------
(* The host's answer to a REKEY, and the other host steps.                 *)

\* send_rekey_ack_and_switch: the ack is the last frame of its epoch.
LEMMA HostAckFlow ==
    ASSUME TypeOK, Flow, HostAck
    PROVE  Flow'
<1> USE DEF chans, cSend, cRead, hThread, hSend, history
<1>0. s2c \in Seq(Frame) /\ Nats /\ hTx \in KeyState /\ ephs \in Nat /\ hEph \in Nat
  BY TypesNats DEF TypeOK, ChansOK, HSendOK, HistoryOK, HThreadOK
<1> DEFINE k == [c |-> hEph, s |-> ephs + 1]
           f == Seal(hTx, "RekeyAck", ephs + 1)
<1>1. /\ hpc = "ack" /\ hAlive /\ hpc' = "read" /\ hAlive' = hAlive
      /\ s2c' = Append(s2c, f)
      /\ hTx' = [key |-> k, epoch |-> hTx.epoch + 1, ctr |-> 0] /\ hPend' = {k}
      /\ UNCHANGED <<c2s, cTx, hRx, cRx, cPend, newKey, offer, pendingEph, rekeying, spc, rpc,
                     hEph, cFault>>
  BY DEF HostAck, HostStays
<1>2. /\ ~Ahead /\ hRx.epoch = hTx.epoch /\ hTx.epoch < MaxEpoch /\ hEph = offer
      /\ Rekeys = {} /\ (rekeying \/ \E s \in Senders : spc[s] = "offered")
  BY <1>1 DEF Flow, RotationInv
<1>e. /\ cTx.epoch \in Nat /\ cRx.epoch \in Nat /\ hTx.epoch \in Nat /\ hRx.epoch \in Nat
      /\ MaxEpoch \in Nat
  BY <1>0, KeyNats, SessionConstants
<1>3. hTx.epoch = cTx.epoch /\ cTx.key = hTx.key /\ cTx.key = hRx.key
  BY <1>e, <1>2 DEF Flow, KeyInv, Ahead
<1>4. /\ hTx'.key = k /\ hTx'.epoch = cTx.epoch + 1 /\ hTx'.ctr = 0
      /\ k.c = offer /\ k.s = ephs + 1 /\ hTx'.key.s = ephs + 1 /\ hTx'.key.c = offer
  BY <1>1, <1>2, <1>3
<1>5. /\ f.key = cTx.key /\ f.epoch = cTx.epoch /\ f.ctr = hTx.ctr /\ f.type = "RekeyAck"
      /\ f.body = ephs + 1 /\ f \in Frame
  <2>1. f \in Frame  BY <1>0, SealType
  <2>2. QED  BY <2>1, <1>3 DEF Seal
<1>6. Grown(s2c, s2c', f)  BY <1>0, <1>1, <1>5, Grows
<1> HIDE DEF k, f
<1>7. Ahead'  BY <1>1, <1>4 DEF Ahead
<1>8. KeyInv'
  <2>1. /\ hRx'.epoch <= cTx'.epoch /\ cTx'.epoch <= hTx'.epoch /\ hTx'.epoch <= hRx'.epoch + 1
        /\ hTx'.epoch <= MaxEpoch /\ cTx'.epoch # hTx'.epoch /\ hTx'.epoch # hRx'.epoch
    BY <1>1, <1>2, <1>3, <1>4, <1>e
  <2>2. QED  BY <2>1, <1>1, <1>4 DEF Flow, KeyInv
<1>9. RotationInv'
  <2>1. Rekeys' = {}  BY <1>1, <1>2 DEF Rekeys
  <2>2. QED  BY <2>1, <1>1, <1>2, <1>4, <1>7 DEF Flow, RotationInv
<1>10. ClientFlow'
  <2>1. \A i \in DOMAIN c2s : c2s[i].epoch # hTx'.epoch
    <3>1. SUFFICES ASSUME NEW i \in DOMAIN c2s PROVE c2s[i].epoch # hTx'.epoch  OBVIOUS
    <3>2. c2s[i].epoch \in Nat /\ c2s[i].epoch <= cTx.epoch  BY <1>0 DEF Nats, Flow, ClientFlow
    <3>3. QED  BY <3>2, <1>4, <1>e
  <2>2. QED  BY <2>1, <1>1 DEF Flow, ClientFlow
<1>11. ClientCounters'  BY <1>1, ClientCountersFrame DEF Flow
<1>12. HostFlow'
  <2>n. PICK n \in Nat : n = Len(s2c)  BY <1>0 DEF Nats
  <2>0. /\ DOMAIN s2c = 1 .. n
        /\ DOMAIN s2c' = 1 .. n + 1 /\ Len(s2c') = n + 1
        /\ s2c'[n + 1] = f /\ \A i \in DOMAIN s2c : s2c'[i] = s2c[i]
    BY <1>0, <1>6, <2>n DEF Grown, Nats
  <2>1. \A i \in DOMAIN s2c' : i \in Int /\ i <= n + 1 /\ (i = n + 1 \/ i \in DOMAIN s2c)  BY <2>0
  <2>2. Acks = {} /\ rpc # "switch"  BY <1>2 DEF Flow, HostFlow
  <2>3. Acks' = {n + 1}
    <3>1. n + 1 \in DOMAIN s2c'  BY <2>0
    <3>2. QED  BY <3>1, <2>0, <2>1, <2>2, <1>5 DEF Acks
  <2>4. \A j \in DOMAIN s2c : s2c[j].epoch = cTx.epoch /\ s2c[j].key = cTx.key /\ s2c[j].type # "Garbled"
    BY <2>2, <1>3 DEF Flow, HostFlow
  <2>5. \A j \in DOMAIN s2c' : s2c'[j].epoch = cTx.epoch /\ s2c'[j].key = cTx.key /\ s2c'[j].type # "Garbled"
    BY <2>0, <2>1, <2>4, <1>5
  <2>6. /\ After(n + 1)' = 0
        /\ \A i \in DOMAIN s2c : After(i)' = After(i)
    <3>1. \A i \in DOMAIN s2c : i # n + 1  BY <2>0
    <3>2. QED  BY <3>1, <2>0, <2>2, <2>3 DEF After
  <2>7. ASSUME NEW i \in DOMAIN s2c', i > 1 PROVE s2c'[i].ctr = After(i - 1)'
    <3>0. i - 1 \in DOMAIN s2c  BY <2>0, <2>7
    <3>1. CASE i = n + 1
      <4>1. n > 0 /\ i - 1 = n  BY <3>1, <2>7, <2>0
      <4>2. hTx.ctr = After(n)  BY <4>1, <1>1, <2>n DEF Flow, HostFlow
      <4>3. After(n)' = After(n)  BY <2>6, <3>0, <4>1
      <4>4. QED  BY <3>1, <4>1, <4>2, <4>3, <2>0, <1>5
    <3>2. CASE i \in DOMAIN s2c
      <4>1. s2c[i].ctr = After(i - 1)  BY <3>2, <2>7 DEF Flow, HostFlow
      <4>2. After(i - 1)' = After(i - 1)  BY <3>0, <2>6
      <4>3. QED  BY <3>2, <4>1, <4>2, <2>0
    <3>3. QED  BY <3>1, <3>2, <2>1
  <2>8. RxCtr' = RxCtr  BY <1>1 DEF RxCtr
  <2>9. rpc' # "done" => s2c'[1].ctr = RxCtr'
    <3>1. CASE n = 0  BY <3>1, <2>0, <2>n, <2>8, <1>1, <1>5 DEF Flow, HostFlow
    <3>2. CASE n > 0
      <4>1. s2c'[1] = s2c[1]  BY <3>2, <2>0
      <4>2. QED  BY <3>2, <4>1, <2>n, <2>8, <1>1 DEF Flow, HostFlow
    <3>3. QED  BY <3>1, <3>2
  <2>10. hTx'.ctr = After(Len(s2c))'  BY <2>0, <2>6, <1>4
  <2>11. Len(s2c') > 0 /\ Len(s2c') # 0  BY <2>0
  <2>12. \A i \in Acks' : i = n + 1 /\ s2c'[i].body = hTx'.key.s  BY <2>0, <2>3, <1>4, <1>5
  <2>13. rpc' # "switch"  BY <2>2, <1>1
  <2>14. QED
    BY <1>1, <1>7, <2>1, <2>3, <2>5, <2>7, <2>9, <2>10, <2>11, <2>12, <2>13 DEF HostFlow
<1>13. QED  BY <1>8, <1>9, <1>10, <1>11, <1>12 DEF Flow

\* Replies, the Error frame of the limiter and publications.
LEMMA HostSendFlow ==
    ASSUME TypeOK, Flow, HostReply \/ HostLimit \/ Publish
    PROVE  Flow'
<1> USE DEF chans, cSend, cRead, hThread, hSend, history
<1>0. Nats /\ hSent \in Nat  BY TypesNats DEF TypeOK, HistoryOK
<1>1. /\ UNCHANGED <<c2s, cTx, hRx, cRx, hPend, cPend, newKey, offer, pendingEph, rekeying,
                     spc, rpc, hEph, cFault>>
      /\ hpc' = "ack" => hpc = "ack"
  BY DEF HostReply, HostLimit, Publish
<1>2. \/ UNCHANGED <<s2c, hTx, hAlive>>
      \/ HostSealed("Data", hSent + 1)
      \/ HostSealed("Error", 0)
  BY <1>0, HostSealEffect DEF HostReply, HostLimit, Publish
<1>3. CASE UNCHANGED <<s2c, hTx, hAlive>>  BY <1>1, <1>3, QuietFlow
<1>4. CASE HostSealed("Data", hSent + 1)  BY <1>0, <1>1, <1>4, HostSealedRest
<1>5. CASE HostSealed("Error", 0)  BY <1>0, <1>1, <1>5, HostSealedRest
<1>6. QED  BY <1>2, <1>3, <1>4, <1>5

\* The steps of the connection thread keep both directions in step.
LEMMA HostFlowStep ==
    ASSUME TypeOK, Flow, HostStep
    PROVE  Flow'
<1> USE DEF chans, cSend, cRead, hThread, hSend, history
<1>1. CASE HostAckFails \/ HostReplied \/ HostLimitClose \/ HostEof
  BY <1>1, QuietFlow DEF HostAckFails, HostReplied, HostLimitClose, HostEof, HostExit, HostStays
<1>2. QED  BY <1>1, HostTakesFlow, HostAckFlow, HostSendFlow DEF HostStep

\* Every step keeps both directions in step.
LEMMA StepFlow == TypeOK /\ NonceInv /\ Flow /\ [Next]_vars => Flow'
<1> SUFFICES ASSUME TypeOK, NonceInv, Flow, [Next]_vars PROVE Flow'
  OBVIOUS
<1> USE DEF chans, cSend, cRead, hThread, hSend, history
<1>1. CASE Disconnect \/ StopBegins \/ StopCloses \/ UNCHANGED vars
  BY <1>1, QuietFlow DEF Disconnect, StopBegins, StopCloses, vars
<1>2. QED
  BY <1>1, SenderFlow, ReaderFlow, HostFlowStep, HostSendFlow DEF Next

\* Right after the handshake both directions are in step.
LEMMA InitFlow == Init => Flow
<1> SUFFICES ASSUME Init PROVE Flow
  OBVIOUS
<1>1. /\ c2s = <<>> /\ s2c = <<>> /\ cTx = HandshakeKeys /\ hTx = HandshakeKeys
      /\ cRx = HandshakeKeys /\ hRx = HandshakeKeys /\ hPend = {} /\ cPend = {}
      /\ rpc = "read" /\ hpc = "read" /\ pendingEph = {}
  BY DEF Init
<1>2. DOMAIN c2s = {} /\ DOMAIN s2c = {} /\ Len(c2s) = 0 /\ Len(s2c) = 0  BY <1>1
<1>3. HandshakeKeys.epoch = 0 /\ HandshakeKeys.ctr = 0  BY DEF HandshakeKeys
<1>4. Rekeys = {} /\ Acks = {} /\ ~Ahead  BY <1>1, <1>2, <1>3 DEF Rekeys, Acks, Ahead
<1>5. KeyInv  BY <1>1, <1>3, SessionConstants DEF KeyInv
<1>6. RotationInv  BY <1>1, <1>4 DEF RotationInv
<1>7. ClientFlow  BY <1>1, <1>2, <1>3 DEF ClientFlow
<1>8. ClientCounters  BY <1>1, <1>2, <1>3 DEF ClientCounters, Continues
<1>9. HostFlow  BY <1>1, <1>2, <1>3, <1>4 DEF HostFlow, RxCtr
<1>10. QED  BY <1>5, <1>6, <1>7, <1>8, <1>9 DEF Flow
-----------------------------------------------------------------------------
(* Why the threads leave their loops.                                      *)

\* What can become of DropInv when neither thread leaves its loop, no Error is
\* taken and no descriptor is opened.
LEMMA DropFrame ==
    ASSUME DropInv, UNCHANGED <<rpc, rWhy, death, hWhy>>,
           cFault # "none" => cFault' # "none",
           hpc' = "told" => hpc = "told", hpc = "done" => hpc' = "done",
           hOpen' => hOpen, cOpen' => cOpen /\ cAlive' = cAlive,
           \A i \in DOMAIN s2c : s2c[i].type = "Error" =>
               rpc = "done" \/ \E j \in DOMAIN s2c' : s2c'[j].type = "Error"
    PROVE  DropInv'
  BY DEF DropInv, DropsAreJustified

\* A sender changes nothing DropInv speaks of, but may leave a fault on the wire.
LEMMA SenderDrop ==
    ASSUME TypeOK, DropInv, NEW s \in Senders, Call(s) \/ SenderStep(s)
    PROVE  DropInv'
<1> USE DEF chans, cSend, cRead, hThread, hSend, history
<1>0. ephs \in Nat /\ cSent \in Nat  BY DEF TypeOK, HistoryOK
<1>1. CASE Call(s) \/ Lock(s) \/ NotDue(s) \/ StoreEph(s)
  BY <1>1, DropFrame DEF Call, Lock, NotDue, StoreEph
<1>2. CASE SendFrame(s)
  <2>1. PICK ok \in BOOLEAN : ClientSeal("Data", cSent + 1, ok)  BY <1>2 DEF SendFrame
  <2>2. cFault # "none" => cFault' # "none"  BY <2>1 DEF ClientSeal
  <2>3. QED  BY <2>2, <1>2, DropFrame DEF SendFrame
<1>3. CASE BeginRekey(s)
  <2>1. PICK ok \in BOOLEAN : ClientSeal("Rekey", ephs + 1, ok)  BY <1>3 DEF BeginRekey
  <2>2. cFault # "none" => cFault' # "none"  BY <2>1 DEF ClientSeal
  <2>3. QED  BY <2>2, <1>3, DropFrame DEF BeginRekey
<1>4. QED  BY <1>1, <1>2, <1>3 DEF SenderStep

\* The reader leaves its loop for one of the reasons DropInv allows.
LEMMA ReaderDrop ==
    ASSUME TypeOK, Flow, DropInv, ReaderStep
    PROVE  DropInv'
<1> USE DEF chans, cSend, cRead, hThread, hSend, history, ReaderLeaves
<1>0. s2c \in Seq(Frame) /\ Nats /\ MaxEpoch \in Nat
  BY TypesNats, SessionConstants DEF TypeOK, ChansOK
<1>1. ASSUME ReaderTakes
      PROVE  /\ Accepts(cRx, cPend, Head(s2c))
             /\ rpc = "read" /\ cOpen /\ cAlive
             /\ \A i \in DOMAIN s2c :
                   s2c[i].type = "Error" /\ Head(s2c).type # "Error" =>
                      \E j \in DOMAIN s2c' : s2c'[j].type = "Error"
  <2>1. /\ Shrunk(s2c, s2c') /\ Head(s2c) = s2c[1] /\ s2c # <<>> /\ Len(s2c) > 0
        /\ 1 \in DOMAIN s2c /\ rpc = "read" /\ cOpen /\ cAlive
    BY <1>0, <1>1, Shrinks, Indices DEF ReaderTakes, Nats
  <2>2. Accepts(cRx, cPend, Head(s2c))  BY <1>0, <2>1, ReaderAccepts DEF Flow
  <2>3. ASSUME NEW i \in DOMAIN s2c, s2c[i].type = "Error", Head(s2c).type # "Error"
        PROVE  \E j \in DOMAIN s2c' : s2c'[j].type = "Error"
    <3>1. i # 1  BY <2>1, <2>3
    <3>2. i - 1 \in DOMAIN s2c' /\ (i - 1) + 1 = i  BY <3>1, <2>1, <1>0, SMTT(30) DEF Shrunk, Nats
    <3>3. s2c'[i - 1] = s2c[(i - 1) + 1]  BY <3>2, <2>1 DEF Shrunk
    <3>4. s2c'[i - 1].type = "Error"  BY <3>2, <3>3, <2>3
    <3>5. QED  BY <3>2, <3>4
  <2>4. QED  BY <2>1, <2>2, <2>3
<1>2. CASE ReaderData
  <2>1. Head(s2c).type # "Error" /\ ReaderTakes  BY <1>2 DEF ReaderData
  <2>2. QED  BY <1>1, <1>2, <2>1, DropFrame DEF ReaderData
<1>3. CASE ReaderBreaks
  <2>1. ReaderTakes /\ death' = TRUE /\ rpc' = "done" /\ rWhy' = "error"
    BY <1>1, <1>3 DEF ReaderBreaks, ReaderExit
  <2>2. QED  BY <2>1, <1>3 DEF ReaderBreaks, DropInv, DropsAreJustified
<1>4. CASE ReaderAck
  <2>1. Head(s2c).type # "Error" /\ ReaderTakes  BY <1>4 DEF ReaderAck
  <2>2. CASE rpc' = "done" /\ rWhy' = "unsolicited"
    BY <1>4, <2>2 DEF ReaderAck, DropInv, DropsAreJustified
  <2>3. CASE rpc' = "switch" /\ UNCHANGED <<rWhy, cAlive>>
    <3>1. hpc = "told" \/ hWhy = "told" => \E j \in DOMAIN s2c' : s2c'[j].type = "Error"
      BY <1>1, <2>1 DEF DropInv
    <3>2. UNCHANGED <<cFault, hWhy, hpc, hOpen, cOpen, death>> /\ rpc = "read"
      BY <1>1, <1>4, <2>1 DEF ReaderAck
    <3>3. QED  BY <2>3, <3>1, <3>2 DEF DropInv, DropsAreJustified
  <2>4. QED  BY <1>4, <2>2, <2>3 DEF ReaderAck, ReaderExit
<1>5. CASE ReaderSwitch
  BY <1>5 DEF ReaderSwitch, DropInv, DropsAreJustified
<1>6. CASE ReaderEof
  <2>1. /\ rpc = "read" /\ rpc' = "done" /\ rWhy' = "eof"
        /\ UNCHANGED <<cFault, hWhy, hpc, hOpen, cOpen, death, s2c>>
        /\ ~cAlive \/ ~cOpen \/ (~hOpen /\ s2c = <<>>)
    BY <1>6 DEF ReaderEof, ReaderExit
  <2>2. cOpen => ~hOpen /\ DOMAIN s2c = {}
    BY <2>1 DEF DropInv
  <2>3. cOpen => hpc # "told" /\ hWhy # "told"  BY <2>1, <2>2 DEF DropInv
  <2>4. QED  BY <2>1, <2>2, <2>3 DEF DropInv, DropsAreJustified
<1>7. QED  BY <1>2, <1>3, <1>4, <1>5, <1>6 DEF ReaderStep

\* Sealing on the host's side keeps an Error that is on its way.
LEMMA SealKeepsError ==
    ASSUME Nats, NEW type, NEW body, HostSealed(type, body)
    PROVE  \A i \in DOMAIN s2c : s2c[i].type = "Error" =>
               \E j \in DOMAIN s2c' : s2c'[j].type = "Error"
<1> DEFINE f == Seal(hTx, type, body)
<1> HIDE DEF f
<1>1. CASE Grown(s2c, s2c', f)
  <2>1. \A i \in DOMAIN s2c : i \in DOMAIN s2c' /\ s2c'[i] = s2c[i]  BY <1>1 DEF Grown, Nats
  <2>2. QED  BY <2>1
<1>2. CASE s2c' = s2c  BY <1>2
<1>3. QED  BY <1>1, <1>2 DEF HostSealed, f

\* The connection thread leaves its loop for one of the reasons DropInv allows.
LEMMA HostDrop ==
    ASSUME TypeOK, Flow, DropInv, HostStep \/ Publish
    PROVE  DropInv'
<1> USE DEF chans, cSend, cRead, hThread, hSend, history, HostLeaves
<1>0. /\ c2s \in Seq(Frame) /\ s2c \in Seq(Frame) /\ Nats /\ MaxEpoch \in Nat /\ hSent \in Nat
      /\ hTx.epoch \in Nat
  BY TypesNats, KeyNats, SessionConstants DEF TypeOK, ChansOK, HistoryOK
<1>h. ASSUME HostTakes
      PROVE  Head(c2s) = c2s[1] /\ Len(c2s) > 0 /\ 1 \in DOMAIN c2s /\ hpc = "read"
  BY <1>0, <1>h, Shrinks, Indices DEF HostTakes, Nats
<1>1. CASE HostBad
  <2>1. cFault # "none"
    <3>1. HostTakes  BY <1>1 DEF HostBad
    <3>2. CASE c2s[1].type = "Garbled"  BY <3>1, <3>2, <1>h DEF Flow, ClientCounters
    <3>3. CASE ~Accepts(hRx, hPend, c2s[1])  BY <3>1, <3>3, <1>0, <1>h, HostAccepts DEF Flow
    <3>4. QED  BY <1>1, <1>h, <3>1, <3>2, <3>3 DEF HostBad
  <2>2. QED  BY <1>1, <2>1 DEF HostBad, HostExit, HostTakes, DropInv, DropsAreJustified
<1>2. CASE HostRekey
  <2>0. HostTakes /\ Head(c2s).type = "Rekey"  BY <1>2 DEF HostRekey
  <2>1. 1 \in Rekeys  BY <2>0, <1>h DEF Rekeys
  <2>2. hTx.epoch < MaxEpoch  BY <2>1 DEF Flow, RotationInv
  <2>3. hpc' = "ack" /\ UNCHANGED <<hWhy, hAlive, hOpen>>
    BY <1>0, <1>2, <2>2 DEF HostRekey, HostStays
  <2>4. hpc = "read"  BY <2>0, <1>h
  <2>5. QED  BY <1>2, <2>3, <2>4, DropFrame DEF HostRekey
<1>3. CASE HostSkip \/ HostData
  <2>1. hpc = "read" /\ hpc' \in {"read", "reply", "limit"} /\ UNCHANGED <<hWhy, hAlive, hOpen>>
    BY <1>3 DEF HostSkip, HostData, HostStays, HostTakes
  <2>2. QED  BY <1>3, <2>1, DropFrame DEF HostSkip, HostData
<1>4. CASE HostReplied  BY <1>4, DropFrame DEF HostReplied, HostStays
<1>5. CASE HostAckFails \/ HostEof
  BY <1>5 DEF HostAckFails, HostEof, HostExit, DropInv, DropsAreJustified
<1>6. CASE HostLimitClose
  BY <1>6 DEF HostLimitClose, HostExit, DropInv, DropsAreJustified
<1>7. CASE HostAck
  <2>1. /\ hpc = "ack" /\ hpc' = "read" /\ s2c' = Append(s2c, Seal(hTx, "RekeyAck", ephs + 1))
        /\ UNCHANGED <<rpc, rWhy, death, hWhy, cFault, hOpen, cOpen, cAlive>>
    BY <1>7 DEF HostAck, HostStays
  <2>2. Seal(hTx, "RekeyAck", ephs + 1) \in Frame
    BY SealType DEF TypeOK, HSendOK, HistoryOK
  <2>3. \A i \in DOMAIN s2c : i \in DOMAIN s2c' /\ s2c'[i] = s2c[i]
    BY <1>0, <2>1, <2>2, Grows DEF Grown, Nats
  <2>4. QED  BY <2>1, <2>3, DropFrame
<1>8. CASE HostReply \/ Publish
  <2>1. UNCHANGED <<rpc, rWhy, death, hWhy, cFault, hOpen, cOpen, cAlive, hpc>>
    BY <1>8 DEF HostReply, Publish
  <2>2. s2c' = s2c \/ HostSealed("Data", hSent + 1)
    BY <1>0, <1>8, HostSealEffect DEF HostReply, Publish
  <2>3. \A i \in DOMAIN s2c : s2c[i].type = "Error" =>
           \E j \in DOMAIN s2c' : s2c'[j].type = "Error"
    BY <1>0, <2>2, SealKeepsError
  <2>4. QED  BY <2>1, <2>3, DropFrame
<1>9. CASE HostLimit
  <2>1. /\ UNCHANGED <<rpc, rWhy, death, hWhy, cFault, hOpen, cOpen, cAlive>>
        /\ hpc = "limit" /\ hpc' \in {"told", "untold"}
    BY <1>9 DEF HostLimit
  <2>2. s2c' = s2c \/ HostSealed("Error", 0)
    BY <1>0, <1>9, HostSealEffect DEF HostLimit
  <2>3. \A i \in DOMAIN s2c : s2c[i].type = "Error" =>
           \E j \in DOMAIN s2c' : s2c'[j].type = "Error"
    BY <1>0, <2>2, SealKeepsError
  <2>4. CASE hpc' = "untold"  BY <2>1, <2>3, <2>4, DropFrame
  <2>5. CASE hpc' = "told"
    <3>1. hAlive /\ HostSeal("Error", 0, TRUE)
      BY <1>9, <2>5 DEF HostLimit
    <3>2. Grown(s2c, s2c', Seal(hTx, "Error", 0)) /\ cOpen /\ hOpen
      BY <3>1, HostSealEffect
    <3>3. Len(s2c') \in DOMAIN s2c' /\ s2c'[Len(s2c')].type = "Error"
      BY <3>2, <1>0 DEF Grown, Nats, Seal
    <3>4. QED  BY <2>1, <2>5, <3>2, <3>3 DEF DropInv, DropsAreJustified
  <2>6. QED  BY <2>1, <2>4, <2>5
<1>10. QED  BY <1>1, <1>2, <1>3, <1>4, <1>5, <1>6, <1>7, <1>8, <1>9 DEF HostStep

\* Every step preserves DropInv.
LEMMA StepDrop == TypeOK /\ Flow /\ DropInv /\ [Next]_vars => DropInv'
<1> SUFFICES ASSUME TypeOK, Flow, DropInv, [Next]_vars PROVE DropInv'
  OBVIOUS
<1> USE DEF chans, cSend, cRead, hThread, hSend, history
<1>1. CASE Disconnect \/ StopBegins \/ StopCloses \/ UNCHANGED vars
  BY <1>1, DropFrame DEF Disconnect, StopBegins, StopCloses, vars
<1>2. QED  BY <1>1, SenderDrop, ReaderDrop, HostDrop DEF Next

\* DropInv holds right after the handshake.
LEMMA InitDrop == Init => DropInv
  BY DEF Init, DropInv, DropsAreJustified

-----------------------------------------------------------------------------
\* The inductive invariant of the session holds throughout.
LEMMA FlowHolds == Spec => [](TypeOK /\ NonceInv /\ Flow /\ DropInv)
<1>1. QED
  BY InitTypes, InitNonce, InitFlow, InitDrop, StepTypes, StepNonce, StepFlow, StepDrop, PTL
  DEF Spec

\* open_checked (host.cpp, client.cpp) turns down no frame an honest peer wrote:
\* whatever is next on either stream has the epoch, counter and key expected.
THEOREM NoHonestFrameRefused == Spec => []HonestFramesAccepted
<1>1. TypeOK /\ Flow => HonestFramesAccepted
  <2> SUFFICES ASSUME TypeOK, Flow PROVE HonestFramesAccepted  OBVIOUS
  <2>1. /\ c2s \in Seq(Frame) /\ s2c \in Seq(Frame) /\ Nats /\ MaxEpoch \in Nat
    BY TypesNats, SessionConstants DEF TypeOK, ChansOK
  <2>2. c2s # <<>> /\ cFault = "none" => Accepts(hRx, hPend, Head(c2s))
    BY <2>1, Shrinks, Indices, HostAccepts DEF Flow
  <2>3. s2c # <<>> /\ rpc = "read" => Accepts(cRx, cPend, Head(s2c))
    BY <2>1, Shrinks, Indices, ReaderAccepts DEF Flow
  <2>4. QED  BY <2>2, <2>3 DEF HonestFramesAccepted
<1>2. QED  BY <1>1, FlowHolds, PTL

\* Neither loop is left for a bad frame or an exhausted epoch byte unless a
\* write of the client failed before (handle_connection, reader_loop).
THEOREM NoUnjustifiedDrop == Spec => []DropsAreJustified
<1>1. DropInv => DropsAreJustified  BY DEF DropInv
<1>2. QED  BY <1>1, FlowHolds, PTL

\* Both ends of a direction that count the same epoch hold the same key, and
\* the host is at most one rotation ahead (send_rekey_ack_and_switch).
THEOREM RotationsAgree == Spec => []KeysAgree
<1>1. TypeOK /\ Flow => KeysAgree
  <2> SUFFICES ASSUME TypeOK, Flow PROVE KeysAgree  OBVIOUS
  <2>1. cTx.epoch \in Nat /\ cRx.epoch \in Nat /\ hTx.epoch \in Nat /\ hRx.epoch \in Nat
    BY TypesNats, KeyNats
  <2>2. hTx.epoch \in {cTx.epoch, cTx.epoch + 1}  BY <2>1 DEF Flow, KeyInv
  <2>3. hTx.epoch = cRx.epoch => cTx.epoch = hTx.epoch /\ cTx.epoch = cRx.epoch
    BY <2>1 DEF Flow, KeyInv
  <2>4. QED  BY <2>2, <2>3 DEF Flow, KeyInv, KeysAgree
<1>2. QED  BY <1>1, FlowHolds, PTL

\* The Error frame of the rate limiter reaches a client that did not close
\* the connection itself, before the reader finds the stream at its end.
THEOREM LimitIsExplained == Spec => []ReasonDelivered
<1>1. DropInv => ReasonDelivered  BY DEF DropInv, ReasonDelivered
<1>2. QED  BY <1>1, FlowHolds, PTL
-----------------------------------------------------------------------------
(* The order of the host's Data frames.                                    *)

\* Another frame was written.
LEMMA HostGrows ==
    ASSUME Nats, HostOrder, hAlive, NEW f, Grown(s2c, s2c', f), hSent' = hSent + Datum(f),
           f.type = "Data" => f.body = hSent + 1, UNCHANGED cGot
    PROVE  HostOrder'
<1>n. PICK n \in Nat : n = Len(s2c)  BY DEF Nats
<1>0. /\ DOMAIN s2c = 1 .. n /\ DOMAIN s2c' = 1 .. n + 1 /\ Len(s2c') = n + 1
      /\ s2c'[n + 1] = f /\ \A i \in 1 .. n : s2c'[i] = s2c[i]
      /\ hSent \in Nat /\ Datum(f) \in Nat
  BY <1>n DEF Nats, Grown, Datum
<1>1. PICK d \in [1 .. n + 1 -> 0 .. hSent] : HostCounts(d)  BY <1>n DEF HostOrder
<1>2. /\ d[1] = Len(cGot) /\ d[n + 1] = hSent
      /\ \A i \in 1 .. n : /\ s2c[i].type = "Data" => s2c[i].body = d[i] + 1
                           /\ d[i + 1] = d[i] + Datum(s2c[i])
  BY <1>n, <1>0, <1>1 DEF HostCounts
<1>3. \A i \in 1 .. n + 1 : d[i] \in Nat /\ d[i] <= hSent  BY <1>0, <1>1
<1> DEFINE w == [i \in 1 .. n + 2 |-> IF i = n + 2 THEN hSent + Datum(f) ELSE d[i]]
<1>4. w \in [1 .. n + 2 -> 0 .. hSent'] /\ \A i \in 1 .. n + 1 : w[i] = d[i]
  <2>1. ASSUME NEW i \in 1 .. n + 2
        PROVE  (IF i = n + 2 THEN hSent + Datum(f) ELSE d[i]) \in 0 .. hSent'
    <3>1. CASE i = n + 2  BY <3>1, <1>0
    <3>2. CASE i # n + 2
      <4>1. i \in 1 .. n + 1  BY <3>2
      <4>2. d[i] \in Nat /\ d[i] <= hSent  BY <4>1, <1>3
      <4>3. QED  BY <3>2, <4>2, <1>0
    <3>3. QED  BY <3>1, <3>2
  <2>2. \A i \in 1 .. n + 1 : i \in 1 .. n + 2 /\ i # n + 2  OBVIOUS
  <2>3. QED  BY <2>1, <2>2
<1>5. w[n + 2] = hSent + Datum(f)  OBVIOUS
<1> HIDE DEF w
<1>6. PICK e \in [1 .. n + 2 -> 0 .. hSent'] :
          e[n + 2] = hSent' /\ \A i \in 1 .. n + 1 : e[i] = d[i]
  BY <1>4, <1>5
<1>7. e[1] = d[1] /\ e[n + 1] = hSent  BY <1>2, <1>6
<1>8. ASSUME NEW i \in 1 .. n + 1
      PROVE  /\ s2c'[i].type = "Data" => s2c'[i].body = e[i] + 1
             /\ e[i + 1] = e[i] + Datum(s2c'[i])
  <2>1. CASE i = n + 1
    <3>1. i + 1 = n + 2  BY <2>1
    <3>2. QED  BY <2>1, <3>1, <1>0, <1>6, <1>7
  <2>2. CASE i # n + 1
    <3>1. i \in 1 .. n /\ i + 1 \in 1 .. n + 1  BY <2>2
    <3>2. QED  BY <3>1, <1>0, <1>2, <1>6
  <2>3. QED  BY <2>1, <2>2
<1>9. (n + 1) + 1 = n + 2  OBVIOUS
<1>10. HostCounts(e)'
  BY <1>0, <1>2, <1>6, <1>7, <1>8, <1>9 DEF HostCounts
<1>11. QED  BY <1>0, <1>6, <1>9, <1>10 DEF HostOrder

\* No frame was written, or none will be any more.
LEMMA HostKeeps ==
    ASSUME Nats, HostOrder, UNCHANGED <<s2c, cGot>>, hSent' \in Nat, hSent <= hSent',
           hAlive' => hAlive /\ hSent' = hSent
    PROVE  HostOrder'
<1>n. PICK n \in Nat : n = Len(s2c)  BY DEF Nats
<1>1. PICK d \in [1 .. n + 1 -> 0 .. hSent] : HostCounts(d)  BY <1>n DEF HostOrder
<1>2. d \in [1 .. n + 1 -> 0 .. hSent']  BY SMTT(30) DEF Nats
<1>3. HostCounts(d)'  BY <1>1 DEF HostCounts
<1>4. QED  BY <1>n, <1>2, <1>3 DEF HostOrder

\* The reader took a frame, and kept it if it was a Data frame.
LEMMA HostShrinks ==
    ASSUME Nats, HostOrder, Shrunk(s2c, s2c'), UNCHANGED <<hAlive, hSent>>,
           cGot \in Seq(Nat),
           cGot' = IF s2c[1].type = "Data" THEN Append(cGot, s2c[1].body) ELSE cGot
    PROVE  HostOrder' /\ (s2c[1].type = "Data" => Len(cGot) < hSent /\ s2c[1].body = Len(cGot) + 1)
<1>n. PICK n \in Nat : n = Len(s2c)  BY DEF Nats
<1>0. /\ n > 0 /\ DOMAIN s2c = 1 .. n /\ DOMAIN s2c' = 1 .. n - 1 /\ Len(s2c') = n - 1
      /\ \A i \in 1 .. n - 1 : s2c'[i] = s2c[i + 1]
      /\ hSent \in Nat /\ Datum(s2c[1]) \in Nat
  BY <1>n DEF Nats, Shrunk, Datum
<1>1. PICK d \in [1 .. n + 1 -> 0 .. hSent] : HostCounts(d)  BY <1>n DEF HostOrder
<1>2. /\ d[1] = Len(cGot) /\ (hAlive => d[n + 1] = hSent)
      /\ \A i \in 1 .. n : /\ s2c[i].type = "Data" => s2c[i].body = d[i] + 1
                           /\ d[i + 1] = d[i] + Datum(s2c[i])
  BY <1>n, <1>0, <1>1 DEF HostCounts
<1>3. \A i \in 1 .. n + 1 : d[i] \in Nat /\ d[i] <= hSent  BY <1>0, <1>1
<1>4. /\ 1 \in 1 .. n /\ 2 \in 1 .. n + 1 /\ d[2] = Len(cGot) + Datum(s2c[1])
      /\ s2c[1].type = "Data" => s2c[1].body = Len(cGot) + 1
  <2>1. 1 \in 1 .. n /\ 2 \in 1 .. n + 1 /\ 1 + 1 = 2  BY <1>0
  <2>2. QED  BY <2>1, <1>2
<1>5. s2c[1].type = "Data" => Len(cGot) < hSent
  <2>1. Len(cGot) \in Nat /\ d[2] <= hSent  BY <1>3, <1>4
  <2>2. QED  BY <2>1, <1>0, <1>4 DEF Datum
<1>6. Len(cGot') = Len(cGot) + Datum(s2c[1]) /\ \A i \in DOMAIN cGot' : cGot'[i] = i
  <2>1. CASE s2c[1].type = "Data"
    <3>1. s2c[1].body \in Nat  BY <1>4, <2>1
    <3>2. cGot' = Append(cGot, s2c[1].body)  BY <2>1
    <3>3. /\ Len(cGot') = Len(cGot) + 1 /\ DOMAIN cGot' = 1 .. Len(cGot) + 1
          /\ cGot'[Len(cGot) + 1] = s2c[1].body /\ \A i \in DOMAIN cGot : cGot'[i] = cGot[i]
      <4>1. Grown(cGot, cGot', s2c[1].body)  BY <3>1, <3>2, Grows
      <4>2. QED  BY <4>1 DEF Grown
    <3>4. \A i \in DOMAIN cGot' : i = Len(cGot) + 1 \/ i \in DOMAIN cGot  BY <3>3
    <3>5. \A i \in DOMAIN cGot : cGot[i] = i  BY DEF HostOrder
    <3>6. QED  BY <2>1, <3>3, <3>4, <3>5, <1>4 DEF Datum
  <2>2. CASE s2c[1].type # "Data"
    <3>1. cGot' = cGot /\ Datum(s2c[1]) = 0  BY <2>2 DEF Datum
    <3>2. QED  BY <3>1 DEF HostOrder
  <2>3. QED  BY <2>1, <2>2
<1> DEFINE w == [i \in 1 .. n |-> d[i + 1]]
<1>7. w \in [1 .. n -> 0 .. hSent']
  <2>1. \A i \in 1 .. n : i + 1 \in 1 .. n + 1  OBVIOUS
  <2>2. QED  BY <2>1, <1>1
<1>8. \A i \in 1 .. n : w[i] = d[i + 1]  OBVIOUS
<1> HIDE DEF w
<1>9. PICK e \in [1 .. n -> 0 .. hSent'] : \A i \in 1 .. n : e[i] = d[i + 1]
  BY <1>7, <1>8
<1>10. e[1] = Len(cGot') /\ e[n] = d[n + 1]
  <2>1. 1 + 1 = 2 /\ n \in 1 .. n  BY <1>0
  <2>2. QED  BY <2>1, <1>4, <1>6, <1>9
<1>11. ASSUME NEW i \in 1 .. n - 1
       PROVE  /\ s2c'[i].type = "Data" => s2c'[i].body = e[i] + 1
              /\ e[i + 1] = e[i] + Datum(s2c'[i])
  <2>1. i \in 1 .. n /\ i + 1 \in 1 .. n  BY <1>0
  <2>2. QED  BY <2>1, <1>0, <1>2, <1>9
<1>12. (n - 1) + 1 = n  OBVIOUS
<1>13. HostCounts(e)'
  BY <1>0, <1>2, <1>9, <1>10, <1>11, <1>12 DEF HostCounts
<1>14. QED  BY <1>0, <1>4, <1>5, <1>6, <1>9, <1>12, <1>13 DEF HostOrder

\* A step as the user of the host-to-client direction sees it: another frame
\* is submitted, the next one is delivered, the receiver gives up, or nothing.
ChannelStep ==
    \/ hSent' = hSent + 1 /\ UNCHANGED cGot /\ (rpc' = "done" <=> rpc = "done")
    \/ /\ rpc # "done" /\ rpc' # "done" /\ hSent' = hSent
       /\ Len(cGot) < hSent /\ cGot' = Append(cGot, Len(cGot) + 1)
    \/ UNCHANGED <<hSent, cGot>> /\ rpc' = "done"
    \/ UNCHANGED <<hSent, cGot>> /\ (rpc' = "done" <=> rpc = "done")

\* A host step that writes submits at most one Data frame, the next in order.
LEMMA HostSealOrder ==
    ASSUME TypeOK, HostOrder, HostReply \/ HostLimit \/ Publish \/ HostAck
    PROVE  HostOrder' /\ ChannelStep
<1> USE DEF chans, cSend, cRead, hThread, hSend, history
<1>0. Nats /\ hSent \in Nat /\ s2c \in Seq(Frame) /\ hTx \in KeyState /\ ephs \in Nat
  BY TypesNats DEF TypeOK, HistoryOK, ChansOK, HSendOK
<1>1. CASE HostReply \/ Publish
  <2>1. UNCHANGED <<rpc, cGot>>  BY <1>1 DEF HostReply, Publish
  <2>2. \/ UNCHANGED <<s2c, hAlive, hSent>>
        \/ hAlive /\ HostSealed("Data", hSent + 1) /\ hSent' = hSent + 1
    BY <1>0, <1>1, HostSealEffect DEF HostReply, Publish
  <2>3. CASE UNCHANGED <<s2c, hAlive, hSent>>
    BY <1>0, <2>1, <2>3, HostKeeps DEF ChannelStep
  <2>4. CASE hAlive /\ HostSealed("Data", hSent + 1) /\ hSent' = hSent + 1
    <3> DEFINE f == Seal(hTx, "Data", hSent + 1)
    <3>1. f.type = "Data" /\ f.body = hSent + 1 /\ Datum(f) = 1  BY DEF Seal, Datum
    <3> HIDE DEF f
    <3>2. ASSUME Grown(s2c, s2c', f) PROVE HostOrder'
      BY <1>0, <2>1, <2>4, <3>1, <3>2, HostGrows
    <3>3. ASSUME s2c' = s2c, ~hAlive' PROVE HostOrder'
      BY <1>0, <2>1, <2>4, <3>3, HostKeeps
    <3>4. ChannelStep  BY <2>1, <2>4 DEF ChannelStep
    <3>5. QED  BY <2>4, <3>2, <3>3, <3>4 DEF HostSealed, f
  <2>5. QED  BY <2>2, <2>3, <2>4
<1>2. CASE HostLimit \/ HostAck
  <2>0. UNCHANGED <<rpc, cGot, hSent>>  BY <1>2 DEF HostLimit, HostAck
  <2>1. ASSUME hAlive, HostSealed("Error", 0) PROVE HostOrder'
    <3> DEFINE f == Seal(hTx, "Error", 0)
    <3>1. f.type = "Error" /\ Datum(f) = 0  BY DEF Seal, Datum
    <3> HIDE DEF f
    <3>2. ASSUME Grown(s2c, s2c', f) PROVE HostOrder'
      BY <1>0, <2>0, <2>1, <3>1, <3>2, HostGrows
    <3>3. ASSUME s2c' = s2c, ~hAlive' PROVE HostOrder'
      BY <1>0, <2>0, <3>3, HostKeeps
    <3>4. QED  BY <2>1, <3>2, <3>3 DEF HostSealed, f
  <2>2. ASSUME UNCHANGED <<s2c, hAlive>> PROVE HostOrder'
    BY <1>0, <2>0, <2>2, HostKeeps
  <2>3. ASSUME HostAck PROVE HostOrder'
    <3> DEFINE f == Seal(hTx, "RekeyAck", ephs + 1)
    <3>1. f.type = "RekeyAck" /\ Datum(f) = 0  BY DEF Seal, Datum
    <3>2. f \in Frame  BY <1>0, SealType
    <3>3. hAlive /\ s2c' = Append(s2c, f)  BY <2>3 DEF HostAck
    <3> HIDE DEF f
    <3>4. Grown(s2c, s2c', f)  BY <1>0, <3>2, <3>3, Grows
    <3>5. QED  BY <1>0, <2>0, <3>1, <3>3, <3>4, HostGrows
  <2>4. ChannelStep  BY <2>0 DEF ChannelStep
  <2>5. HostLimit => (hAlive /\ HostSealed("Error", 0)) \/ UNCHANGED <<s2c, hAlive>>
    BY HostSealEffect DEF HostLimit
  <2>6. QED  BY <1>2, <2>1, <2>2, <2>3, <2>4, <2>5
<1>3. QED  BY <1>1, <1>2

\* A reader step delivers at most one Data frame, the next in order.
LEMMA ReaderOrder ==
    ASSUME TypeOK, Flow, HostOrder, ReaderStep
    PROVE  HostOrder' /\ ChannelStep
<1> USE DEF chans, cSend, cRead, hThread, hSend, history, ReaderLeaves
<1>0. /\ s2c \in Seq(Frame) /\ Nats /\ MaxEpoch \in Nat /\ cGot \in Seq(Nat) /\ hSent \in Nat
  BY TypesNats, SessionConstants DEF TypeOK, ChansOK, HistoryOK
<1>1. ASSUME ReaderData \/ ReaderBreaks \/ ReaderAck
      PROVE  HostOrder' /\ ChannelStep
  <2>0. ReaderTakes  BY <1>1 DEF ReaderData, ReaderBreaks, ReaderAck
  <2>1. /\ Shrunk(s2c, s2c') /\ Head(s2c) = s2c[1] /\ s2c # <<>> /\ Len(s2c) > 0 /\ rpc = "read"
    BY <1>0, <2>0, Shrinks, Indices DEF ReaderTakes
  <2>2. Accepts(cRx, cPend, Head(s2c))  BY <1>0, <2>1, ReaderAccepts DEF Flow
  <2>3. UNCHANGED <<hAlive, hSent>>  BY <1>1 DEF ReaderData, ReaderBreaks, ReaderAck
  <2>4. CASE ReaderData
    <3>1. s2c[1].type = "Data" /\ cGot' = Append(cGot, s2c[1].body) /\ rpc' = rpc
      BY <2>1, <2>4 DEF ReaderData
    <3>2. HostOrder' /\ Len(cGot) < hSent /\ s2c[1].body = Len(cGot) + 1
      BY <1>0, <2>1, <2>3, <3>1, HostShrinks
    <3>3. QED  BY <2>1, <2>3, <3>1, <3>2 DEF ChannelStep
  <2>5. CASE ReaderBreaks \/ ReaderAck
    <3>1. s2c[1].type # "Data" /\ cGot' = cGot /\ rpc' \in {"switch", "done"}
      BY <2>1, <2>2, <2>5 DEF ReaderBreaks, ReaderAck, ReaderExit
    <3>2. HostOrder'
      BY <1>0, <2>1, <2>3, <3>1, HostShrinks
    <3>3. QED  BY <2>1, <2>3, <3>1, <3>2 DEF ChannelStep
  <2>6. QED  BY <1>1, <2>4, <2>5
<1>2. CASE ReaderSwitch \/ ReaderEof
  <2>1. /\ UNCHANGED <<s2c, cGot, hSent, hAlive>>
        /\ rpc' = "done" \/ (rpc = "switch" /\ rpc' = "read")
    BY <1>2 DEF ReaderSwitch, ReaderEof, ReaderExit
  <2>2. QED  BY <1>0, <2>1, HostKeeps DEF ChannelStep
<1>3. QED  BY <1>1, <1>2 DEF ReaderStep

\* Every step preserves HostOrder and is a step of the abstract channel.
LEMMA StepOrder == TypeOK /\ Flow /\ HostOrder /\ [Next]_vars => HostOrder' /\ ChannelStep
<1> SUFFICES ASSUME TypeOK, Flow, HostOrder, [Next]_vars PROVE HostOrder' /\ ChannelStep
  OBVIOUS
<1> USE DEF chans, cSend, cRead, hThread, hSend, history
<1>0. Nats /\ hSent \in Nat  BY TypesNats DEF TypeOK, HistoryOK
<1>1. ASSUME UNCHANGED <<s2c, cGot, hSent, rpc>>, hAlive' => hAlive
      PROVE  HostOrder' /\ ChannelStep
  BY <1>0, <1>1, HostKeeps DEF ChannelStep
<1>2. ASSUME NEW s \in Senders, Call(s) \/ SenderStep(s) PROVE HostOrder' /\ ChannelStep
  BY <1>1, <1>2 DEF SenderStep, Call, Lock, NotDue, BeginRekey, StoreEph, SendFrame
<1>3. CASE Disconnect \/ StopBegins \/ StopCloses \/ UNCHANGED vars
  BY <1>1, <1>3 DEF Disconnect, StopBegins, StopCloses, vars
<1>4. CASE HostBad \/ HostSkip \/ HostRekey \/ HostData
  BY <1>1, <1>4 DEF HostBad, HostSkip, HostRekey, HostData, HostLeaves, HostExit, HostStays
<1>5. CASE HostAckFails \/ HostReplied \/ HostLimitClose \/ HostEof
  BY <1>1, <1>5 DEF HostAckFails, HostReplied, HostLimitClose, HostEof, HostExit, HostStays
<1>6. QED
  BY <1>2, <1>3, <1>4, <1>5, ReaderOrder, HostSealOrder DEF Next, HostStep

\* HostOrder holds right after the handshake.
LEMMA InitOrder == Init => HostOrder
<1> SUFFICES ASSUME Init PROVE HostOrder
  OBVIOUS
<1>1. /\ DOMAIN cGot = {} /\ DOMAIN s2c = {} /\ Len(s2c) = 0 /\ Len(cGot) = 0 /\ hSent = 0
  BY DEF Init
<1>2. [i \in 1 .. 1 |-> 0] \in [1 .. Len(s2c) + 1 -> 0 .. hSent]  BY <1>1
<1>3. HostCounts([i \in 1 .. 1 |-> 0])  BY <1>1 DEF HostCounts
<1>4. QED  BY <1>1, <1>2, <1>3 DEF HostOrder

\* What the client's reader hands on is the sequence of Data frames that
\* send_sealed sealed, in order and without a gap, up to some point: the
\* session implements the abstract channel in the host-to-client direction.
THEOREM HostToClientIsAChannel == Spec => HostToClientSpec
<1>1. Init => HostToClient!Init
  <2> SUFFICES ASSUME Init PROVE HostToClient!Init  OBVIOUS
  <2>1. hSent = 0 /\ cGot = <<>> /\ rpc = "read"  BY DEF Init
  <2>2. 1 .. hSent = {}  BY <2>1
  <2>3. [i \in 1 .. hSent |-> i] = <<>>  BY <2>2
  <2>4. QED  BY <2>1, <2>3 DEF HostToClient!Init
<1>2. TypeOK /\ ChannelStep =>
        [HostToClient!Next]_<<[i \in 1 .. hSent |-> i], cGot, rpc # "done">>
  <2> SUFFICES ASSUME TypeOK, ChannelStep
               PROVE  [HostToClient!Next]_<<[i \in 1 .. hSent |-> i], cGot, rpc # "done">>
    OBVIOUS
  <2>0. hSent \in Nat /\ cGot \in Seq(Nat)  BY DEF TypeOK, HistoryOK
  <2>1. Len([i \in 1 .. hSent |-> i]) = hSent  BY <2>0
  <2>2. CASE hSent' = hSent + 1 /\ UNCHANGED cGot /\ (rpc' = "done" <=> rpc = "done")
    <3>1. Len([i \in 1 .. hSent' |-> i]) = hSent + 1  BY <2>0, <2>2
    <3>2. \A i \in 1 .. hSent : [j \in 1 .. hSent' |-> j][i] = i  BY <2>0, <2>2
    <3>3. \A i \in 1 .. hSent : [j \in 1 .. hSent |-> j][i] = i  OBVIOUS
    <3>4. UNCHANGED <<cGot, rpc # "done">>  BY <2>2
    <3>5. HostToClient!Submit
      <4>1. Len([i \in 1 .. hSent' |-> i]) = Len([i \in 1 .. hSent |-> i]) + 1
        BY <2>1, <3>1
      <4>2. \A i \in 1 .. Len([j \in 1 .. hSent |-> j]) :
                [j \in 1 .. hSent' |-> j][i] = [j \in 1 .. hSent |-> j][i]
        <5>1. SUFFICES ASSUME NEW i \in 1 .. Len([j \in 1 .. hSent |-> j])
                       PROVE  [j \in 1 .. hSent' |-> j][i] = [j \in 1 .. hSent |-> j][i]
          OBVIOUS
        <5>2. i \in 1 .. hSent  BY <2>1
        <5>3. [j \in 1 .. hSent' |-> j][i] = i  BY <5>2, <3>2
        <5>4. [j \in 1 .. hSent |-> j][i] = i  BY <5>2, <3>3
        <5>5. QED  BY <5>3, <5>4
      <4>3. QED  BY <4>1, <4>2, <3>4 DEF HostToClient!Submit
    <3>6. QED  BY <3>5 DEF HostToClient!Next
  <2>3. CASE /\ rpc # "done" /\ rpc' # "done" /\ hSent' = hSent
             /\ Len(cGot) < hSent /\ cGot' = Append(cGot, Len(cGot) + 1)
    <3>1. Len(cGot) + 1 \in 1 .. hSent  BY <2>0, <2>3
    <3>2. [i \in 1 .. hSent |-> i][Len(cGot) + 1] = Len(cGot) + 1  BY <3>1
    <3>3. UNCHANGED <<[i \in 1 .. hSent |-> i], rpc # "done">>  BY <2>3
    <3>4. HostToClient!Deliver
      BY <2>1, <2>3, <3>2, <3>3 DEF HostToClient!Deliver
    <3>5. QED  BY <3>4 DEF HostToClient!Next
  <2>4. CASE UNCHANGED <<hSent, cGot>> /\ rpc' = "done"
    <3>1. HostToClient!Drop  BY <2>4 DEF HostToClient!Drop
    <3>2. QED  BY <3>1 DEF HostToClient!Next
  <2>5. CASE UNCHANGED <<hSent, cGot>> /\ (rpc' = "done" <=> rpc = "done")
    BY <2>5
  <2>6. QED  BY <2>2, <2>3, <2>4, <2>5 DEF ChannelStep
<1>3. QED
  BY <1>1, <1>2, FlowHolds, InitOrder, StepOrder, PTL
  DEF Spec, HostToClientSpec, HostToClient!Spec
-----------------------------------------------------------------------------
(* The order of the client's Data frames.                                  *)

\* The last frame the host took has a position and an epoch.
LEMMA LastGotNats ==
    ASSUME TypeOK
    PROVE  LastGot.body \in Nat /\ LastGot.epoch \in Nat
<1>1. hGot \in Seq([body : Nat, epoch : Nat])  BY DEF TypeOK, HistoryOK
<1>2. CASE Len(hGot) = 0  BY <1>2 DEF LastGot
<1>3. CASE Len(hGot) # 0
  <2>1. Len(hGot) \in DOMAIN hGot  BY <1>1, <1>3, Indices
  <2>2. hGot[Len(hGot)] \in [body : Nat, epoch : Nat]  BY <1>1, <2>1, Indices
  <2>3. QED  BY <2>2, <1>3 DEF LastGot
<1>4. QED  BY <1>2, <1>3

\* Another frame was sealed, and written or not.
LEMMA SealedOrder ==
    ASSUME Nats, LastGot.body \in Nat, ClientFlow, ClientOrder,
           UNCHANGED <<hRx, hGot>>, cSent' \in Nat, NEW type, NEW body \in Nat, Sealed(type, body),
           \/ type = "Data" /\ body = cSent + 1 /\ cSent' = cSent + 1
           \/ type = "Rekey" /\ cSent' = cSent
    PROVE  ClientOrder'
<1> DEFINE f == Seal(cTx, IF cFault = "torn" THEN "Garbled" ELSE type, body)
<1>n. PICK n \in Nat : n = Len(c2s)  BY DEF Nats
<1>0. DOMAIN c2s = 1 .. n /\ cSent \in Nat  BY <1>n DEF Nats
<1>1. f.epoch = cTx.epoch /\ f.ctr = cTx.ctr /\ f.body = body /\ f.type \in {"Garbled", type}
  BY DEF Seal
<1>2. cTx'.epoch = cTx.epoch /\ cTx'.ctr = cTx.ctr + 1  BY DEF Sealed
<1>3. PICK d \in [1 .. n + 1 -> 0 .. cSent] : ClientCounts(d)  BY <1>n DEF ClientOrder
<1>4. LastGot' = LastGot /\ GapsOnlyAcrossEpochs' /\ LastGot.epoch <= hRx.epoch
  BY DEF ClientOrder, LastGot, GapsOnlyAcrossEpochs
<1>5. Grown(c2s, c2s', f) \/ c2s' = c2s  BY DEF Sealed
<1>6. /\ LastGot.body <= d[1] /\ d[n + 1] = cSent
      /\ \A i \in 1 .. n : Counted(c2s, d, i)
      /\ n > 0 /\ c2s[1].epoch = hRx.epoch /\ c2s[1].ctr = hRx.ctr =>
            d[1] = LastGot.body \/ LastGot.epoch < hRx.epoch
      /\ /\ n > 0 /\ c2s[n].type # "Garbled"
         /\ cTx.epoch = c2s[n].epoch /\ cTx.ctr = c2s[n].ctr + 1
         => cSent = d[n] + Datum(c2s[n])
      /\ n = 0 /\ cTx.epoch = hRx.epoch /\ cTx.ctr = hRx.ctr =>
            cSent = LastGot.body \/ LastGot.epoch < hRx.epoch
  BY <1>n, <1>0, <1>3 DEF ClientCounts
<1>7. \A i \in 1 .. n + 1 : d[i] \in Nat /\ d[i] <= cSent  BY <1>0, <1>3
<1>8. cSent <= cSent' /\ (f.type # "Garbled" => cSent' = cSent + Datum(f))
      /\ (f.type = "Data" => f.body = cSent + 1) /\ cSent + Datum(f) <= cSent'
  BY <1>0, <1>1 DEF Datum
<1> HIDE DEF f
<1>9. ASSUME Grown(c2s, c2s', f) PROVE ClientOrder'
  <2>0. /\ DOMAIN c2s' = 1 .. n + 1 /\ Len(c2s') = n + 1
        /\ c2s'[n + 1] = f /\ \A i \in 1 .. n : c2s'[i] = c2s[i]
    BY <1>9, <1>n, <1>0 DEF Grown
  <2> DEFINE w == [i \in 1 .. n + 2 |-> IF i = n + 2 THEN cSent' ELSE d[i]]
  <2>1. /\ w \in [1 .. n + 2 -> 0 .. cSent'] /\ w[n + 2] = cSent'
        /\ \A i \in 1 .. n + 1 : w[i] = d[i]
    <3>1. ASSUME NEW i \in 1 .. n + 2
          PROVE  (IF i = n + 2 THEN cSent' ELSE d[i]) \in 0 .. cSent'
      <4>1. CASE i = n + 2  BY <4>1, <1>0
      <4>2. CASE i # n + 2
        <5>1. i \in 1 .. n + 1  BY <4>2
        <5>2. d[i] \in Nat /\ d[i] <= cSent  BY <5>1, <1>7
        <5>3. QED  BY <4>2, <5>2, <1>0, <1>8
      <4>3. QED  BY <4>1, <4>2
    <3>2. \A i \in 1 .. n + 1 : i \in 1 .. n + 2 /\ i # n + 2  OBVIOUS
    <3>3. QED  BY <3>1, <3>2
  <2> HIDE DEF w
  <2>2. PICK e \in [1 .. n + 2 -> 0 .. cSent'] :
            e[n + 2] = cSent' /\ \A i \in 1 .. n + 1 : e[i] = d[i]
    BY <2>1
  <2>3. e[1] = d[1] /\ e[n + 1] = cSent /\ (n + 1) + 1 = n + 2  BY <1>6, <2>2
  <2>4. ASSUME NEW i \in 1 .. n + 1 PROVE Counted(c2s', e, i)
    <3>1. CASE i # n + 1
      <4>1. i \in 1 .. n /\ i + 1 \in 1 .. n + 1 /\ (i > 1 => i - 1 \in 1 .. n /\ i - 1 \in 1 .. n + 1)
        BY <3>1
      <4>2. c2s'[i] = c2s[i] /\ (i > 1 => c2s'[i - 1] = c2s[i - 1])  BY <4>1, <2>0
      <4>3. e[i] = d[i] /\ e[i + 1] = d[i + 1] /\ (i > 1 => e[i - 1] = d[i - 1])  BY <4>1, <2>2
      <4>4. Counted(c2s, d, i)  BY <4>1, <1>6
      <4>5. QED  BY <4>2, <4>3, <4>4 DEF Counted
    <3>2. CASE i = n + 1
      <4>1. c2s'[i] = f /\ e[i] = cSent /\ e[i + 1] = cSent'  BY <3>2, <2>0, <2>2, <2>3
      <4>2. ASSUME i > 1, c2s'[i - 1].type # "Garbled", c2s'[i].epoch = c2s'[i - 1].epoch,
                   c2s'[i].ctr = c2s'[i - 1].ctr + 1
            PROVE  e[i] = e[i - 1] + Datum(c2s'[i - 1])
        <5>1. i - 1 = n /\ n > 0 /\ n \in 1 .. n /\ n \in 1 .. n + 1  BY <3>2, <4>2
        <5>2. c2s'[i - 1] = c2s[n] /\ e[i - 1] = d[n]  BY <5>1, <2>0, <2>2
        <5>3. cTx.epoch = c2s[n].epoch /\ cTx.ctr = c2s[n].ctr + 1 /\ c2s[n].type # "Garbled"
          BY <4>1, <4>2, <5>2, <1>1
        <5>4. cSent = d[n] + Datum(c2s[n])  BY <5>1, <5>3, <1>6
        <5>5. QED  BY <4>1, <5>2, <5>4
      <4>3. QED  BY <4>1, <4>2, <1>8 DEF Counted
    <3>3. QED  BY <3>1, <3>2
  <2>5. c2s'[1].epoch = hRx.epoch /\ c2s'[1].ctr = hRx.ctr =>
           e[1] = LastGot.body \/ LastGot.epoch < hRx.epoch
    <3>1. CASE n = 0
      <4>1. c2s'[1] = f /\ e[1] = cSent  BY <3>1, <2>0, <2>3
      <4>2. QED  BY <3>1, <4>1, <1>1, <1>6
    <3>2. CASE n > 0
      <4>1. c2s'[1] = c2s[1]  BY <3>2, <2>0
      <4>2. QED  BY <4>1, <3>2, <2>3, <1>6
    <3>3. QED  BY <3>1, <3>2
  <2>6. f.type # "Garbled" => cSent' = e[n + 1] + Datum(f)  BY <2>3, <1>8
  <2>7. n + 1 > 0 /\ n + 1 # 0  OBVIOUS
  <2>8. ClientCounts(e)'
    <3>1. LastGot'.body <= e[1] /\ e[Len(c2s') + 1] = cSent'  BY <1>4, <1>6, <2>0, <2>2, <2>3
    <3>2. \A i \in DOMAIN c2s' : Counted(c2s', e, i)  BY <2>0, <2>4
    <3>3. QED
      BY <3>1, <3>2, <1>4, <2>0, <2>5, <2>6, <2>7 DEF ClientCounts
  <2>9. QED  BY <2>0, <2>2, <2>3, <2>8, <1>4 DEF ClientOrder
<1>10. ASSUME c2s' = c2s PROVE ClientOrder'
  <2> DEFINE w == [i \in 1 .. n + 1 |-> IF i = n + 1 THEN cSent' ELSE d[i]]
  <2>1. /\ w \in [1 .. n + 1 -> 0 .. cSent'] /\ w[n + 1] = cSent'
        /\ \A i \in 1 .. n : w[i] = d[i]
    <3>1. ASSUME NEW i \in 1 .. n + 1
          PROVE  (IF i = n + 1 THEN cSent' ELSE d[i]) \in 0 .. cSent'
      <4>1. CASE i = n + 1  BY <4>1, <1>0
      <4>2. CASE i # n + 1
        <5>1. d[i] \in Nat /\ d[i] <= cSent  BY <1>7
        <5>2. QED  BY <4>2, <5>1, <1>0, <1>8
      <4>3. QED  BY <4>1, <4>2
    <3>2. \A i \in 1 .. n : i \in 1 .. n + 1 /\ i # n + 1  OBVIOUS
    <3>3. QED  BY <3>1, <3>2
  <2> HIDE DEF w
  <2>2. PICK e \in [1 .. n + 1 -> 0 .. cSent'] :
            e[n + 1] = cSent' /\ \A i \in 1 .. n : e[i] = d[i]
    BY <2>1
  <2>3. LastGot.body <= e[1] /\ (n > 0 => e[1] = d[1])
    <3>1. CASE n = 0
      <4>1. e[1] = cSent' /\ d[1] = cSent  BY <3>1, <2>2, <1>6
      <4>2. LastGot.body <= cSent  BY <4>1, <1>6
      <4>3. QED  BY <4>1, <4>2, <3>1, <1>8, <1>0
    <3>2. CASE n > 0
      <4>1. e[1] = d[1]  BY <3>2, <2>2
      <4>2. QED  BY <4>1, <1>6
    <3>3. QED  BY <3>1, <3>2
  <2>4. ~ (n > 0 /\ cTx'.epoch = c2s[n].epoch /\ cTx'.ctr = c2s[n].ctr + 1)
    <3>1. SUFFICES ASSUME n > 0, cTx'.epoch = c2s[n].epoch, cTx'.ctr = c2s[n].ctr + 1 PROVE FALSE
      OBVIOUS
    <3>2. n \in DOMAIN c2s  BY <3>1, <1>0
    <3>3. c2s[n].ctr < cTx.ctr /\ c2s[n].ctr \in Nat  BY <3>1, <3>2, <1>2 DEF ClientFlow, Nats
    <3>4. QED  BY <3>1, <3>3, <1>2, KeyNats, SMTT(30)
  <2>5. ~ (cTx'.epoch = hRx.epoch /\ cTx'.ctr = hRx.ctr)
    BY <1>2, KeyNats DEF ClientFlow
  <2>6. ASSUME NEW i \in 1 .. n PROVE Counted(c2s, e, i)
    <3>1. i + 1 \in 1 .. n + 1 /\ i \in 1 .. n + 1 /\ (i > 1 => i - 1 \in 1 .. n)  OBVIOUS
    <3>2. e[i] = d[i] /\ (i > 1 => e[i - 1] = d[i - 1])  BY <3>1, <2>2
    <3>3. d[i + 1] <= e[i + 1]
      <4>1. CASE i = n
        <5>1. d[i + 1] = cSent /\ e[i + 1] = cSent'  BY <4>1, <1>6, <2>2
        <5>2. QED  BY <5>1, <1>8
      <4>2. CASE i # n
        <5>1. i + 1 \in 1 .. n  BY <4>2
        <5>2. e[i + 1] = d[i + 1] /\ d[i + 1] \in Nat  BY <5>1, <3>1, <2>2, <1>7
        <5>3. QED  BY <5>2
      <4>3. QED  BY <4>1, <4>2
    <3>4. Counted(c2s, d, i)  BY <1>6
    <3>5. d[i] \in Nat /\ d[i + 1] \in Nat /\ e[i + 1] \in Nat /\ Datum(c2s[i]) \in Nat
      BY <3>1, <1>0, <1>7, <2>2 DEF Datum
    <3>6. d[i] + Datum(c2s[i]) <= e[i + 1]
      <4>1. d[i] + Datum(c2s[i]) <= d[i + 1]  BY <3>4 DEF Counted
      <4>2. QED  BY <4>1, <3>3, <3>5
    <3>7. QED  BY <3>2, <3>4, <3>6 DEF Counted
  <2>7. ClientCounts(e)'
    <3>1. LastGot'.body <= e[1] /\ e[Len(c2s') + 1] = cSent'  BY <1>n, <1>4, <1>10, <2>2, <2>3
    <3>2. \A i \in DOMAIN c2s' : Counted(c2s', e, i)  BY <1>0, <1>10, <2>6
    <3>3. QED
      BY <3>1, <3>2, <1>n, <1>4, <1>6, <1>10, <2>3, <2>4, <2>5 DEF ClientCounts
  <2>8. QED  BY <2>2, <2>7, <1>n, <1>4, <1>10 DEF ClientOrder
<1>11. QED  BY <1>5, <1>9, <1>10 DEF f

\* What was counted of a frame is still true of it in its new place.
LEMMA CountedShift ==
    ASSUME NEW n \in Nat, NEW q, NEW r, NEW d, NEW e, NEW i \in 1 .. n - 1,
           \A j \in 1 .. n - 1 : r[j] = q[j + 1], \A j \in 1 .. n : e[j] = d[j + 1],
           NEW k \in 1 .. n, k = i + 1, Counted(q, d, k)
    PROVE  Counted(r, e, i)
<1>1. /\ i \in 1 .. n /\ i + 1 \in 1 .. n /\ i + 1 > 1 /\ (i + 1) - 1 = i
      /\ i > 1 => i - 1 \in 1 .. n - 1 /\ i - 1 \in 1 .. n /\ (i - 1) + 1 = i
  OBVIOUS
<1>2. r[i] = q[i + 1] /\ e[i] = d[i + 1] /\ e[i + 1] = d[(i + 1) + 1]  BY <1>1
<1>3. i > 1 => r[i - 1] = q[i] /\ e[i - 1] = d[i]  BY <1>1
<1>4. QED  BY <1>1, <1>2, <1>3 DEF Counted

\* The host took a frame.  It was accepted, and kept if it was a Data frame, or
\* it was turned down or passed over, and then no frame in flight continues.
LEMMA TakenOrder ==
    ASSUME Nats, LastGot.body \in Nat, LastGot.epoch \in Nat, hGot \in Seq([body : Nat, epoch : Nat]),
           ClientFlow, ClientOrder, Shrunk(c2s, c2s'), UNCHANGED <<cTx, cSent>>,
           hRx' \in KeyState,
           \/ /\ UNCHANGED <<hRx, hGot>>
           \/ /\ c2s[1].type # "Garbled"
              /\ hRx'.epoch = c2s[1].epoch /\ hRx'.ctr = c2s[1].ctr + 1
              /\ \/ hRx'.epoch = hRx.epoch /\ c2s[1].ctr = hRx.ctr
                 \/ hRx.epoch < hRx'.epoch
              /\ hGot' = IF c2s[1].type = "Data"
                         THEN Append(hGot, [body |-> c2s[1].body, epoch |-> c2s[1].epoch])
                         ELSE hGot
    PROVE  ClientOrder'
<1> DEFINE f == c2s[1]
<1>n. PICK n \in Nat : n = Len(c2s)  BY DEF Nats
<1>0. /\ n > 0 /\ DOMAIN c2s = 1 .. n /\ DOMAIN c2s' = 1 .. n - 1 /\ Len(c2s') = n - 1
      /\ \A i \in 1 .. n - 1 : c2s'[i] = c2s[i + 1]
      /\ cSent \in Nat /\ 1 \in 1 .. n /\ 1 \in DOMAIN c2s
  <2>1. /\ Len(c2s) > 0 /\ Len(c2s') = Len(c2s) - 1 /\ DOMAIN c2s' = 1 .. Len(c2s')
        /\ \A i \in DOMAIN c2s' : c2s'[i] = c2s[i + 1]
    BY DEF Shrunk
  <2>2. DOMAIN c2s = 1 .. n /\ cSent \in Nat  BY <1>n DEF Nats
  <2>3. n > 0 /\ Len(c2s') = n - 1 /\ DOMAIN c2s' = 1 .. n - 1  BY <1>n, <2>1
  <2>4. 1 \in 1 .. n  BY <2>3
  <2>5. QED  BY <2>1, <2>2, <2>3, <2>4
<1>1. PICK d \in [1 .. n + 1 -> 0 .. cSent] : ClientCounts(d)  BY <1>n DEF ClientOrder
<1>2. /\ LastGot.body <= d[1] /\ d[n + 1] = cSent
      /\ \A i \in 1 .. n : Counted(c2s, d, i)
      /\ f.epoch = hRx.epoch /\ f.ctr = hRx.ctr => d[1] = LastGot.body \/ LastGot.epoch < hRx.epoch
      /\ /\ c2s[n].type # "Garbled"
         /\ cTx.epoch = c2s[n].epoch /\ cTx.ctr = c2s[n].ctr + 1
         => cSent = d[n] + Datum(c2s[n])
  BY <1>n, <1>0, <1>1 DEF ClientCounts
<1>3. \A i \in 1 .. n + 1 : d[i] \in Nat /\ d[i] <= cSent  BY <1>0, <1>1
<1> DEFINE w == [i \in 1 .. n |-> d[i + 1]]
<1>4. w \in [1 .. n -> 0 .. cSent'] /\ \A i \in 1 .. n : w[i] = d[i + 1]
  <2>1. \A i \in 1 .. n : i + 1 \in 1 .. n + 1  OBVIOUS
  <2>2. QED  BY <2>1, <1>1
<1> HIDE DEF w
<1>5. PICK e \in [1 .. n -> 0 .. cSent'] : \A i \in 1 .. n : e[i] = d[i + 1]  BY <1>4
<1>6. e[1] = d[2] /\ e[n] = cSent /\ (n - 1) + 1 = n
  <2>1. 1 + 1 = 2 /\ n \in 1 .. n  BY <1>0
  <2>2. QED  BY <2>1, <1>0, <1>2, <1>5
<1>7. \A i \in 1 .. n - 1 : Counted(c2s', e, i)
  <2>1. SUFFICES ASSUME NEW i \in 1 .. n - 1 PROVE Counted(c2s', e, i)  OBVIOUS
  <2>2. PICK k \in 1 .. n : k = i + 1  OBVIOUS
  <2>3. Counted(c2s, d, k)  BY <1>2
  <2>4. QED  BY <2>2, <2>3, <1>0, <1>5, CountedShift
<1>8. /\ d[1] \in Nat /\ d[2] \in Nat /\ Datum(f) \in Nat /\ d[1] + Datum(f) <= d[2]
      /\ f.type = "Data" => f.body = d[1] + 1
  <2>1. 1 \in 1 .. n + 1 /\ 2 \in 1 .. n + 1 /\ 1 + 1 = 2  BY <1>0
  <2>2. Counted(c2s, d, 1)  BY <1>0, <1>2
  <2>3. QED  BY <2>1, <2>2, <1>3 DEF Counted, Datum
<1>9. \* the end of d
      /\ /\ n - 1 > 0 /\ c2s'[n - 1].type # "Garbled"
         /\ cTx.epoch = c2s'[n - 1].epoch /\ cTx.ctr = c2s'[n - 1].ctr + 1
         => cSent = e[n - 1] + Datum(c2s'[n - 1])
  <2>1. n - 1 > 0 => n - 1 \in 1 .. n - 1 /\ n - 1 \in 1 .. n /\ (n - 1) + 1 = n  OBVIOUS
  <2>2. n - 1 > 0 => c2s'[n - 1] = c2s[n] /\ e[n - 1] = d[n]  BY <2>1, <1>0, <1>5
  <2>3. QED  BY <2>2, <1>2
<1>10. /\ f.epoch \in Nat /\ f.ctr \in Nat /\ hRx.epoch <= f.epoch /\ f.epoch <= cTx.epoch
       /\ f.epoch = hRx.epoch => hRx.ctr <= f.ctr
       /\ f.epoch = cTx.epoch => f.ctr < cTx.ctr
  BY <1>0 DEF ClientFlow, Nats
<1>11. n - 1 > 0 => /\ c2s'[1] = c2s[2] /\ c2s[2].epoch \in Nat /\ c2s[2].ctr \in Nat
                    /\ f.epoch <= c2s[2].epoch
                    /\ f.epoch = c2s[2].epoch => f.ctr < c2s[2].ctr
  <2>1. n - 1 > 0 => 1 \in 1 .. n - 1 /\ 1 + 1 = 2 /\ 2 \in DOMAIN c2s /\ 1 < 2  BY <1>0
  <2>2. QED  BY <2>1, <1>0 DEF ClientFlow, Nats
<1>12. /\ n - 1 > 0 /\ f.type # "Garbled" /\ c2s[2].epoch = f.epoch /\ c2s[2].ctr = f.ctr + 1
       => d[2] = d[1] + Datum(f)
  <2>1. SUFFICES ASSUME n - 1 > 0, f.type # "Garbled", c2s[2].epoch = f.epoch, c2s[2].ctr = f.ctr + 1
                 PROVE  d[2] = d[1] + Datum(f)
    OBVIOUS
  <2>2. 2 \in 1 .. n /\ 2 > 1 /\ 2 - 1 = 1  BY <2>1
  <2>3. Counted(c2s, d, 2)  BY <2>2, <1>2
  <2>4. QED  BY <2>1, <2>2, <2>3 DEF Counted
<1>13. n = 1 /\ f.type # "Garbled" /\ cTx.epoch = f.epoch /\ cTx.ctr = f.ctr + 1
       => cSent = d[1] + Datum(f)
  BY <1>2
<1>g. GapsOnlyAcrossEpochs /\ LastGot.epoch <= hRx.epoch  BY DEF ClientOrder
<1> HIDE DEF f
<1>14. ASSUME UNCHANGED <<hRx, hGot>>
       PROVE  ClientOrder'
  <2>1. LastGot' = LastGot /\ GapsOnlyAcrossEpochs' /\ LastGot.epoch <= hRx.epoch
    BY <1>14, <1>g DEF LastGot, GapsOnlyAcrossEpochs
  <2>2. LastGot.body <= e[1]  BY <1>2, <1>6, <1>8
  <2>k. hRx.epoch \in Nat /\ hRx.ctr \in Nat /\ cTx.epoch \in Nat /\ cTx.ctr \in Nat  BY KeyNats
  <2>3. ~ (n - 1 > 0 /\ c2s'[1].epoch = hRx.epoch /\ c2s'[1].ctr = hRx.ctr)
    <3>1. SUFFICES ASSUME n - 1 > 0, c2s[2].epoch = hRx.epoch, c2s[2].ctr = hRx.ctr PROVE FALSE
      BY <1>11
    <3>2. f.epoch = hRx.epoch  BY <3>1, <2>k, <1>10, <1>11, SMTT(30)
    <3>3. QED  BY <3>1, <3>2, <2>k, <1>10, <1>11, SMTT(30)
  <2>4. ~ (cTx.epoch = hRx.epoch /\ cTx.ctr = hRx.ctr)
    BY <1>10, KeyNats, SMTT(30)
  <2>5. ClientCounts(e)'
    BY <1>0, <1>6, <1>7, <1>9, <1>14, <2>1, <2>2, <2>3, <2>4 DEF ClientCounts
  <2>6. QED  BY <1>0, <1>5, <1>6, <1>14, <2>1, <2>5 DEF ClientOrder
<1>15. ASSUME f.type # "Garbled", hRx'.epoch = f.epoch, hRx'.ctr = f.ctr + 1,
              \/ hRx'.epoch = hRx.epoch /\ f.ctr = hRx.ctr
              \/ hRx.epoch < hRx'.epoch,
              hGot' = IF f.type = "Data" THEN Append(hGot, [body |-> f.body, epoch |-> f.epoch])
                      ELSE hGot
       PROVE  ClientOrder'
  <2>1. d[1] = LastGot.body \/ LastGot.epoch < hRx'.epoch
    <3>1. CASE hRx'.epoch = hRx.epoch /\ f.ctr = hRx.ctr  BY <3>1, <1>2, <1>15
    <3>2. CASE hRx.epoch < hRx'.epoch
      <4>1. hRx.epoch \in Nat /\ f.epoch \in Nat  BY <1>10, KeyNats
      <4>2. QED  BY <3>2, <4>1, <1>15, <1>g
    <3>3. QED  BY <1>15, <3>1, <3>2
  <2>k. hRx.epoch \in Nat /\ hRx'.epoch \in Nat /\ hRx.epoch <= hRx'.epoch
    BY <1>10, <1>15, KeyNats
  <2>2. /\ LastGot'.epoch <= hRx'.epoch /\ GapsOnlyAcrossEpochs'
        /\ LastGot'.body <= d[1] + Datum(f)
        /\ LastGot'.body = d[1] + Datum(f) \/ LastGot'.epoch < hRx'.epoch
    <3>1. CASE f.type = "Data"
      <4> DEFINE g == [body |-> f.body, epoch |-> f.epoch]
      <4>0. g.body = d[1] + 1 /\ g.epoch = f.epoch /\ Datum(f) = 1 /\ g \in [body : Nat, epoch : Nat]
        <5>0. d[1] \in Nat /\ f.epoch \in Nat /\ f.body = d[1] + 1  BY <3>1, <1>8, <1>10
        <5>1. f.body = d[1] + 1 /\ f.body \in Nat /\ f.epoch \in Nat  BY <5>0
        <5>2. g \in [body : Nat, epoch : Nat]  BY <5>1
        <5>3. QED  BY <3>1, <5>1, <5>2 DEF Datum
      <4>1. hGot' = Append(hGot, g)  BY <3>1, <1>15
      <4> HIDE DEF g
      <4>2. Grown(hGot, hGot', g)  BY <4>0, <4>1, Grows
      <4>m. PICK m \in Nat : m = Len(hGot)  OBVIOUS
      <4>3. /\ Len(hGot') = m + 1 /\ DOMAIN hGot = 1 .. m /\ DOMAIN hGot' = 1 .. m + 1
            /\ hGot'[m + 1] = g /\ \A i \in 1 .. m : hGot'[i] = hGot[i]
        BY <4>2, <4>m DEF Grown
      <4>4. LastGot' = g  BY <4>3 DEF LastGot
      <4>5. g.body = LastGot.body + 1 \/ (g.body > LastGot.body /\ g.epoch > LastGot.epoch)
        BY <1>2, <1>8, <1>10, <1>15, <2>1, <4>0, SMTT(30)
      <4>6. ASSUME NEW i \in DOMAIN hGot'
            PROVE  LET before == IF i = 1 THEN [body |-> 0, epoch |-> 0] ELSE hGot'[i - 1]
                   IN  \/ hGot'[i].body = before.body + 1
                       \/ hGot'[i].body > before.body /\ hGot'[i].epoch > before.epoch
        <5>1. CASE i = m + 1
          <6>1. LastGot = IF i = 1 THEN [body |-> 0, epoch |-> 0] ELSE hGot'[i - 1]
            <7>1. CASE m = 0  BY <7>1, <5>1, <4>m DEF LastGot
            <7>2. CASE m # 0
              <8>1. i - 1 = m /\ m \in 1 .. m /\ i # 1  BY <7>2, <5>1
              <8>2. QED  BY <8>1, <7>2, <4>m, <4>3 DEF LastGot
            <7>3. QED  BY <7>1, <7>2
          <6>2. QED  BY <5>1, <6>1, <4>3, <4>5
        <5>2. CASE i # m + 1
          <6>0. i \in 1 .. m + 1  BY <4>3
          <6>1. i \in 1 .. m /\ (i # 1 => i - 1 \in 1 .. m)  BY <5>2, <6>0
          <6>2. hGot'[i] = hGot[i] /\ (i # 1 => hGot'[i - 1] = hGot[i - 1])  BY <6>1, <4>3
          <6>3. QED  BY <6>1, <6>2, <4>3, <1>g DEF GapsOnlyAcrossEpochs
        <5>3. QED  BY <5>1, <5>2
      <4>7. GapsOnlyAcrossEpochs'  BY <4>6 DEF GapsOnlyAcrossEpochs
      <4>8. QED  BY <4>0, <4>4, <4>7, <1>8, <1>10, <1>15, SMTT(30)
    <3>2. CASE f.type # "Data"
      <4>1. hGot' = hGot /\ Datum(f) = 0  BY <3>2, <1>15 DEF Datum
      <4>2. LastGot' = LastGot /\ GapsOnlyAcrossEpochs'
        BY <4>1, <1>g DEF LastGot, GapsOnlyAcrossEpochs
      <4>3. LastGot.epoch <= hRx'.epoch  BY <2>k, <1>g
      <4>4. d[1] + Datum(f) = d[1]  BY <4>1, <1>8
      <4>5. QED  BY <4>2, <4>3, <4>4, <2>1, <1>2
    <3>3. QED  BY <3>1, <3>2
  <2>3. LastGot'.body <= e[1]
    <3>1. LastGot'.body \in Nat
      <4>1. CASE f.type = "Data"
        <5>1. hGot' = Append(hGot, [body |-> f.body, epoch |-> f.epoch]) /\ f.body \in Nat
          BY <4>1, <1>8, <1>15, SMTT(30)
        <5>2. LastGot'.body = f.body  BY <5>1, <1>10 DEF LastGot
        <5>3. QED  BY <5>1, <5>2
      <4>2. CASE f.type # "Data"  BY <4>2, <1>15 DEF LastGot
      <4>3. QED  BY <4>1, <4>2
    <3>2. QED  BY <3>1, <2>2, <1>6, <1>8
  <2>4. n - 1 > 0 /\ c2s'[1].epoch = hRx'.epoch /\ c2s'[1].ctr = hRx'.ctr =>
           e[1] = LastGot'.body \/ LastGot'.epoch < hRx'.epoch
    BY <1>6, <1>11, <1>12, <1>15, <2>2
  <2>5. n - 1 = 0 /\ cTx.epoch = hRx'.epoch /\ cTx.ctr = hRx'.ctr =>
           cSent = LastGot'.body \/ LastGot'.epoch < hRx'.epoch
    BY <1>13, <1>15, <2>2
  <2>6. ClientCounts(e)'
    BY <1>0, <1>6, <1>7, <1>9, <2>3, <2>4, <2>5 DEF ClientCounts
  <2>7. QED  BY <1>0, <1>5, <1>6, <2>2, <2>6 DEF ClientOrder
<1>16. QED  BY <1>14, <1>15 DEF f

\* Everything else: the reader's switch opens an epoch no frame belongs to yet.
LEMMA OrderFrame ==
    ASSUME Nats, ClientOrder, UNCHANGED <<hRx, hGot, c2s, cSent>>,
           \/ cTx' = cTx
           \/ /\ cTx'.epoch # hRx.epoch
              /\ Len(c2s) > 0 => cTx'.epoch # c2s[Len(c2s)].epoch
    PROVE  ClientOrder'
<1>1. LastGot' = LastGot /\ GapsOnlyAcrossEpochs' /\ LastGot.epoch <= hRx.epoch
  BY DEF ClientOrder, LastGot, GapsOnlyAcrossEpochs
<1>2. PICK d \in [1 .. Len(c2s) + 1 -> 0 .. cSent] : ClientCounts(d)  BY DEF ClientOrder
<1>3. ClientCounts(d)'  BY <1>1, <1>2 DEF ClientCounts
<1>4. QED  BY <1>1, <1>2, <1>3 DEF ClientOrder

\* Every step preserves ClientOrder.
LEMMA StepClientOrder ==
    TypeOK /\ Flow /\ ClientOrder /\ [Next]_vars => ClientOrder'
<1> SUFFICES ASSUME TypeOK, Flow, ClientOrder, [Next]_vars PROVE ClientOrder'
  OBVIOUS
<1> USE DEF chans, cSend, cRead, hThread, hSend, history
<1>0. /\ Nats /\ cSent \in Nat /\ ephs \in Nat /\ c2s \in Seq(Frame)
      /\ hGot \in Seq([body : Nat, epoch : Nat])
      /\ LastGot.body \in Nat /\ LastGot.epoch \in Nat
  BY TypesNats, LastGotNats DEF TypeOK, HistoryOK, ChansOK
<1>1. ASSUME NEW s \in Senders, Call(s) \/ SenderStep(s) PROVE ClientOrder'
  <2>1. CASE Call(s) \/ Lock(s) \/ NotDue(s) \/ StoreEph(s)
    BY <2>1, <1>0, OrderFrame DEF Call, Lock, NotDue, StoreEph
  <2>2. CASE SendFrame(s)
    <3>1. PICK ok \in BOOLEAN : ClientSeal("Data", cSent + 1, ok)  BY <2>2 DEF SendFrame
    <3>2. Sealed("Data", cSent + 1)  BY <3>1, <1>0, ClientSealEffect
    <3>3. cSent' = cSent + 1 /\ UNCHANGED <<hRx, hGot>>  BY <2>2 DEF SendFrame
    <3>4. QED  BY <1>0, <3>2, <3>3, SealedOrder DEF Flow
  <2>3. CASE BeginRekey(s)
    <3>1. PICK ok \in BOOLEAN : ClientSeal("Rekey", ephs + 1, ok)  BY <2>3 DEF BeginRekey
    <3>2. Sealed("Rekey", ephs + 1)  BY <3>1, <1>0, ClientSealEffect
    <3>3. cSent' = cSent /\ UNCHANGED <<hRx, hGot>>  BY <2>3 DEF BeginRekey
    <3>4. QED  BY <1>0, <3>2, <3>3, SealedOrder DEF Flow
  <2>4. QED  BY <1>1, <2>1, <2>2, <2>3 DEF SenderStep
<1>2. CASE ReaderData \/ ReaderBreaks \/ ReaderAck \/ ReaderEof
  BY <1>2, <1>0, OrderFrame
  DEF ReaderData, ReaderBreaks, ReaderAck, ReaderEof, ReaderLeaves
<1>3. CASE ReaderSwitch
  <2>1. /\ cTx' = [key |-> newKey, epoch |-> cTx.epoch + 1, ctr |-> 0]
        /\ UNCHANGED <<c2s, hRx, hGot, cSent>>
    BY <1>3 DEF ReaderSwitch, InstallTx
  <2>2. cTx'.epoch = cTx.epoch + 1  BY <2>1
  <2>3. cTx.epoch \in Nat /\ hRx.epoch \in Nat /\ hRx.epoch <= cTx.epoch
    BY <1>0, KeyNats DEF Flow, KeyInv
  <2>4. ASSUME Len(c2s) > 0
        PROVE  c2s[Len(c2s)].epoch \in Nat /\ c2s[Len(c2s)].epoch <= cTx.epoch
    <3>1. Len(c2s) \in DOMAIN c2s  BY <2>4, <1>0 DEF Nats
    <3>2. QED  BY <3>1, <1>0 DEF Nats, Flow, ClientFlow
  <2>5. /\ cTx'.epoch # hRx.epoch
        /\ Len(c2s) > 0 => cTx'.epoch # c2s[Len(c2s)].epoch
    BY <2>2, <2>3, <2>4
  <2>6. QED  BY <1>0, <2>1, <2>5, OrderFrame
<1>4. CASE HostBad \/ HostSkip \/ HostRekey \/ HostData
  <2>0. HostTakes  BY <1>4 DEF HostBad, HostSkip, HostRekey, HostData
  <2>1. Shrunk(c2s, c2s') /\ Head(c2s) = c2s[1] /\ c2s # <<>>
    BY <1>0, <2>0, Shrinks DEF HostTakes
  <2>2. UNCHANGED <<cTx, cSent>>
    BY <1>4 DEF HostBad, HostSkip, HostRekey, HostData, HostLeaves
  <2>t. hRx \in KeyState /\ hRx' \in KeyState
    BY StepTypes DEF TypeOK, HThreadOK
  <2>3. CASE HostBad \/ HostSkip
    <3>1. UNCHANGED <<hRx, hGot>>  BY <2>3 DEF HostBad, HostSkip
    <3>2. QED  BY <1>0, <2>1, <2>2, <2>t, <3>1, TakenOrder DEF Flow
  <2>4. CASE HostRekey \/ HostData
    <3>1. HostOpens  BY <2>4 DEF HostRekey, HostData
    <3>2. /\ hRx'.epoch = c2s[1].epoch /\ hRx'.ctr = c2s[1].ctr + 1
          /\ c2s[1].type # "Garbled"
      BY <1>0, <2>1, <3>1, HostOpened DEF Flow
    <3>3. \/ hRx'.epoch = hRx.epoch /\ c2s[1].ctr = hRx.ctr
          \/ hRx.epoch < hRx'.epoch
      <4>1. c2s[1].epoch # hRx.epoch \/ c2s[1].ctr = hRx.ctr  BY <2>1, <3>1 DEF HostOpens, Accepts
      <4>2. 1 \in DOMAIN c2s  BY <1>0, <2>1, Indices DEF Nats
      <4>3. hRx.epoch <= c2s[1].epoch /\ c2s[1].epoch \in Nat /\ hRx.epoch \in Nat
        BY <1>0, <4>2, KeyNats DEF Nats, Flow, ClientFlow
      <4>4. QED  BY <3>2, <4>1, <4>3
    <3>4. hGot' = IF c2s[1].type = "Data"
                  THEN Append(hGot, [body |-> c2s[1].body, epoch |-> c2s[1].epoch])
                  ELSE hGot
      BY <2>1, <2>4 DEF HostRekey, HostData
    <3>5. QED  BY <1>0, <2>1, <2>2, <2>t, <3>2, <3>3, <3>4, TakenOrder DEF Flow
  <2>5. QED  BY <1>4, <2>3, <2>4
<1>5. CASE HostAck \/ HostAckFails \/ HostReply \/ HostReplied \/ HostLimit
           \/ HostLimitClose \/ HostEof
  BY <1>5, <1>0, OrderFrame
  DEF HostAck, HostAckFails, HostReply, HostReplied, HostLimit, HostLimitClose, HostEof
<1>6. CASE Publish \/ Disconnect \/ StopBegins \/ StopCloses \/ UNCHANGED vars
  BY <1>6, <1>0, OrderFrame DEF Publish, Disconnect, StopBegins, StopCloses, vars
<1>7. QED
  BY <1>1, <1>2, <1>3, <1>4, <1>5, <1>6 DEF Next, ReaderStep, HostStep

\* ClientOrder holds right after the handshake.
LEMMA InitClientOrder == Init => ClientOrder
<1> SUFFICES ASSUME Init PROVE ClientOrder
  OBVIOUS
<1>1. /\ DOMAIN hGot = {} /\ DOMAIN c2s = {} /\ Len(c2s) = 0 /\ Len(hGot) = 0 /\ cSent = 0
      /\ hRx.epoch = 0
  BY DEF Init, HandshakeKeys
<1>2. [i \in 1 .. 1 |-> 0] \in [1 .. Len(c2s) + 1 -> 0 .. cSent]  BY <1>1
<1>3. LastGot.body = 0 /\ LastGot.epoch = 0  BY <1>1 DEF LastGot
<1>4. ClientCounts([i \in 1 .. 1 |-> 0])  BY <1>1, <1>3 DEF ClientCounts
<1>5. GapsOnlyAcrossEpochs  BY <1>1 DEF GapsOnlyAcrossEpochs
<1>6. QED  BY <1>1, <1>2, <1>3, <1>4, <1>5 DEF ClientOrder

-----------------------------------------------------------------------------
(* The client-to-host direction as a channel.                              *)

\* Another frame was written.
LEMMA WholeGrows ==
    ASSUME Nats, WholeOrder, cFault = "none", NEW f, Grown(c2s, c2s', f),
           cSent' = cSent + Datum(f), f.type = "Data" => f.body = cSent + 1, UNCHANGED hGot
    PROVE  WholeOrder'
<1>n. PICK n \in Nat : n = Len(c2s)  BY DEF Nats
<1>0. /\ DOMAIN c2s = 1 .. n /\ DOMAIN c2s' = 1 .. n + 1 /\ Len(c2s') = n + 1
      /\ c2s'[n + 1] = f /\ \A i \in 1 .. n : c2s'[i] = c2s[i]
      /\ cSent \in Nat /\ Datum(f) \in Nat /\ LastGot' = LastGot
  BY <1>n DEF Nats, Grown, Datum, LastGot
<1>1. PICK d \in [1 .. n + 1 -> 0 .. cSent] : WholeCounts(d)  BY <1>n DEF WholeOrder
<1>2. /\ d[1] = LastGot.body /\ d[n + 1] = cSent
      /\ \A i \in 1 .. n : /\ c2s[i].type = "Data" => c2s[i].body = d[i] + 1
                           /\ d[i + 1] = d[i] + Datum(c2s[i])
  BY <1>n, <1>0, <1>1 DEF WholeCounts
<1>3. \A i \in 1 .. n + 1 : d[i] \in Nat /\ d[i] <= cSent  BY <1>0, <1>1
<1> DEFINE w == [i \in 1 .. n + 2 |-> IF i = n + 2 THEN cSent + Datum(f) ELSE d[i]]
<1>4. w \in [1 .. n + 2 -> 0 .. cSent'] /\ \A i \in 1 .. n + 1 : w[i] = d[i]
  <2>1. ASSUME NEW i \in 1 .. n + 2
        PROVE  (IF i = n + 2 THEN cSent + Datum(f) ELSE d[i]) \in 0 .. cSent'
    <3>1. CASE i = n + 2  BY <3>1, <1>0
    <3>2. CASE i # n + 2
      <4>1. i \in 1 .. n + 1  BY <3>2
      <4>2. d[i] \in Nat /\ d[i] <= cSent  BY <4>1, <1>3
      <4>3. QED  BY <3>2, <4>2, <1>0
    <3>3. QED  BY <3>1, <3>2
  <2>2. \A i \in 1 .. n + 1 : i \in 1 .. n + 2 /\ i # n + 2  OBVIOUS
  <2>3. QED  BY <2>1, <2>2
<1>5. w[n + 2] = cSent + Datum(f)  OBVIOUS
<1> HIDE DEF w
<1>6. PICK e \in [1 .. n + 2 -> 0 .. cSent'] :
          e[n + 2] = cSent' /\ \A i \in 1 .. n + 1 : e[i] = d[i]
  BY <1>4, <1>5
<1>7. e[1] = d[1] /\ e[n + 1] = cSent  BY <1>2, <1>6
<1>8. ASSUME NEW i \in 1 .. n + 1
      PROVE  /\ c2s'[i].type = "Data" => c2s'[i].body = e[i] + 1
             /\ e[i + 1] = e[i] + Datum(c2s'[i])
  <2>1. CASE i = n + 1
    <3>1. i + 1 = n + 2  BY <2>1
    <3>2. QED  BY <2>1, <3>1, <1>0, <1>6, <1>7
  <2>2. CASE i # n + 1
    <3>1. i \in 1 .. n /\ i + 1 \in 1 .. n + 1  BY <2>2
    <3>2. QED  BY <3>1, <1>0, <1>2, <1>6
  <2>3. QED  BY <2>1, <2>2
<1>9. (n + 1) + 1 = n + 2  OBVIOUS
<1>10. WholeCounts(e)'
  BY <1>0, <1>2, <1>6, <1>7, <1>8, <1>9 DEF WholeCounts
<1>11. QED  BY <1>0, <1>6, <1>9, <1>10 DEF WholeOrder

\* No frame was sealed and none taken, or a write has failed.
LEMMA WholeKeeps ==
    ASSUME WholeOrder,
           cFault' = "none" => cFault = "none" /\ UNCHANGED <<c2s, hGot, cSent>>
    PROVE  WholeOrder'
<1>1. SUFFICES ASSUME cFault' = "none"
               PROVE  \E d \in [1 .. Len(c2s') + 1 -> 0 .. cSent'] : WholeCounts(d)'
  BY DEF WholeOrder
<1>2. c2s' = c2s /\ cSent' = cSent /\ LastGot' = LastGot  BY <1>1 DEF LastGot
<1>3. PICK d \in [1 .. Len(c2s) + 1 -> 0 .. cSent] : WholeCounts(d)  BY <1>1 DEF WholeOrder
<1>4. WholeCounts(d)'  BY <1>2, <1>3 DEF WholeCounts
<1>5. QED  BY <1>2, <1>3, <1>4

\* The host took a frame, and kept it if it was a Data frame.
LEMMA WholeShrinks ==
    ASSUME Nats, WholeOrder, cFault = "none", Shrunk(c2s, c2s'), UNCHANGED <<cFault, cSent>>,
           LastGot.body \in Nat,
           LastGot'.body = IF c2s[1].type = "Data" THEN c2s[1].body ELSE LastGot.body
    PROVE  WholeOrder' /\ (c2s[1].type = "Data" => c2s[1].body = LastGot.body + 1)
<1>n. PICK n \in Nat : n = Len(c2s)  BY DEF Nats
<1>0. /\ n > 0 /\ DOMAIN c2s = 1 .. n /\ DOMAIN c2s' = 1 .. n - 1 /\ Len(c2s') = n - 1
      /\ \A i \in 1 .. n - 1 : c2s'[i] = c2s[i + 1]
      /\ cSent \in Nat /\ Datum(c2s[1]) \in Nat
  BY <1>n DEF Nats, Shrunk, Datum
<1>1. PICK d \in [1 .. n + 1 -> 0 .. cSent] : WholeCounts(d)  BY <1>n DEF WholeOrder
<1>2. /\ d[1] = LastGot.body /\ d[n + 1] = cSent
      /\ \A i \in 1 .. n : /\ c2s[i].type = "Data" => c2s[i].body = d[i] + 1
                           /\ d[i + 1] = d[i] + Datum(c2s[i])
  BY <1>n, <1>0, <1>1 DEF WholeCounts
<1>4. /\ d[2] = LastGot.body + Datum(c2s[1])
      /\ c2s[1].type = "Data" => c2s[1].body = LastGot.body + 1
  <2>1. 1 \in 1 .. n /\ 2 \in 1 .. n + 1 /\ 1 + 1 = 2  BY <1>0
  <2>2. QED  BY <2>1, <1>2
<1>5. LastGot'.body = d[2]  BY <1>4 DEF Datum
<1> DEFINE w == [i \in 1 .. n |-> d[i + 1]]
<1>7. w \in [1 .. n -> 0 .. cSent']
  <2>1. \A i \in 1 .. n : i + 1 \in 1 .. n + 1  OBVIOUS
  <2>2. QED  BY <2>1, <1>1
<1>8. \A i \in 1 .. n : w[i] = d[i + 1]  OBVIOUS
<1> HIDE DEF w
<1>9. PICK e \in [1 .. n -> 0 .. cSent'] : \A i \in 1 .. n : e[i] = d[i + 1]
  BY <1>7, <1>8
<1>10. e[1] = LastGot'.body /\ e[n] = cSent'
  <2>1. 1 + 1 = 2 /\ n \in 1 .. n /\ 1 \in 1 .. n  BY <1>0
  <2>2. QED  BY <2>1, <1>2, <1>5, <1>9
<1>11. ASSUME NEW i \in 1 .. n - 1
       PROVE  /\ c2s'[i].type = "Data" => c2s'[i].body = e[i] + 1
              /\ e[i + 1] = e[i] + Datum(c2s'[i])
  <2>1. i \in 1 .. n /\ i + 1 \in 1 .. n  BY <1>0
  <2>2. QED  BY <2>1, <1>0, <1>2, <1>9
<1>12. (n - 1) + 1 = n  OBVIOUS
<1>13. WholeCounts(e)'
  BY <1>0, <1>10, <1>11, <1>12 DEF WholeCounts
<1>14. QED  BY <1>0, <1>4, <1>9, <1>12, <1>13 DEF WholeOrder

\* A step as the user of the client-to-host direction sees it: another frame
\* is submitted, a write fails, a frame is delivered, the host gives up, or
\* nothing.
RequestStep ==
    \/ /\ cSent' = cSent + 1 /\ UNCHANGED hGot /\ (hpc' = "done" <=> hpc = "done")
       /\ cFault' = "none" => cFault = "none"
    \/ UNCHANGED <<cSent, hGot>> /\ (hpc' = "done" <=> hpc = "done") /\ cFault' # "none"
    \/ /\ hpc # "done" /\ hpc' # "done" /\ UNCHANGED <<cSent, cFault>>
       /\ \E b \in LastGot.body + 1 .. cSent, e \in LastGot.epoch .. MaxEpoch :
             /\ b = LastGot.body + 1 \/ (cFault # "none" /\ e > LastGot.epoch)
             /\ hGot' = Append(hGot, [body |-> b, epoch |-> e])
    \/ UNCHANGED <<cSent, hGot, cFault>> /\ hpc' = "done"
    \/ UNCHANGED <<cSent, hGot, cFault>> /\ (hpc' = "done" <=> hpc = "done")

\* The host takes a frame: it delivers a Data frame, the next in order unless a
\* write has failed.
LEMMA TakesWhole ==
    ASSUME TypeOK, Flow, ClientOrder, ClientOrder', WholeOrder,
           HostBad \/ HostSkip \/ HostRekey \/ HostData
    PROVE  WholeOrder' /\ RequestStep
<1> USE DEF chans, cSend, cRead, hThread, hSend, history, HostLeaves
<1>0. /\ Nats /\ cSent \in Nat /\ c2s \in Seq(Frame) /\ MaxEpoch \in Nat
      /\ hGot \in Seq([body : Nat, epoch : Nat])
      /\ LastGot.body \in Nat /\ LastGot.epoch \in Nat
  BY TypesNats, LastGotNats, SessionConstants DEF TypeOK, HistoryOK, ChansOK
<1>1. HostTakes  BY DEF HostBad, HostSkip, HostRekey, HostData
<1>2. /\ Shrunk(c2s, c2s') /\ Head(c2s) = c2s[1] /\ c2s # <<>> /\ Len(c2s) > 0 /\ 1 \in DOMAIN c2s
      /\ hpc = "read"
  BY <1>0, <1>1, Shrinks, Indices DEF HostTakes, Nats
<1>3. UNCHANGED <<cFault, cSent>>  BY DEF HostBad, HostSkip, HostRekey, HostData
<1>4. CASE HostBad \/ HostSkip
  <2>1. UNCHANGED hGot /\ hpc' \in {"done", "read"}
    BY <1>4 DEF HostBad, HostSkip, HostExit, HostStays
  <2>2. cFault # "none"
    <3>1. CASE c2s[1].type = "Garbled"  BY <3>1, <1>2 DEF Flow, ClientCounters
    <3>2. CASE c2s[1].type # "Garbled"
      <4>1. ~Accepts(hRx, hPend, c2s[1])  BY <3>2, <1>2, <1>4 DEF HostBad, HostSkip
      <4>2. QED  BY <4>1, <1>0, <1>2, HostAccepts DEF Flow
    <3>3. QED  BY <3>1, <3>2
  <2>3. WholeOrder'  BY <1>3, <2>2 DEF WholeOrder
  <2>4. QED  BY <1>2, <1>3, <2>1, <2>3 DEF RequestStep
<1>5. CASE HostRekey
  <2>1. c2s[1].type = "Rekey" /\ UNCHANGED hGot /\ hpc' \in {"done", "ack"}
    BY <1>2, <1>5 DEF HostRekey, HostExit, HostStays
  <2>2. LastGot' = LastGot  BY <2>1 DEF LastGot
  <2>3. WholeOrder'
    <3>1. CASE cFault = "none"  BY <3>1, <1>0, <1>2, <1>3, <2>1, <2>2, WholeShrinks
    <3>2. CASE cFault # "none"  BY <3>2, <1>3 DEF WholeOrder
    <3>3. QED  BY <3>1, <3>2
  <2>4. QED  BY <1>2, <1>3, <2>1, <2>3 DEF RequestStep
<1>6. CASE HostData
  <2> DEFINE g == [body |-> c2s[1].body, epoch |-> c2s[1].epoch]
  <2>1. /\ c2s[1].type = "Data" /\ hGot' = Append(hGot, g) /\ hpc' \in {"reply", "limit"}
    BY <1>2, <1>6 DEF HostData, HostStays
  <2>2. /\ g.body = c2s[1].body /\ g.epoch = c2s[1].epoch
        /\ g.body \in Nat /\ g.epoch \in Nat /\ g \in [body : Nat, epoch : Nat]
    BY <1>0, <1>2 DEF Nats
  <2>b. PICK b \in Nat, e \in Nat : b = g.body /\ e = g.epoch /\ g = [body |-> b, epoch |-> e]
    BY <2>2
  <2> HIDE DEF g
  <2>m. PICK m \in Nat : m = Len(hGot)  BY <1>0
  <2>3. /\ Len(hGot') = m + 1 /\ DOMAIN hGot = 1 .. m /\ DOMAIN hGot' = 1 .. m + 1
        /\ hGot'[m + 1] = g /\ \A i \in 1 .. m : hGot'[i] = hGot[i]
    <3>1. Grown(hGot, hGot', g)  BY <1>0, <2>1, <2>2, Grows
    <3>2. QED  BY <3>1, <2>m, <1>0, Indices DEF Grown
  <2>4. LastGot' = g  BY <2>3 DEF LastGot
  <2>5. LastGot = IF m + 1 = 1 THEN [body |-> 0, epoch |-> 0] ELSE hGot'[(m + 1) - 1]
    <3>1. CASE m = 0  BY <3>1, <2>m DEF LastGot
    <3>2. CASE m # 0
      <4>1. (m + 1) - 1 = m /\ m \in 1 .. m /\ m + 1 # 1  BY <3>2
      <4>2. QED  BY <4>1, <3>2, <2>m, <2>3 DEF LastGot
    <3>3. QED  BY <3>1, <3>2
  <2>6. b = LastGot.body + 1 \/ (b > LastGot.body /\ e > LastGot.epoch)
    <3>1. m + 1 \in DOMAIN hGot'  BY <2>3
    <3>2. GapsOnlyAcrossEpochs'  BY DEF ClientOrder
    <3>3. QED  BY <3>1, <3>2, <2>3, <2>5, <2>b DEF GapsOnlyAcrossEpochs
  <2>7. b <= cSent
    <3>0. /\ Len(c2s) \in Nat /\ Len(c2s) > 0  BY <1>0, <1>2 DEF Nats
    <3>n. PICK n : n = Len(c2s')  OBVIOUS
    <3>1. n = Len(c2s) - 1 /\ n \in Nat  BY <1>2, <3>0, <3>n DEF Shrunk
    <3>2. PICK d \in [1 .. n + 1 -> 0 .. cSent] : ClientCounts(d)'  BY <1>3, <3>n DEF ClientOrder
    <3>3. LastGot'.body <= d[1]  BY <3>2 DEF ClientCounts
    <3>4. d[1] \in 0 .. cSent  BY <3>1, <3>2
    <3>5. QED  BY <1>0, <2>4, <2>b, <3>3, <3>4
  <2>8. LastGot.epoch <= e /\ e <= MaxEpoch
    <3>1. LastGot.epoch <= hRx.epoch  BY DEF ClientOrder
    <3>2. hRx.epoch <= e /\ e <= cTx.epoch  BY <1>2, <2>2, <2>b DEF Flow, ClientFlow
    <3>3. cTx.epoch <= hTx.epoch /\ hTx.epoch <= MaxEpoch  BY DEF Flow, KeyInv
    <3>4. QED  BY <1>0, <3>1, <3>2, <3>3, KeyNats
  <2>9. WholeOrder' /\ (cFault = "none" => b = LastGot.body + 1)
    <3>1. CASE cFault = "none"
      <4>1. LastGot'.body = IF c2s[1].type = "Data" THEN c2s[1].body ELSE LastGot.body
        BY <2>1, <2>2, <2>4
      <4>2. QED  BY <3>1, <4>1, <1>0, <1>2, <1>3, <2>1, <2>2, <2>b, WholeShrinks
    <3>2. CASE cFault # "none"  BY <3>2, <1>3 DEF WholeOrder
    <3>3. QED  BY <3>1, <3>2
  <2>10. b \in LastGot.body + 1 .. cSent /\ e \in LastGot.epoch .. MaxEpoch
    BY <1>0, <2>6, <2>7, <2>8
  <2>11. b = LastGot.body + 1 \/ (cFault # "none" /\ e > LastGot.epoch)
    BY <2>6, <2>9
  <2>12. hGot' = Append(hGot, [body |-> b, epoch |-> e])  BY <2>1, <2>b
  <2>13. QED  BY <1>2, <1>3, <2>1, <2>9, <2>10, <2>11, <2>12 DEF RequestStep
<1>7. QED  BY <1>4, <1>5, <1>6

\* The client seals a frame.
LEMMA SealsWhole ==
    ASSUME Nats, WholeOrder, UNCHANGED <<hGot, hpc>>, cFault \in {"none", "gap", "torn"},
           NEW type, NEW body \in Nat, Sealed(type, body),
           \/ type = "Data" /\ body = cSent + 1 /\ cSent' = cSent + 1
           \/ type = "Rekey" /\ cSent' = cSent
    PROVE  WholeOrder' /\ RequestStep
<1> DEFINE f == Seal(cTx, IF cFault = "torn" THEN "Garbled" ELSE type, body)
<1>0. cSent \in Nat  BY DEF Nats
<1>1. f.body = body /\ f.type = IF cFault = "torn" THEN "Garbled" ELSE type  BY DEF Seal
<1> HIDE DEF f
<1>2. CASE Grown(c2s, c2s', f) /\ cFault' = cFault
  <2>1. CASE cFault = "none"
    <3>1. cSent' = cSent + Datum(f) /\ (f.type = "Data" => f.body = cSent + 1)
      BY <1>0, <1>1, <2>1 DEF Datum
    <3>2. WholeOrder'  BY <1>2, <2>1, <3>1, WholeGrows
    <3>3. QED  BY <1>2, <3>2 DEF RequestStep
  <2>2. CASE cFault # "none"
    <3>1. WholeOrder'  BY <1>2, <2>2 DEF WholeOrder
    <3>2. QED  BY <1>2, <2>2, <3>1 DEF RequestStep
  <2>3. QED  BY <2>1, <2>2
<1>3. CASE cFault' \in {"gap", "torn"}
  <2>1. cFault' # "none"  BY <1>3
  <2>2. WholeOrder'  BY <2>1 DEF WholeOrder
  <2>3. QED  BY <2>1, <2>2 DEF RequestStep
<1>4. QED  BY <1>2, <1>3 DEF Sealed, f

\* Every step preserves WholeOrder and is a step of the channel that may lose.
LEMMA StepWhole ==
    TypeOK /\ Flow /\ ClientOrder /\ ClientOrder' /\ WholeOrder /\ [Next]_vars =>
        WholeOrder' /\ RequestStep
<1> SUFFICES ASSUME TypeOK, Flow, ClientOrder, ClientOrder', WholeOrder, [Next]_vars
             PROVE  WholeOrder' /\ RequestStep
  OBVIOUS
<1> USE DEF chans, cSend, cRead, hThread, hSend, history
<1>0. /\ Nats /\ cSent \in Nat /\ ephs \in Nat /\ cFault \in {"none", "gap", "torn"}
  BY TypesNats DEF TypeOK, HistoryOK, CSendOK
<1>1. ASSUME UNCHANGED <<c2s, hGot, cSent, cFault>>, hpc' = "done" \/ (hpc' = "done" <=> hpc = "done")
      PROVE  WholeOrder' /\ RequestStep
  <2>1. WholeOrder'  BY <1>1, WholeKeeps
  <2>2. RequestStep  BY <1>1 DEF RequestStep
  <2>3. QED  BY <2>1, <2>2
<1>2. ASSUME NEW s \in Senders, Call(s) \/ SenderStep(s) PROVE WholeOrder' /\ RequestStep
  <2>1. CASE Call(s) \/ Lock(s) \/ NotDue(s) \/ StoreEph(s)
    BY <2>1, <1>1 DEF Call, Lock, NotDue, StoreEph
  <2>2. CASE SendFrame(s)
    <3>1. PICK ok \in BOOLEAN : ClientSeal("Data", cSent + 1, ok)  BY <2>2 DEF SendFrame
    <3>2. Sealed("Data", cSent + 1)  BY <3>1, <1>0, ClientSealEffect
    <3>3. cSent' = cSent + 1 /\ UNCHANGED <<hGot, hpc>>  BY <2>2 DEF SendFrame
    <3>4. QED  BY <1>0, <3>2, <3>3, SealsWhole
  <2>3. CASE BeginRekey(s)
    <3>1. PICK ok \in BOOLEAN : ClientSeal("Rekey", ephs + 1, ok)  BY <2>3 DEF BeginRekey
    <3>2. Sealed("Rekey", ephs + 1)  BY <3>1, <1>0, ClientSealEffect
    <3>3. cSent' = cSent /\ UNCHANGED <<hGot, hpc>>  BY <2>3 DEF BeginRekey
    <3>4. QED  BY <1>0, <3>2, <3>3, SealsWhole
  <2>4. QED  BY <1>2, <2>1, <2>2, <2>3 DEF SenderStep
<1>3. CASE ReaderData \/ ReaderBreaks \/ ReaderAck \/ ReaderSwitch \/ ReaderEof
  BY <1>3, <1>1
  DEF ReaderData, ReaderBreaks, ReaderAck, ReaderSwitch, ReaderEof, ReaderLeaves
<1>4. CASE HostBad \/ HostSkip \/ HostRekey \/ HostData  BY <1>4, TakesWhole
<1>5. CASE HostAck \/ HostAckFails \/ HostReply \/ HostReplied
  BY <1>5, <1>1 DEF HostAck, HostAckFails, HostReply, HostReplied, HostExit, HostStays
<1>6. CASE HostLimit \/ HostLimitClose \/ HostEof
  BY <1>6, <1>1 DEF HostLimit, HostLimitClose, HostEof, HostExit
<1>7. CASE Publish \/ Disconnect \/ StopBegins \/ StopCloses \/ UNCHANGED vars
  BY <1>7, <1>1 DEF Publish, Disconnect, StopBegins, StopCloses, vars
<1>8. QED
  BY <1>2, <1>3, <1>4, <1>5, <1>6, <1>7 DEF Next, ReaderStep, HostStep

\* WholeOrder holds right after the handshake.
LEMMA InitWhole == Init => WholeOrder
<1> SUFFICES ASSUME Init PROVE WholeOrder  OBVIOUS
<1>1. DOMAIN c2s = {} /\ Len(c2s) = 0 /\ Len(hGot) = 0 /\ cSent = 0  BY DEF Init
<1>2. [i \in 1 .. 1 |-> 0] \in [1 .. Len(c2s) + 1 -> 0 .. cSent]  BY <1>1
<1>3. LastGot.body = 0  BY <1>1 DEF LastGot
<1>4. WholeCounts([i \in 1 .. 1 |-> 0])  BY <1>1, <1>3 DEF WholeCounts
<1>5. QED  BY <1>2, <1>4 DEF WholeOrder

\* What handle_connection takes is what seal_and_send sealed, in order and each
\* frame once; without a failed write none is missing, and after one frames
\* are missing only where an epoch ends: the session implements the channel
\* that may lose in the client-to-host direction.
THEOREM ClientToHostIsAChannel == Spec => ClientToHostSpec
<1>1. Init => ClientToHost!Init  BY DEF Init, ClientToHost!Init
<1>2. RequestStep => [ClientToHost!Next]_<<cSent, hGot, cFault # "none", hpc # "done">>
  <2> SUFFICES ASSUME RequestStep
               PROVE  [ClientToHost!Next]_<<cSent, hGot, cFault # "none", hpc # "done">>
    OBVIOUS
  <2>1. LastGot = ClientToHost!Last  BY DEF LastGot, ClientToHost!Last
  <2>2. CASE /\ cSent' = cSent + 1 /\ UNCHANGED hGot /\ (hpc' = "done" <=> hpc = "done")
             /\ cFault' = "none" => cFault = "none"
    <3>1. (cFault' # "none") \in {cFault # "none", TRUE}  BY <2>2
    <3>2. ClientToHost!Submit  BY <2>2, <3>1 DEF ClientToHost!Submit
    <3>3. QED  BY <3>2 DEF ClientToHost!Next
  <2>3. CASE UNCHANGED <<cSent, hGot>> /\ (hpc' = "done" <=> hpc = "done") /\ cFault' # "none"
    <3>1. ClientToHost!Fail  BY <2>3 DEF ClientToHost!Fail
    <3>2. QED  BY <3>1 DEF ClientToHost!Next
  <2>4. CASE /\ hpc # "done" /\ hpc' # "done" /\ UNCHANGED <<cSent, cFault>>
             /\ \E b \in LastGot.body + 1 .. cSent, e \in LastGot.epoch .. MaxEpoch :
                   /\ b = LastGot.body + 1 \/ (cFault # "none" /\ e > LastGot.epoch)
                   /\ hGot' = Append(hGot, [body |-> b, epoch |-> e])
    <3>1. UNCHANGED <<cSent, cFault # "none", hpc # "done">>  BY <2>4
    <3>2. ClientToHost!Deliver  BY <2>1, <2>4, <3>1 DEF ClientToHost!Deliver
    <3>3. QED  BY <3>2 DEF ClientToHost!Next
  <2>5. CASE UNCHANGED <<cSent, hGot, cFault>> /\ hpc' = "done"
    <3>1. ClientToHost!Drop  BY <2>5 DEF ClientToHost!Drop
    <3>2. QED  BY <3>1 DEF ClientToHost!Next
  <2>6. CASE UNCHANGED <<cSent, hGot, cFault>> /\ (hpc' = "done" <=> hpc = "done")
    BY <2>6
  <2>7. QED  BY <2>2, <2>3, <2>4, <2>5, <2>6 DEF RequestStep
<1>3. QED
  BY <1>1, <1>2, FlowHolds, InitClientOrder, StepClientOrder, InitWhole, StepWhole, PTL
  DEF Spec, ClientToHostSpec, ClientToHost!Spec
=============================================================================
