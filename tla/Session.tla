------------------------------ MODULE Session ------------------------------
(***************************************************************************)
(* One established connection, from the end of the handshake to its drop:  *)
(* the client's send path (seal_and_send and the rotation it may start),   *)
(* the client's reader thread, the host's connection thread, and the other *)
(* host threads that send on the connection.  What is kept exactly is the  *)
(* key schedule (keys, epochs, counters, the pending next key), the locks, *)
(* the order of the steps and every way a read or a write can fail.        *)
(*                                                                         *)
(* A key generation is the pair of ephemerals it was derived from; a frame *)
(* authenticates exactly under the key, epoch and counter that sealed it.  *)
(* The body of a Data frame is its position in the order of sealing, so    *)
(* that delivery order can be stated.  Ping, Pong and Bye carry no counter *)
(* and change none of this state, except that a ping whose write fails     *)
(* clears the host's alive, as a failed Publish does.                      *)
(***************************************************************************)
EXTENDS Naturals, Sequences, FiniteSets

CONSTANTS
    Senders,      \* client threads that call get, send, subscribe, write...
    Version,      \* negotiated protocol version: rotation exists from 2 on
    MaxEpoch,     \* largest epoch byte (255)
    BufCap,       \* frames a socket buffer holds before a writer blocks
    WriteTimeout, \* whether a send timeout is set (stream_write_timeout_ms)
    RateLimits,   \* whether the host limits the request rate
    MaxFrames,    \* bound: application frames the client seals
    MaxReplies,   \* bound: frames one request is answered with
    MaxPublish    \* bound: frames sealed by other host threads

ASSUME SessionConstants ==
    /\ Version \in {1, 2}
    /\ MaxEpoch \in Nat /\ BufCap \in Nat \ {0}
    /\ WriteTimeout \in BOOLEAN /\ RateLimits \in BOOLEAN
    /\ MaxFrames \in Nat /\ MaxReplies \in Nat /\ MaxPublish \in Nat

VARIABLES
    c2s, s2c,      \* the two directions of the byte stream, as frames
    cOpen, hOpen,  \* each end's own descriptor is open
    \* ---- client Connection ----
    spc,           \* where each sender is in seal_and_send
    wlock,         \* holder of write_mutex: {} or {s}
    cTx,           \* keys.tx, epoch, tx_counter
    rekeying,      \* rekey_in_progress
    offer,         \* the offering sender's local ephemeral
    pendingEph,    \* pending_eph: {} or {eph}
    cAlive,        \* alive
    cFault,        \* what failed writes left on the wire
    rpc, rWhy,     \* the reader thread, and why it left its loop
    cRx, cPend,    \* rx_key/rx_epoch/rx_counter and rx_pending: {} or {key}
    newKey,        \* keys derived by the reader, not installed yet
    death,         \* death_reason was set by an Error frame
    \* ---- host ConnState and connection thread ----
    hpc, hWhy,     \* the connection thread, and why it left its loop
    hTx, hAlive,   \* tx_key/epoch/tx_counter and alive
    hRx, hPend,    \* as cRx, cPend
    hEph,          \* the client ephemeral of the REKEY being answered
    hLeft,         \* frames the current handler still wants to send
    published,     \* frames sealed by other host threads
    stopping,      \* Host::stop() has begun: running is clear
    \* ---- history ----
    ephs,          \* ephemerals generated so far, on either side
    sealed, seals, \* nonces used, and number of AEAD seal calls
    cSent, hSent,  \* Data frames sealed per side
    hGot, cGot     \* Data frames each side accepted: bodies (and epochs)

chans    == <<c2s, s2c, cOpen, hOpen>>
cSend    == <<spc, wlock, cTx, rekeying, offer, pendingEph, cFault>>
cRead    == <<rpc, rWhy, cRx, cPend, newKey, death>>
hThread  == <<hpc, hWhy, hRx, hPend, hEph, hLeft>>
hSend    == <<hTx, hAlive, published, stopping>>
history  == <<ephs, sealed, seals, cSent, hSent, hGot, cGot>>
vars == <<chans, cSend, cAlive, cRead, hThread, hSend, history>>

-----------------------------------------------------------------------------
(* Frames, keys and the checks every received frame goes through.          *)

Key   == [c : Nat, s : Nat]                    \* the two ephemerals
KeyState == [key : Key, epoch : Nat, ctr : Nat]
Frame == [type : {"Data", "Rekey", "RekeyAck", "Error", "Garbled"},
          key : Key, epoch : Nat, ctr : Nat, body : Nat]
Nonce == [dir : {"c2s", "s2c"}, key : Key, ctr : Nat]

HandshakeKeys == [key |-> [c |-> 0, s |-> 0], epoch |-> 0, ctr |-> 0]

\* RawFrame under the sender's current key state.
Seal(tx, type, body) ==
    [type |-> type, key |-> tx.key, epoch |-> tx.epoch, ctr |-> tx.ctr,
     body |-> body]

\* open_checked: epoch and counter validation, then the AEAD.
Accepts(rx, pend, f) ==
    \/ /\ f.epoch = rx.epoch
       /\ f.ctr = rx.ctr
       /\ f.key = rx.key
    \/ /\ f.epoch # rx.epoch
       /\ f.epoch = (rx.epoch + 1) % (MaxEpoch + 1)
       /\ f.ctr = 0
       /\ f.key \in pend

\* The receive state after an accepted frame: the counter advances, or the
\* first frame of the next epoch installs the pending key.
RxAfter(rx, f) ==
    IF f.epoch = rx.epoch THEN [rx EXCEPT !.ctr = @ + 1]
    ELSE [key |-> f.key, epoch |-> f.epoch, ctr |-> 1]

PendAfter(rx, pend, f) == IF f.epoch = rx.epoch THEN pend ELSE {}

\* A blocking write completes when both ends are open and there is room; it
\* fails on a closed connection, or at the send timeout on a full buffer.
WriteCompletes(chan) == cOpen /\ hOpen /\ Len(chan) < BufCap
WriteFails(chan) ==
    \/ ~cOpen \/ ~hOpen
    \/ WriteTimeout /\ Len(chan) >= BufCap

Init ==
    /\ c2s = <<>> /\ s2c = <<>> /\ cOpen = TRUE /\ hOpen = TRUE
    /\ spc = [s \in Senders |-> "idle"] /\ wlock = {}
    /\ cTx = HandshakeKeys /\ rekeying = FALSE
    /\ offer = 0 /\ pendingEph = {} /\ cAlive = TRUE /\ cFault = "none"
    /\ rpc = "read" /\ rWhy = "none" /\ cRx = HandshakeKeys /\ cPend = {}
    /\ newKey = HandshakeKeys.key /\ death = FALSE
    /\ hpc = "read" /\ hWhy = "none" /\ hTx = HandshakeKeys /\ hAlive = TRUE
    /\ hRx = HandshakeKeys /\ hPend = {} /\ hEph = 0 /\ hLeft = 0
    /\ published = 0 /\ stopping = FALSE
    /\ ephs = 0 /\ sealed = {} /\ seals = 0
    /\ cSent = 0 /\ hSent = 0 /\ hGot = <<>> /\ cGot = <<>>

-----------------------------------------------------------------------------
(* The client's send path.  Everything between Lock and the end of         *)
(* SendFrame happens with write_mutex held.                                *)

\* Mutant: the counter advances only when the write succeeded.
ClientSealCountsSuccess(type, body, ok) ==
    /\ sealed' = sealed \cup {[dir |-> "c2s", key |-> cTx.key, ctr |-> cTx.ctr]}
    /\ seals' = seals + 1
    /\ cTx' = IF ok THEN [cTx EXCEPT !.ctr = @ + 1] ELSE cTx
    /\ \/ /\ ok /\ WriteCompletes(c2s)
          /\ c2s' = Append(c2s, Seal(cTx, type, body))
          /\ UNCHANGED cFault
       \/ /\ ~ok /\ WriteFails(c2s)
          /\ cFault' = "gap"
          /\ UNCHANGED c2s

\* Mutant: a write that finds the buffer full is taken for a success.
ClientSealUnchecked(type, body, ok) ==
    /\ sealed' = sealed \cup {[dir |-> "c2s", key |-> cTx.key, ctr |-> cTx.ctr]}
    /\ seals' = seals + 1
    /\ cTx' = [cTx EXCEPT !.ctr = @ + 1]
    /\ c2s' = IF Len(c2s) < BufCap THEN Append(c2s, Seal(cTx, type, body)) ELSE c2s
    /\ ok /\ cOpen /\ hOpen
    /\ UNCHANGED cFault

\* send_frame_locked: seal, write, bump the counter whether or not the write
\* succeeded.  A write that failed at the send timeout may have put part of
\* the frame on the wire, and whatever is written after a torn frame is
\* misread by the host.
ClientSeal(type, body, ok) ==
    /\ sealed' = sealed \cup {[dir |-> "c2s", key |-> cTx.key, ctr |-> cTx.ctr]}
    /\ seals' = seals + 1
    /\ cTx' = [cTx EXCEPT !.ctr = @ + 1]
    /\ \/ /\ ok /\ WriteCompletes(c2s)
          /\ c2s' = Append(c2s, Seal(cTx, IF cFault = "torn" THEN "Garbled"
                                          ELSE type, body))
          /\ UNCHANGED cFault
       \/ /\ ~ok /\ WriteFails(c2s)
          /\ cFault' \in IF cFault = "torn" THEN {"torn"} ELSE {"gap", "torn"}
          /\ UNCHANGED c2s

\* A caller found the connection alive and heads for write_mutex.
Call(s) ==
    /\ spc[s] = "idle" /\ cAlive
    /\ cSent + Cardinality({t \in Senders : spc[t] # "idle"}) < MaxFrames
    /\ spc' = [spc EXCEPT ![s] = "wait"]
    /\ UNCHANGED <<chans, wlock, cTx, rekeying, offer, pendingEph, cFault,
                   cAlive, cRead, hThread, hSend, history>>

\* Mutant: seal_and_send does not wait for write_mutex.
LockNoWait(s) ==
    /\ spc[s] = "wait"
    /\ wlock' = wlock \cup {s}
    /\ spc' = [spc EXCEPT ![s] = "locked"]
    /\ UNCHANGED <<chans, cTx, rekeying, offer, pendingEph, cFault, cAlive,
                   cRead, hThread, hSend, history>>

Lock(s) ==
    /\ spc[s] = "wait" /\ wlock = {}
    /\ wlock' = {s}
    /\ spc' = [spc EXCEPT ![s] = "locked"]
    /\ UNCHANGED <<chans, cTx, rekeying, offer, pendingEph, cFault, cAlive,
                   cRead, hThread, hSend, history>>

\* Mutant: the epoch byte is never checked for exhaustion.
MayRotateUnbounded == Version >= 2 /\ ~rekeying

\* The early returns of maybe_begin_rekey_locked.
MayRotate == Version >= 2 /\ ~rekeying /\ cTx.epoch < MaxEpoch

\* The rotation policy is not due (or rotation is not possible): the interval
\* timer and the byte count may or may not have run out at any call.
NotDue(s) ==
    /\ spc[s] = "locked"
    /\ spc' = [spc EXCEPT ![s] = "frame"]
    /\ UNCHANGED <<chans, wlock, cTx, rekeying, offer, pendingEph, cFault,
                   cAlive, cRead, hThread, hSend, history>>

\* Rotation is due: a fresh ephemeral goes out in a REKEY frame.  On a failed
\* write maybe_begin_rekey_locked just returns.
BeginRekey(s) ==
    /\ spc[s] = "locked" /\ MayRotate
    /\ ephs' = ephs + 1
    /\ \E ok \in BOOLEAN :
          /\ ClientSeal("Rekey", ephs + 1, ok)
          /\ offer' = IF ok THEN ephs + 1 ELSE offer
          /\ spc' = [spc EXCEPT ![s] = IF ok THEN "offered" ELSE "frame"]
    /\ UNCHANGED <<s2c, cOpen, hOpen, wlock, rekeying, pendingEph, cAlive,
                   cRead, hThread, hSend, cSent, hSent, hGot, cGot>>

\* Only now does the reader get to see the ephemeral it was offered with.
StoreEph(s) ==
    /\ spc[s] = "offered"
    /\ pendingEph' = {offer}
    /\ rekeying' = TRUE
    /\ spc' = [spc EXCEPT ![s] = "frame"]
    /\ UNCHANGED <<chans, wlock, cTx, offer, cFault, cAlive, cRead, hThread,
                   hSend, history>>

\* The caller's own frame; its result is returned to the caller, and a
\* failure leaves alive as it was.
SendFrame(s) ==
    /\ spc[s] = "frame"
    /\ cSent' = cSent + 1
    /\ \E ok \in BOOLEAN : ClientSeal("Data", cSent + 1, ok)
    /\ wlock' = {}
    /\ spc' = [spc EXCEPT ![s] = "idle"]
    /\ UNCHANGED <<s2c, cOpen, hOpen, rekeying, offer, pendingEph, cAlive,
                   cRead, hThread, hSend, ephs, hSent, hGot, cGot>>

\* close_connection: what disconnect() and ~Client do to an open connection.
Disconnect ==
    /\ cOpen
    /\ cAlive' = FALSE /\ cOpen' = FALSE
    /\ UNCHANGED <<c2s, s2c, hOpen, cSend, cRead, hThread, hSend, history>>

-----------------------------------------------------------------------------
(* The client's reader thread.                                             *)

\* Leaving reader_loop marks the connection dead; it does not close it.
ReaderExit(why) == rpc' = "done" /\ rWhy' = why /\ cAlive' = FALSE

\* One frame read by reader_loop, when alive was still set before the read,
\* and open_checked on it.
ReaderTakes == rpc = "read" /\ cAlive /\ cOpen /\ s2c # <<>> /\ s2c' = Tail(s2c)

ReaderOpens ==
    /\ Accepts(cRx, cPend, Head(s2c))
    /\ cRx' = RxAfter(cRx, Head(s2c))
    /\ cPend' = PendAfter(cRx, cPend, Head(s2c))

ReaderLeaves == <<c2s, cOpen, hOpen, spc, wlock, cTx, rekeying, offer, cFault,
                  hThread, hSend, ephs, sealed, seals, cSent, hSent, hGot>>

\* Response and StreamChunk frames; what becomes of them is not modelled here.
ReaderData ==
    /\ ReaderTakes /\ ReaderOpens /\ Head(s2c).type = "Data"
    /\ cGot' = Append(cGot, Head(s2c).body)
    /\ UNCHANGED <<rpc, rWhy, cAlive, pendingEph, newKey, death, ReaderLeaves>>

\* The frames that end the loop: an Error, and any that fails open_checked.
ReaderBreaks ==
    /\ ReaderTakes
    /\ IF Accepts(cRx, cPend, Head(s2c))
       THEN /\ ReaderOpens /\ Head(s2c).type = "Error"
            /\ death' = TRUE
            /\ ReaderExit("error")
       ELSE /\ ReaderExit("bad")
            /\ UNCHANGED <<cRx, cPend, death>>
    /\ UNCHANGED <<pendingEph, newKey, cGot, ReaderLeaves>>

\* The first half of the RekeyAck handler: pending_eph is taken under
\* rekey_mutex and the new keys derived, or the ack is one nobody asked for.
ReaderAck ==
    /\ ReaderTakes /\ ReaderOpens /\ Head(s2c).type = "RekeyAck"
    /\ \/ /\ pendingEph = {}
          /\ ReaderExit("unsolicited")
          /\ UNCHANGED newKey
       \/ /\ \E e \in pendingEph : newKey' = [c |-> e, s |-> Head(s2c).body]
          /\ rpc' = "switch"
          /\ UNCHANGED <<rWhy, cAlive>>
    /\ pendingEph' = {}
    /\ UNCHANGED <<death, cGot, ReaderLeaves>>

\* Mutant: the epoch and the counter move on, the old key stays.
InstallKeepsKey == cTx' = [key |-> cTx.key, epoch |-> cTx.epoch + 1, ctr |-> 0]

\* The key switch of the RekeyAck handler.
InstallTx == cTx' = [key |-> newKey, epoch |-> cTx.epoch + 1, ctr |-> 0]

\* Mutant: rekey_in_progress is not cleared.
ReaderSwitchStuck ==
    /\ rpc = "switch" /\ wlock = {}
    /\ InstallTx
    /\ cPend' = {newKey} /\ rpc' = "read"
    /\ UNCHANGED <<rekeying, chans, spc, wlock, offer, pendingEph, cFault,
                   cAlive, rWhy, cRx, newKey, death, hThread, hSend, history>>

\* The second half of the RekeyAck handler waits for write_mutex.
ReaderSwitch ==
    /\ rpc = "switch" /\ wlock = {}
    /\ InstallTx
    /\ rekeying' = FALSE
    /\ cPend' = {newKey} /\ rpc' = "read"
    /\ UNCHANGED <<chans, spc, wlock, offer, pendingEph, cFault, cAlive, rWhy,
                   cRx, newKey, death, hThread, hSend, history>>

\* Mutant: the reader gives up as soon as the peer closed, unread frames or not.
ReaderEofEarly ==
    /\ rpc = "read"
    /\ ~cAlive \/ ~cOpen \/ ~hOpen
    /\ ReaderExit("eof")
    /\ UNCHANGED <<chans, cSend, cRx, cPend, newKey, death, hThread, hSend,
                   history>>

\* alive is clear, our end was closed, or the peer's end was and everything
\* it wrote has been read.
ReaderEof ==
    /\ rpc = "read"
    /\ ~cAlive \/ ~cOpen \/ (~hOpen /\ s2c = <<>>)
    /\ ReaderExit("eof")
    /\ UNCHANGED <<chans, cSend, cRx, cPend, newKey, death, hThread, hSend,
                   history>>

-----------------------------------------------------------------------------
(* The host.  A host thread that blocks in a write holds tx_mutex, and any *)
(* other sender would block on the same full buffer, so tx_mutex needs no  *)
(* variable of its own: a send is one step, taken when the write returns.  *)

\* Mutant: a failed write neither kills the connection nor counts.
HostSealForgiving(type, body, ok) ==
    /\ sealed' = sealed \cup {[dir |-> "s2c", key |-> hTx.key, ctr |-> hTx.ctr]}
    /\ seals' = seals + 1
    /\ \/ /\ ok /\ WriteCompletes(s2c)
          /\ s2c' = Append(s2c, Seal(hTx, type, body))
          /\ hTx' = [hTx EXCEPT !.ctr = @ + 1]
          /\ UNCHANGED hAlive
       \/ /\ ~ok /\ WriteFails(s2c)
          /\ UNCHANGED <<s2c, hAlive, hTx>>

\* The body of ConnState::send_sealed once alive was found set.
HostSeal(type, body, ok) ==
    /\ sealed' = sealed \cup {[dir |-> "s2c", key |-> hTx.key, ctr |-> hTx.ctr]}
    /\ seals' = seals + 1
    /\ hTx' = [hTx EXCEPT !.ctr = @ + 1]
    /\ \/ /\ ok /\ WriteCompletes(s2c)
          /\ s2c' = Append(s2c, Seal(hTx, type, body))
          /\ UNCHANGED hAlive
       \/ /\ ~ok /\ WriteFails(s2c)
          /\ hAlive' = FALSE
          /\ UNCHANGED s2c

\* Leaving handle_connection's loop: not alive any more, transport closed.
HostExit(why) == hpc' = "done" /\ hWhy' = why /\ hAlive' = FALSE /\ hOpen' = FALSE

HostStays(pc) == hpc' = pc /\ UNCHANGED <<hWhy, hAlive, hOpen>>

\* One frame read by handle_connection, and open_checked on it.  The loop
\* head's test of running is in HostEof: a thread that already sits in the
\* read takes a frame after stop() began (the model lets it take more).
HostTakes == hpc = "read" /\ hOpen /\ c2s # <<>> /\ c2s' = Tail(c2s)

HostOpens ==
    /\ Head(c2s).type # "Garbled"
    /\ Accepts(hRx, hPend, Head(c2s))
    /\ hRx' = RxAfter(hRx, Head(c2s))
    /\ hPend' = PendAfter(hRx, hPend, Head(c2s))

HostLeaves == <<s2c, cOpen, cSend, cAlive, cRead, hTx, published, stopping, ephs,
                sealed, seals, cSent, hSent, cGot>>

\* What follows a torn frame has a wrong length, type or body: it fails a
\* check, or (HostSkip) its type is one the loop passes over.
HostBad ==
    /\ HostTakes
    /\ Head(c2s).type = "Garbled" \/ ~Accepts(hRx, hPend, Head(c2s))
    /\ HostExit("bad")
    /\ UNCHANGED <<hRx, hPend, hEph, hLeft, hGot, HostLeaves>>

HostSkip ==
    /\ HostTakes /\ Head(c2s).type = "Garbled"
    /\ HostStays("read")
    /\ UNCHANGED <<hRx, hPend, hEph, hLeft, hGot, HostLeaves>>

HostRekey ==
    /\ HostTakes /\ HostOpens /\ Head(c2s).type = "Rekey"
    /\ IF hTx.epoch >= MaxEpoch THEN HostExit("exhausted") /\ UNCHANGED hEph
       ELSE HostStays("ack") /\ hEph' = Head(c2s).body
    /\ UNCHANGED <<hLeft, hGot, HostLeaves>>

\* A Request (or inbound StreamChunk): the rate limiter cuts the peer off, or
\* the handler answers with some number of frames, none for a oneway request.
HostData ==
    /\ HostTakes /\ HostOpens /\ Head(c2s).type = "Data"
    /\ hGot' = Append(hGot, [body |-> Head(c2s).body, epoch |-> Head(c2s).epoch])
    /\ \/ HostStays("reply") /\ hLeft' \in 0..MaxReplies
       \/ RateLimits /\ HostStays("limit") /\ UNCHANGED hLeft
    /\ UNCHANGED <<hEph, HostLeaves>>

\* Mutant: tx is switched before the ack is sealed.
HostAckSwitchFirst ==
    /\ hpc = "ack" /\ hAlive /\ WriteCompletes(s2c)
    /\ ephs' = ephs + 1
    /\ LET tx == [key |-> [c |-> hEph, s |-> ephs + 1],
                  epoch |-> hTx.epoch + 1, ctr |-> 0]
       IN  /\ sealed' = sealed \cup {[dir |-> "s2c", key |-> tx.key, ctr |-> 0]}
           /\ s2c' = Append(s2c, Seal(tx, "RekeyAck", ephs + 1))
           /\ hTx' = [tx EXCEPT !.ctr = 1]
           /\ hPend' = {tx.key}
    /\ seals' = seals + 1
    /\ HostStays("read")
    /\ UNCHANGED <<c2s, cOpen, cSend, cAlive, cRead, hRx, hEph, hLeft,
                   published, stopping, cSent, hSent, hGot, cGot>>

\* send_rekey_ack_and_switch: the ack goes out under the current key and the
\* same tx_mutex hold installs the new one; then rx_pending is armed.
HostAck ==
    /\ hpc = "ack" /\ hAlive /\ WriteCompletes(s2c)
    /\ ephs' = ephs + 1
    /\ sealed' = sealed \cup {[dir |-> "s2c", key |-> hTx.key, ctr |-> hTx.ctr]}
    /\ seals' = seals + 1
    /\ s2c' = Append(s2c, Seal(hTx, "RekeyAck", ephs + 1))
    /\ LET k == [c |-> hEph, s |-> ephs + 1]
       IN  /\ hTx' = [key |-> k, epoch |-> hTx.epoch + 1, ctr |-> 0]
           /\ hPend' = {k}
    /\ HostStays("read")
    /\ UNCHANGED <<c2s, cOpen, cSend, cAlive, cRead, hRx, hEph, hLeft,
                   published, stopping, cSent, hSent, hGot, cGot>>

\* The ack cannot be sent: the ack was sealed and its write failed (the
\* counter stays where it was), or an earlier send already cleared alive.
HostAckFails ==
    /\ hpc = "ack"
    /\ ephs' = ephs + 1
    /\ \/ /\ hAlive /\ WriteFails(s2c)
          /\ sealed' = sealed \cup
                       {[dir |-> "s2c", key |-> hTx.key, ctr |-> hTx.ctr]}
          /\ seals' = seals + 1
       \/ /\ ~hAlive
          /\ UNCHANGED <<sealed, seals>>
    /\ HostExit("ackfail")
    /\ UNCHANGED <<c2s, s2c, cOpen, cSend, cAlive, cRead, hTx, hRx, hPend,
                   hEph, hLeft, published, stopping, cSent, hSent, hGot, cGot>>

\* The handler's next response or chunk, a silent no-op once not alive.
HostReply ==
    /\ hpc = "reply" /\ hLeft > 0
    /\ hLeft' = hLeft - 1
    /\ \/ /\ hAlive
          /\ \E ok \in BOOLEAN : HostSeal("Data", hSent + 1, ok)
          /\ hSent' = hSent + 1
       \/ /\ ~hAlive
          /\ UNCHANGED <<s2c, sealed, seals, hTx, hAlive, hSent>>
    /\ UNCHANGED <<c2s, cOpen, hOpen, cSend, cAlive, cRead, hpc, hWhy, hRx,
                   hPend, hEph, published, stopping, ephs, cSent, hGot, cGot>>

\* The handler returned; the loop reads on.
HostReplied ==
    /\ hpc = "reply" /\ hLeft = 0
    /\ HostStays("read")
    /\ UNCHANGED <<c2s, s2c, cOpen, cSend, cAlive, cRead, hRx, hPend, hEph,
                   hLeft, hTx, published, stopping, history>>

\* The peer stayed saturated: one Error frame, then the loop is left.
HostLimit ==
    /\ hpc = "limit"
    /\ \/ /\ hAlive
          /\ \E ok \in BOOLEAN :
                /\ HostSeal("Error", 0, ok)
                /\ hpc' = IF ok THEN "told" ELSE "untold"
       \/ /\ ~hAlive
          /\ hpc' = "untold"
          /\ UNCHANGED <<s2c, sealed, seals, hTx, hAlive>>
    /\ UNCHANGED <<c2s, cOpen, hOpen, cSend, cAlive, cRead, hWhy, hRx, hPend,
                   hEph, hLeft, published, stopping, ephs, cSent, hSent, hGot, cGot>>

HostLimitClose ==
    /\ hpc \in {"told", "untold"}
    /\ HostExit(hpc)
    /\ UNCHANGED <<c2s, s2c, cOpen, cSend, cAlive, cRead, hRx, hPend, hEph,
                   hLeft, hTx, published, stopping, history>>

\* Back at the loop head with running clear, or the read fails.
HostEof ==
    /\ hpc = "read"
    /\ stopping \/ ~hOpen \/ (~cOpen /\ c2s = <<>>)
    /\ HostExit("eof")
    /\ UNCHANGED <<c2s, s2c, cOpen, cSend, cAlive, cRead, hRx, hPend, hEph,
                   hLeft, hTx, published, stopping, history>>

\* TopicHandle::publish (or close_all) on some other host thread.
Publish ==
    /\ hAlive /\ published < MaxPublish
    /\ published' = published + 1
    /\ \E ok \in BOOLEAN : HostSeal("Data", hSent + 1, ok)
    /\ hSent' = hSent + 1
    /\ UNCHANGED <<c2s, cOpen, hOpen, cSend, cAlive, cRead, hThread, stopping,
                   ephs, cSent, hGot, cGot>>

\* Host::stop(): running is cleared first, the connections are closed later.
StopBegins ==
    /\ ~stopping
    /\ stopping' = TRUE
    /\ UNCHANGED <<chans, cSend, cAlive, cRead, hThread, hTx, hAlive, published,
                   history>>

StopCloses ==
    /\ stopping /\ hOpen
    /\ hOpen' = FALSE
    /\ UNCHANGED <<c2s, s2c, cOpen, cSend, cAlive, cRead, hThread, hSend,
                   history>>

-----------------------------------------------------------------------------
SenderStep(s) == Lock(s) \/ NotDue(s) \/ BeginRekey(s) \/ StoreEph(s) \/ SendFrame(s)
ReaderStep ==
    ReaderBreaks \/ ReaderData \/ ReaderAck \/ ReaderSwitch \/ ReaderEof
HostStep ==
    \/ HostBad \/ HostSkip \/ HostRekey \/ HostData \/ HostAck \/ HostAckFails
    \/ HostReply \/ HostReplied \/ HostLimit \/ HostLimitClose \/ HostEof

Next ==
    \/ \E s \in Senders : Call(s) \/ SenderStep(s)
    \/ ReaderStep
    \/ HostStep
    \/ Publish
    \/ Disconnect
    \/ StopBegins
    \/ StopCloses

Spec == Init /\ [][Next]_vars

\* Every thread keeps running: a call that entered seal_and_send goes on, the
\* reader and the connection thread are scheduled.  Nothing obliges anybody to
\* call, publish, disconnect or stop.
Fairness ==
    /\ \A s \in Senders : WF_vars(SenderStep(s))
    /\ WF_vars(ReaderStep)
    /\ WF_vars(HostStep)

FairSpec == Spec /\ Fairness

-----------------------------------------------------------------------------
(* Properties.                                                             *)

ChansOK == /\ c2s \in Seq(Frame) /\ s2c \in Seq(Frame)
           /\ cOpen \in BOOLEAN /\ hOpen \in BOOLEAN

CSendOK == /\ spc \in [Senders -> {"idle", "wait", "locked", "offered", "frame"}]
           /\ wlock \in SUBSET Senders /\ \A s, t \in wlock : s = t
           /\ cTx \in KeyState /\ rekeying \in BOOLEAN
           /\ offer \in Nat /\ pendingEph \in SUBSET Nat
           /\ cFault \in {"none", "gap", "torn"}

CReadOK == /\ rpc \in {"read", "switch", "done"}
           /\ rWhy \in {"none", "bad", "error", "unsolicited", "eof"}
           /\ cRx \in KeyState /\ cPend \in SUBSET Key
           /\ newKey \in Key /\ death \in BOOLEAN

HThreadOK == /\ hpc \in {"read", "ack", "reply", "limit", "told", "untold", "done"}
             /\ hWhy \in {"none", "bad", "exhausted", "ackfail", "told", "untold",
                          "eof"}
             /\ hRx \in KeyState /\ hPend \in SUBSET Key
             /\ hEph \in Nat /\ hLeft \in Nat

HSendOK == /\ hTx \in KeyState /\ hAlive \in BOOLEAN
           /\ published \in Nat /\ stopping \in BOOLEAN

HistoryOK == /\ ephs \in Nat /\ sealed \in SUBSET Nonce /\ seals \in Nat
             /\ cSent \in Nat /\ hSent \in Nat
             /\ hGot \in Seq([body : Nat, epoch : Nat]) /\ cGot \in Seq(Nat)

\* Types: key states of both ends, frames in flight, optional values; and
\* write_mutex has one holder.
TypeOK == /\ ChansOK /\ CSendOK /\ cAlive \in BOOLEAN /\ CReadOK
          /\ HThreadOK /\ HSendOK /\ HistoryOK

\* No AEAD nonce is ever used twice under one key, in either direction, across
\* rotations, failed writes, torn frames and failed acks: every call of
\* seal_v2 used a (key, counter) pair of its own.
NonceUnique == IsFiniteSet(sealed) /\ Cardinality(sealed) = seals

\* A frame that was written by an honest sender passes open_checked when it is
\* read: both rotation switches stay in step with the frames in flight.  On
\* the client's side this needs that none of its writes failed; a host
\* connection writes nothing after a failed write.
HonestFramesAccepted ==
    /\ c2s # <<>> /\ cFault = "none" => Accepts(hRx, hPend, Head(c2s))
    /\ s2c # <<>> /\ rpc = "read" => Accepts(cRx, cPend, Head(s2c))

\* An honest, fault-free client is never cut off for a bad frame, nor because
\* the epoch byte ran out; the client never sees a bad frame from the host.
DropsAreJustified ==
    /\ hWhy = "bad" => cFault # "none"
    /\ hWhy # "exhausted"
    /\ rWhy # "bad"

\* Two ends that count the same epoch hold the same key for each direction,
\* and the host is never more than one rotation ahead of the client.
KeysAgree ==
    /\ hTx.epoch \in {cTx.epoch, cTx.epoch + 1}
    /\ cTx.epoch = hTx.epoch => cTx.key = hTx.key
    /\ cTx.epoch = hRx.epoch => cTx.key = hRx.key
    /\ hTx.epoch = cRx.epoch => hTx.key = cRx.key

\* When the host's rate limiter wrote its Error frame before closing, a client
\* that did not close the connection itself learns the reason, unless its
\* reader had to give up for an unsolicited ack.
ReasonDelivered ==
    hWhy = "told" /\ rpc = "done" /\ cOpen /\ rWhy # "unsolicited" => death

\* A rotation that was begun (client.cpp:108) completes at its ack
\* (client.cpp:230), unless the reader finds the connection dead or a write of
\* the client has failed.
RotationSettles == rekeying ~> (~rekeying \/ ~cAlive \/ cFault # "none")

\* An ack the client asked for is not treated as unsolicited.
AckIsSolicited == rWhy # "unsolicited"

\* The reader never waits for write_mutex while its holder waits for the host
\* to read and the host waits for the reader to read.
NoWaitCycle ==
    ~ /\ rpc = "switch" /\ Len(s2c) >= BufCap /\ hpc \in {"ack", "reply", "limit"}
      /\ (hpc = "reply" => hLeft > 0)
      /\ Len(c2s) >= BufCap /\ \E s \in Senders : wlock = {s} /\ spc[s] = "frame"
      /\ cOpen /\ hOpen /\ hAlive /\ ~WriteTimeout

\* The host-to-client direction as an abstract FIFO channel.
HostToClient == INSTANCE SecureChannel WITH
    sent <- [i \in 1..hSent |-> i], got <- cGot, up <- rpc # "done"

\* What the client's reader gets is a prefix of what the host sealed, in order
\* and without a gap, whatever writes failed and however often keys rotated.
HostToClientSpec == HostToClient!Spec

\* The client-to-host direction as a channel that may lose messages.
ClientToHost == INSTANCE LossyChannel WITH
    LastEpoch <- MaxEpoch, sent <- cSent, got <- hGot, fault <- cFault # "none",
    up <- hpc # "done"

\* What the connection thread takes is what the client sealed, in order and each
\* frame once; without a failed write none is missing, however often keys
\* rotated, and after one frames are missing only where an epoch ends.
ClientToHostSpec == ClientToHost!Spec
=============================================================================
