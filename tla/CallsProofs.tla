---------------------------- MODULE CallsProofs ----------------------------
(***************************************************************************)
(* Proofs about the calls that share a connection: no slot is left behind, *)
(* nothing follows a last callback, at most one callback comes late, and a *)
(* get_stream() that succeeds has been passed everything.  For every set   *)
(* of calls, any number of chunks and publications and any limit.          *)
(*                                                                         *)
(* The reader makes its callbacks with no mutex held, so the sink tables   *)
(* and the callers move on while a callback is due.  Reader and Slots say  *)
(* what the reader may then still hold, Wire that the host is done with a  *)
(* stream when its last chunk is written, and Track counts the chunks of a *)
(* stream from the host's handler to the callback.                         *)
(***************************************************************************)
EXTENDS Calls, FiniteSetTheorems, TLAPS

Places == {"idle", "found", "send", "unsent", "check", "asleep", "loop", "live", "erase", "tell", "over"}
Results == {"none", "ok", "error", "unsubscribed"}
Request == [kind : {"call", "unsub", "torn"}, id : Ids]
Message == [kind : {"chunk", "response", "error"}, id : Ids, last : BOOLEAN]
Callback == [id : Streams \cup Subs, last : BOOLEAN]

\* The reader has looked up a callback of c and not made it yet.
Due(c) == rpc \in {"call", "refused", "closing"} /\ \E r \in rcb : r.id = c
LastDue(c) == rpc \in {"call", "refused", "closing"} /\ \E r \in rcb : r.id = c /\ r.last

\* The reader has made the last callback of c and not erased its sink yet.
Called(c) == rpc = "called" /\ \E r \in rcb : r.id = c

\* The last callback of c has been made.
Ended(c) == Len(log[c]) > 0 /\ log[c][Len(log[c])] = "last"

Types ==
    /\ TypeOK
    /\ c2s \in Seq(Request) /\ s2c \in Seq(Message)
    /\ log \in [Ids -> Seq({"msg", "last"})] /\ late \in [Ids -> Nat] /\ chunks \in [Ids -> Nat]
    /\ rcb \subseteq Callback /\ hcur \subseteq Streams /\ hleft \in Nat
    /\ published \in Nat /\ IsFiniteSet(topic)

\* What the reader holds, by where it is.
Reader ==
    /\ rpc \in {"head", "read", "wakeGets", "sweep", "gone"} => rcb = {}
    /\ rpc = "call" => \E r \in Callback : rcb = {r}
    /\ rpc = "called" => rcb = {} \/ \E r \in Callback : rcb = {r} /\ r.last
    /\ rpc = "refused" => \E r \in Callback : rcb = {r}
    /\ rpc \in {"refused", "closing"} =>
          \A r \in rcb : r.last /\ r.id \in Subs /\ r.id \notin sinks

\* A call, its slot, and what the reader still holds of it.
SlotOf(c) ==
    /\ pc[c] \in {"idle", "found"} =>
          /\ c \notin sinks \cup pending \cup done /\ Len(log[c]) = 0 /\ late[c] = 0
          /\ \A r \in rcb : r.id # c
    /\ c \in Streams /\ pc[c] \notin {"idle", "found", "over"} => c \in sinks
    /\ pc[c] = "loop" => c \in Streams
    /\ pc[c] \in {"check", "asleep"} => c \in Gets \cup Streams
    /\ pc[c] \in {"live", "erase", "tell"} => c \in Subs
    /\ pc[c] = "tell" => c \notin sinks
    /\ Over(c) => c \notin pending /\ (c \in sinks => c \in Subs /\ Called(c))
    /\ c \in Subs /\ pc[c] \in {"send", "unsent", "live"} /\ c \notin active => Ended(c)
    /\ c \in Subs /\ Ended(c) => (c \in sinks => Called(c))
    /\ Called(c) => Ended(c)

Slots == \A c \in Ids : SlotOf(c)

\* Each callback is made at most once more after its call is over, and none
\* after the last.
CallbackOf(c) ==
    /\ \A i \in DOMAIN log[c] : log[c][i] = "last" => i = Len(log[c])
    /\ Due(c) => ~Ended(c)
    /\ late[c] <= 1
    /\ late[c] = 1 => Over(c) /\ ~Due(c)

Callbacks == \A c \in Ids : CallbackOf(c)

Requested(c) == \E i \in DOMAIN c2s : c2s[i].kind = "call" /\ c2s[i].id = c
Unasked(c) == pc[c] \in {"idle", "found", "send", "unsent"}
IsChunk(f, c) == f.kind = "chunk" /\ f.id = c

\* The reader has taken the last chunk of stream c.
Finished(c) == LastDue(c) \/ Ended(c)

\* A request is sent once.
Sent ==
    /\ \A i, j \in DOMAIN c2s :
          c2s[i].kind = "call" /\ c2s[j].kind = "call" /\ c2s[i].id = c2s[j].id => i = j
    /\ \A c \in Ids : Unasked(c) => ~Requested(c)

\* A stream is served once: not begun, at the host's handler, its last chunk on
\* the way, finished.
WireOf(c) ==
    /\ Unasked(c) \/ Requested(c) =>
          /\ c \notin hcur /\ chunks[c] = 0 /\ ~Finished(c)
          /\ \A i \in DOMAIN s2c : ~IsChunk(s2c[i], c)
    /\ c \in hcur => /\ ~Finished(c)
                     /\ \A i \in DOMAIN s2c : IsChunk(s2c[i], c) => ~s2c[i].last
    /\ \A i \in DOMAIN s2c : IsChunk(s2c[i], c) =>
          /\ ~Finished(c)
          /\ s2c[i].last => \A j \in DOMAIN s2c : IsChunk(s2c[j], c) => j <= i

\* The reader has not left its loop.
Reading == rpc \in {"head", "read", "call", "called", "refused"}

One(b) == IF b THEN 1 ELSE 0

\* The chunks of c the reader has taken for its callback.
Passed(c) == Len(log[c]) + One(Due(c))

\* d[i] chunks of stream c were written before the i-th frame in flight.
Passes(c, d) ==
    /\ d[1] = Passed(c)
    /\ \A i \in DOMAIN s2c : d[i + 1] = d[i] + One(IsChunk(s2c[i], c))
    /\ \A i \in DOMAIN s2c : IsChunk(s2c[i], c) /\ s2c[i].last =>
          \A j \in i + 1 .. Len(s2c) + 1 : d[j] = chunks[c]
    /\ Up => d[Len(s2c) + 1] = chunks[c]

TrackOf(c) ==
    /\ Reading /\ ~Over(c) => \E d \in [1 .. Len(s2c) + 1 -> 0 .. chunks[c]] : Passes(c, d)
    /\ Finished(c) => Passed(c) = chunks[c]
    /\ c \in done \ failed \/ result[c] = "ok" => Finished(c)

Wire == Sent /\ \A c \in Streams : WireOf(c)
Track == \A c \in Streams : TrackOf(c)

Inv == Types /\ Reader /\ Slots /\ Callbacks /\ Wire /\ Track

-----------------------------------------------------------------------------
(* Frames: what a step that leaves a part of the state alone preserves.    *)

\* The elements of a sequence over S are in S.
LEMMA ElementsOf ==
    ASSUME NEW S, NEW q \in Seq(S) PROVE \A i \in DOMAIN q : q[i] \in S
OBVIOUS

\* A step that leaves the reader, the callbacks made and the slots of other
\* calls alone preserves what is said of the reader and of those calls.
LEMMA CallFrame ==
    ASSUME Inv, NEW c \in Ids, UNCHANGED <<rpc, rcb, log, late>>,
           \A e \in Ids : e # c =>
              /\ pc'[e] = pc[e]
              /\ e \in sinks' <=> e \in sinks
              /\ e \in pending' <=> e \in pending
              /\ e \in done' <=> e \in done
              /\ e \in active' <=> e \in active,
           \A r \in rcb : r.id \in sinks' => r.id \in sinks,
           Over(c) => Over(c)', SlotOf(c)'
    PROVE  Reader' /\ Slots' /\ Callbacks'
<1>1. Reader'
  BY DEF Inv, Reader
<1>2. \A e \in Ids : e # c => SlotOf(e)'
  BY DEF Inv, Slots, SlotOf, Over, Called, Ended
<1>3. \A e \in Ids : Over(e) => Over(e)'
  BY DEF Over
<1>4. Callbacks'
  BY <1>3 DEF Inv, Callbacks, CallbackOf, Due, Ended
<1> QED BY <1>1, <1>2, <1>4 DEF Slots

\* A step that leaves the frames to the client alone, and does not undo what
\* the reader has taken, preserves the count of a stream's chunks.
LEMMA TrackFrame ==
    ASSUME Inv, UNCHANGED <<s2c, chunks>>, Up' => Up, Reading' => Reading,
           \A c \in Streams :
              /\ Over(c) => Over(c)'
              /\ Finished(c)' <=> Finished(c)
              /\ Passed(c)' = Passed(c)
              /\ c \in done' \ failed' => c \in done \ failed
              /\ result'[c] = "ok" => result[c] = "ok" \/ c \in done \ failed
    PROVE  Track'
<1>3. ASSUME NEW c \in Streams PROVE TrackOf(c)'
  <2>1. TrackOf(c)
    BY DEF Inv, Track
  <2>2. ASSUME Reading', ~Over(c)'
        PROVE  \E d \in [1 .. Len(s2c') + 1 -> 0 .. chunks'[c]] : Passes(c, d)'
    <3>1. PICK d \in [1 .. Len(s2c) + 1 -> 0 .. chunks[c]] : Passes(c, d)
      BY <2>1, <2>2 DEF TrackOf
    <3>2. Passes(c, d)'
      BY <3>1 DEF Passes
    <3> QED BY <3>2
  <2>3. Finished(c)' => Passed(c)' = chunks'[c]
    BY <2>1 DEF TrackOf
  <2>4. c \in done' \ failed' \/ result'[c] = "ok" => Finished(c)'
    BY <2>1 DEF TrackOf
  <2> QED BY <2>2, <2>3, <2>4 DEF TrackOf
<1> QED BY <1>3 DEF Track

\* The same for a step that leaves the requests and the handler alone too.
LEMMA StreamFrame ==
    ASSUME Inv, UNCHANGED <<c2s, s2c, hcur, chunks>>, Up' => Up, Reading' => Reading,
           \A c \in Ids : Unasked(c)' => Unasked(c),
           \A c \in Streams :
              /\ Over(c) => Over(c)'
              /\ Finished(c)' <=> Finished(c)
              /\ Passed(c)' = Passed(c)
              /\ c \in done' \ failed' => c \in done \ failed
              /\ result'[c] = "ok" => result[c] = "ok" \/ c \in done \ failed
    PROVE  Wire' /\ Track'
<1>1. Sent'
  BY DEF Inv, Wire, Sent, Requested
<1>2. ASSUME NEW c \in Streams PROVE WireOf(c)'
  <2>1. WireOf(c) /\ c \in Ids
    BY DEF Inv, Wire, Ids
  <2>2. (Unasked(c)' => Unasked(c)) /\ (Requested(c)' <=> Requested(c)) /\ (Finished(c)' <=> Finished(c))
    BY <2>1 DEF Requested
  <2> QED BY <2>1, <2>2 DEF WireOf
<1>3. Track'
  BY TrackFrame
<1> QED BY <1>1, <1>2, <1>3 DEF Wire

\* What a request that is written, or read, changes of the requests in flight.
LEMMA RequestAppended ==
    ASSUME c2s \in Seq(Request), NEW r \in Request, c2s' = Append(c2s, r)
    PROVE  /\ c2s' \in Seq(Request)
           /\ \A e \in Ids : Requested(e)' <=> Requested(e) \/ (r.kind = "call" /\ r.id = e)
           /\ Sent /\ (r.kind = "call" => ~Requested(r.id)) =>
                 \A i, j \in DOMAIN c2s' :
                    c2s'[i].kind = "call" /\ c2s'[j].kind = "call" /\ c2s'[i].id = c2s'[j].id => i = j
<1>1. /\ c2s' \in Seq(Request) /\ Len(c2s') = Len(c2s) + 1
      /\ DOMAIN c2s = 1 .. Len(c2s) /\ DOMAIN c2s' = 1 .. Len(c2s) + 1
      /\ \A i \in 1 .. Len(c2s) : c2s'[i] = c2s[i]
      /\ c2s'[Len(c2s) + 1] = r /\ Len(c2s) \in Nat
  OBVIOUS
<1>2. \A i \in 1 .. Len(c2s) + 1 : i \in 1 .. Len(c2s) \/ i = Len(c2s) + 1
  BY <1>1
<1>3. \A e \in Ids : Requested(e)' <=> Requested(e) \/ (r.kind = "call" /\ r.id = e)
  <2> TAKE e \in Ids
  <2>1. Requested(e)' => Requested(e) \/ (r.kind = "call" /\ r.id = e)
    BY <1>1, <1>2 DEF Requested
  <2>2. Requested(e) => Requested(e)'
    BY <1>1, <1>2 DEF Requested
  <2>3. r.kind = "call" /\ r.id = e => Requested(e)'
    <3>1. Len(c2s) + 1 \in DOMAIN c2s'
      BY <1>1
    <3> QED BY <1>1, <3>1 DEF Requested
  <2> QED BY <2>1, <2>2, <2>3
<1>4. ASSUME Sent, r.kind = "call" => ~Requested(r.id)
      PROVE  \A i, j \in DOMAIN c2s' :
                c2s'[i].kind = "call" /\ c2s'[j].kind = "call" /\ c2s'[i].id = c2s'[j].id => i = j
  BY <1>1, <1>2, <1>4 DEF Sent, Requested
<1> QED BY <1>1, <1>3, <1>4

-----------------------------------------------------------------------------
(* The calls.                                                              *)

\* A call that begins touches nothing shared.
LEMMA BeginStep ==
    ASSUME Inv, NEW c \in Ids, Begin(c) PROVE Inv'
<1> USE DEF conn, slots, reader, host, hist
<1>1. Types'
  BY DEF Inv, Types, TypeOK, Begin, Goes
<1>2. SlotOf(c)'
  BY DEF Inv, Types, TypeOK, Slots, SlotOf, Begin, Goes, Over, Called, Ended
<1>3. Reader' /\ Slots' /\ Callbacks'
  BY <1>2, CallFrame DEF Begin, Goes, Over, Inv, Types, TypeOK
<1>4. Wire' /\ Track'
  <2>1. \A e \in Ids : (Unasked(e)' => Unasked(e)) /\ (Over(e) => Over(e)')
    BY DEF Begin, Goes, Unasked, Over, Inv, Types, TypeOK
  <2>2. \A e \in Streams : (Finished(e)' <=> Finished(e)) /\ Passed(e)' = Passed(e)
    BY DEF Begin, Finished, Passed, LastDue, Ended, Due
  <2>3. UNCHANGED <<c2s, s2c, hcur, chunks, cOpen, hOpen, rpc, done, failed, result>>
    BY DEF Begin
  <2> QED BY <2>1, <2>2, <2>3, StreamFrame DEF Up, Reading, Ids
<1> QED BY <1>1, <1>3, <1>4 DEF Inv

\* The slot is there before the request: nothing is due to it yet.
LEMMA RegisterStep ==
    ASSUME Inv, NEW c \in Ids, Register(c) PROVE Inv'
<1> USE DEF conn, slots, reader, host, hist
<1>1. Types'
  BY CallsConstants DEF Inv, Types, TypeOK, Register, Goes, Ids
<1>2. SlotOf(c)'
  BY CallsConstants DEF Inv, Types, TypeOK, Slots, SlotOf, Register, Goes, Over, Called, Ended, Ids
<1>3. \A r \in rcb : r.id \in sinks' => r.id \in sinks
  BY DEF Inv, Slots, SlotOf, Register
<1>4. Reader' /\ Slots' /\ Callbacks'
  <2>1. UNCHANGED <<rpc, rcb, log, late>>
    BY DEF Register
  <2>2. \A e \in Ids : e # c =>
              /\ pc'[e] = pc[e]
              /\ e \in sinks' <=> e \in sinks
              /\ e \in pending' <=> e \in pending
              /\ e \in done' <=> e \in done
              /\ e \in active' <=> e \in active
    BY DEF Register, Goes, Inv, Types, TypeOK
  <2>3. ~Over(c)
    BY DEF Over, Register
  <2> QED BY <1>2, <1>3, <2>1, <2>2, <2>3, CallFrame
<1>5. Wire' /\ Track'
  <2>1. \A e \in Ids : (Unasked(e)' => Unasked(e)) /\ (Over(e) => Over(e)')
    BY DEF Register, Goes, Unasked, Over, Inv, Types, TypeOK
  <2>2. \A e \in Streams : (Finished(e)' <=> Finished(e)) /\ Passed(e)' = Passed(e)
    BY DEF Register, Finished, Passed, LastDue, Ended, Due
  <2>3. UNCHANGED <<c2s, s2c, hcur, chunks, cOpen, hOpen, rpc, done, failed, result>>
    BY DEF Register
  <2> QED BY <2>1, <2>2, <2>3, StreamFrame DEF Up, Reading, Ids
<1> QED BY <1>1, <1>4, <1>5 DEF Inv

\* A call whose request was not written takes its slot with it.
LEMMA UnsentStep ==
    ASSUME Inv, NEW c \in Ids, Unsent(c) PROVE Inv'
<1> USE DEF conn, slots, reader, host, hist
<1>1. Types'
  BY DEF Inv, Types, TypeOK, Unsent, Ends, Goes, Erase
<1>2. SlotOf(c)'
  BY DEF Inv, Types, TypeOK, Slots, SlotOf, Unsent, Ends, Goes, Erase, Over, Called, Ended
<1>3. Reader' /\ Slots' /\ Callbacks'
  BY <1>2, CallFrame DEF Unsent, Ends, Goes, Erase, Over, Inv, Types, TypeOK
<1>4. Wire' /\ Track'
  <2>1. \A e \in Ids : /\ Unasked(e)' => Unasked(e)
                       /\ Over(e) => Over(e)'
                       /\ result'[e] = "ok" => result[e] = "ok"
    BY DEF Unsent, Ends, Goes, Unasked, Over, Inv, Types, TypeOK
  <2>2. \A e \in Streams : /\ Finished(e)' <=> Finished(e)
                           /\ Passed(e)' = Passed(e)
                           /\ e \in done' \ failed' => e \in done \ failed
    BY DEF Unsent, Erase, Finished, Passed, LastDue, Ended, Due
  <2>3. UNCHANGED <<c2s, s2c, hcur, chunks, cOpen, hOpen, rpc>>
    BY DEF Unsent
  <2> QED BY <2>1, <2>2, <2>3, StreamFrame DEF Up, Reading, Ids
<1> QED BY <1>1, <1>3, <1>4 DEF Inv

\* GetCheck and GetTimesOut touch one get() and its slot only.
LEMMA GetStep ==
    ASSUME Inv, NEW c \in Ids, GetCheck(c) \/ GetTimesOut(c) PROVE Inv'
<1> USE DEF conn, slots, reader, host, hist
<1>1. Types'
  <2>1. pc' \in [Ids -> Places]
    BY DEF Inv, Types, TypeOK, Places, GetCheck, GetTimesOut, Ends, Goes
  <2>2. result' \in [Ids -> Results]
    BY DEF Inv, Types, TypeOK, Results, GetCheck, GetTimesOut, Ends, Goes
  <2>3. /\ pending' \subseteq Gets /\ answer' \subseteq pending'
        /\ sinks' \subseteq Streams \cup Subs /\ active' \subseteq Subs
    BY DEF Inv, Types, TypeOK, GetCheck, GetTimesOut, Ends, Goes
  <2>4. UNCHANGED <<conn, alive, reader, dpc, host, hist>>
    BY DEF GetCheck, GetTimesOut
  <2> QED BY <2>1, <2>2, <2>3, <2>4 DEF Inv, Types, TypeOK, Places, Results
<1>2. SlotOf(c)'
  BY CallsConstants DEF Inv, Types, TypeOK, Slots, SlotOf, GetCheck, GetTimesOut, Ends, Goes, Over,
     Called, Ended
<1>3. Reader' /\ Slots' /\ Callbacks'
  BY <1>2, CallFrame DEF GetCheck, GetTimesOut, Ends, Goes, Over, Inv, Types, TypeOK
<1>4. Wire' /\ Track'
  <2>1. \A e \in Ids : /\ Unasked(e)' => Unasked(e)
                       /\ Over(e) => Over(e)'
                       /\ e \in Streams => result'[e] = result[e]
    BY CallsConstants DEF GetCheck, GetTimesOut, Ends, Goes, Unasked, Over, Inv, Types, TypeOK
  <2>2. \A e \in Streams : /\ Finished(e)' <=> Finished(e)
                           /\ Passed(e)' = Passed(e)
    BY DEF GetCheck, GetTimesOut, Finished, Passed, LastDue, Ended, Due
  <2>3. UNCHANGED <<c2s, s2c, hcur, chunks, cOpen, hOpen, rpc, done, failed>>
    BY DEF GetCheck, GetTimesOut
  <2> QED BY <2>1, <2>2, <2>3, StreamFrame DEF Up, Reading, Ids
<1> QED BY <1>1, <1>3, <1>4 DEF Inv

\* The loop of get_stream() touches one stream and its sink only; the call
\* succeeds on a sink that is done and was not refused.
LEMMA StreamStep ==
    ASSUME Inv, NEW c \in Ids, StreamLoop(c) \/ StreamCheck(c) \/ StreamTimesOut(c) PROVE Inv'
<1> USE DEF conn, slots, reader, host, hist
<1>0. c \in Streams
  BY DEF StreamLoop, StreamCheck, StreamTimesOut, Inv, Slots, SlotOf
<1>1. Types'
  <2>1. pc' \in [Ids -> Places]
    BY DEF Inv, Types, TypeOK, Places, StreamLoop, StreamCheck, StreamTimesOut, Ends, Goes
  <2>2. result' \in [Ids -> Results]
    BY DEF Inv, Types, TypeOK, Results, StreamLoop, StreamCheck, StreamTimesOut, Ends, Goes
  <2>3. /\ pending' \subseteq Gets /\ answer' \subseteq pending'
        /\ sinks' \subseteq Streams \cup Subs /\ active' \subseteq Subs
    BY DEF Inv, Types, TypeOK, StreamLoop, StreamCheck, StreamTimesOut, Ends, Goes, Erase
  <2>4. UNCHANGED <<conn, alive, reader, dpc, host, hist>>
    BY DEF StreamLoop, StreamCheck, StreamTimesOut
  <2> QED BY <2>1, <2>2, <2>3, <2>4 DEF Inv, Types, TypeOK, Places, Results
<1>2. SlotOf(c)'
  <2>1. /\ pc'[c] \in {"check", "asleep", "over"}
        /\ pc'[c] = "over" => c \notin sinks'
        /\ pc'[c] # "over" => sinks' = sinks
        /\ UNCHANGED <<pending, rpc, rcb, log, active>>
    BY DEF Inv, Types, TypeOK, StreamLoop, StreamCheck, StreamTimesOut, Ends, Goes, Erase
  <2>2. pc[c] \in {"loop", "check", "asleep"}
    BY DEF StreamLoop, StreamCheck, StreamTimesOut
  <2> QED BY <1>0, <2>1, <2>2, CallsConstants
          DEF Inv, Types, TypeOK, Slots, SlotOf, Over, Called, Ended
<1>3. Reader' /\ Slots' /\ Callbacks'
  BY <1>2, CallFrame DEF StreamLoop, StreamCheck, StreamTimesOut, Ends, Goes, Erase, Over, Inv, Types,
     TypeOK
<1>4. Wire' /\ Track'
  <2>1. \A e \in Ids : /\ Unasked(e)' => Unasked(e)
                       /\ Over(e) => Over(e)'
                       /\ result'[e] = "ok" => result[e] = "ok" \/ e \in done \ failed
    BY DEF StreamLoop, StreamCheck, StreamTimesOut, Ends, Goes, Unasked, Over, Inv, Types, TypeOK
  <2>2. \A e \in Streams : /\ Finished(e)' <=> Finished(e)
                           /\ Passed(e)' = Passed(e)
                           /\ e \in done' \ failed' => e \in done \ failed
    BY DEF StreamLoop, StreamCheck, StreamTimesOut, Erase, Finished, Passed, LastDue, Ended, Due
  <2>3. UNCHANGED <<c2s, s2c, hcur, chunks, cOpen, hOpen, rpc>>
    BY DEF StreamLoop, StreamCheck, StreamTimesOut
  <2> QED BY <2>1, <2>2, <2>3, StreamFrame DEF Up, Reading, Ids
<1> QED BY <1>1, <1>3, <1>4 DEF Inv

\* unsubscribe() up to the request: the flag, then the sink.
LEMMA UnsubscribeStep ==
    ASSUME Inv, NEW c \in Ids, Unsubscribe(c) \/ UnsubscribeErase(c) PROVE Inv'
<1> USE DEF conn, slots, reader, host, hist
<1>0. c \in Subs
  BY DEF Unsubscribe, UnsubscribeErase, Inv, Slots, SlotOf
<1>1. Types'
  <2>1. pc' \in [Ids -> Places]
    BY DEF Inv, Types, TypeOK, Places, Unsubscribe, UnsubscribeErase, Ends, Goes
  <2>2. result' \in [Ids -> Results]
    BY DEF Inv, Types, TypeOK, Results, Unsubscribe, UnsubscribeErase, Ends, Goes
  <2>3. /\ pending' \subseteq Gets /\ answer' \subseteq pending'
        /\ sinks' \subseteq Streams \cup Subs /\ active' \subseteq Subs
    BY DEF Inv, Types, TypeOK, Unsubscribe, UnsubscribeErase, Ends, Goes, Erase
  <2>4. UNCHANGED <<conn, alive, reader, dpc, host, hist>>
    BY DEF Unsubscribe, UnsubscribeErase
  <2> QED BY <2>1, <2>2, <2>3, <2>4 DEF Inv, Types, TypeOK, Places, Results
<1>2. SlotOf(c)'
  BY <1>0, CallsConstants DEF Inv, Types, TypeOK, Slots, SlotOf, Unsubscribe, UnsubscribeErase,
     Ends, Goes, Erase, Over, Called, Ended
<1>3. Reader' /\ Slots' /\ Callbacks'
  BY <1>2, CallFrame DEF Unsubscribe, UnsubscribeErase, Ends, Goes, Erase, Over, Inv, Types,
     TypeOK
<1>4. Wire' /\ Track'
  <2>1. \A e \in Ids : /\ Unasked(e)' => Unasked(e)
                       /\ Over(e) => Over(e)'
                       /\ result'[e] = "ok" => result[e] = "ok"
    BY DEF Unsubscribe, UnsubscribeErase, Ends, Goes, Unasked, Over, Inv, Types, TypeOK
  <2>2. \A e \in Streams : /\ Finished(e)' <=> Finished(e)
                           /\ Passed(e)' = Passed(e)
                           /\ e \in done' \ failed' => e \in done \ failed
    BY DEF Unsubscribe, UnsubscribeErase, Erase, Finished, Passed, LastDue, Ended, Due
  <2>3. UNCHANGED <<c2s, s2c, hcur, chunks, cOpen, hOpen, rpc>>
    BY DEF Unsubscribe, UnsubscribeErase
  <2> QED BY <2>1, <2>2, <2>3, StreamFrame DEF Up, Reading, Ids
<1> QED BY <1>1, <1>3, <1>4 DEF Inv

\* The request goes out once, before any frame of its stream.
LEMMA SendStep ==
    ASSUME Inv, NEW c \in Ids, Send(c) PROVE Inv'
<1> USE DEF conn, slots, reader, host, hist
<1> DEFINE q == [kind |-> "call", id |-> c]
<1>0. q \in Request
  BY DEF Request
<1>1. /\ UNCHANGED <<s2c, cOpen, hOpen, alive, slots, result, active, reader, dpc, host, hist>>
      /\ pc[c] = "send"
  BY DEF Send
<1>2. /\ pc' \in [Ids -> Places]
      /\ \A e \in Ids : e # c => pc'[e] = pc[e]
      /\ \/ c \in Subs /\ pc'[c] = "live"
         \/ c \in Gets /\ pc'[c] = "check"
         \/ c \in Streams /\ pc'[c] = "loop"
      /\ c2s' = Append(c2s, q)
  BY DEF Send, Writes, Goes, Ids, Inv, Types, TypeOK, Places
<1>3. c2s' \in Seq(Request)
  BY <1>0, <1>2, RequestAppended DEF Inv, Types
<1>4. Types'
  <2>1. \A i \in DOMAIN c2s' : c2s'[i] \in Request
    BY <1>3, ElementsOf
  <2>2. pc' \in [Ids -> Places]
    BY <1>2
  <2> QED BY <1>1, <1>3, <2>1, <2>2 DEF Inv, Types, TypeOK, Places, Request
<1>5. SlotOf(c)'
  BY <1>1, <1>2, CallsConstants DEF Inv, Types, TypeOK, Slots, SlotOf, Over, Called, Ended
<1>6. Reader' /\ Slots' /\ Callbacks'
  BY <1>1, <1>2, <1>5, CallFrame DEF Over
<1>7. \A e \in Ids : (Unasked(e)' => Unasked(e)) /\ (Over(e) => Over(e)')
  BY <1>1, <1>2 DEF Unasked, Over
<1>8. \A e \in Streams : (Finished(e)' <=> Finished(e)) /\ Passed(e)' = Passed(e)
  BY <1>1 DEF Finished, Passed, LastDue, Ended, Due
<1>9. Track'
  BY <1>1, <1>7, <1>8, TrackFrame DEF Up, Reading, Ids
<1>10. Unasked(c) /\ ~Requested(c)
  BY <1>1 DEF Unasked, Inv, Wire, Sent
<1>11. ~Unasked(c)'
  BY <1>2 DEF Unasked
<1>12. /\ \A e \in Ids : Requested(e)' <=> Requested(e) \/ e = c
       /\ \A i, j \in DOMAIN c2s' :
             c2s'[i].kind = "call" /\ c2s'[j].kind = "call" /\ c2s'[i].id = c2s'[j].id => i = j
  BY <1>0, <1>2, <1>10, RequestAppended DEF Inv, Types, Wire
<1>13. Sent'
  BY <1>11, <1>12, <1>7 DEF Inv, Wire, Sent
<1>14. \A e \in Streams : WireOf(e)'
  BY <1>1, <1>7, <1>8, <1>10, <1>12 DEF Inv, Wire, WireOf, Ids
<1> QED BY <1>4, <1>6, <1>9, <1>13, <1>14 DEF Inv, Wire

\* What is left of a write that failed is no call.
LEMMA FailedWrite ==
    ASSUME NEW c \in Ids, WriteFails(c)
    PROVE  c2s' = c2s \/ \E q \in Request : q.kind # "call" /\ c2s' = Append(c2s, q)
<1> DEFINE q == [kind |-> "torn", id |-> c]
<1>1. q \in Request /\ q.kind # "call"
  BY DEF Request
<1> QED BY <1>1 DEF WriteFails

\* A request that is not a call is of no concern to the streams.
LEMMA NoCallAppended ==
    ASSUME Inv, c2s' = c2s \/ \E q \in Request : q.kind # "call" /\ c2s' = Append(c2s, q)
    PROVE  /\ c2s' \in Seq(Request) /\ \A e \in Ids : Requested(e)' <=> Requested(e)
           /\ \A i, j \in DOMAIN c2s' :
                 c2s'[i].kind = "call" /\ c2s'[j].kind = "call" /\ c2s'[i].id = c2s'[j].id => i = j
<1>1. CASE c2s' = c2s
  BY <1>1 DEF Inv, Types, Wire, Sent, Requested
<1>2. ASSUME NEW q \in Request, q.kind # "call", c2s' = Append(c2s, q)
      PROVE  /\ c2s' \in Seq(Request) /\ \A e \in Ids : Requested(e)' <=> Requested(e)
             /\ \A i, j \in DOMAIN c2s' :
                   c2s'[i].kind = "call" /\ c2s'[j].kind = "call" /\ c2s'[i].id = c2s'[j].id => i = j
  BY <1>2, RequestAppended DEF Inv, Types, Wire
<1> QED BY <1>1, <1>2

\* A call whose write failed is on its way to erase its slot.
LEMMA SendFailsStep ==
    ASSUME Inv, NEW c \in Ids, SendFails(c) PROVE Inv'
<1> USE DEF conn, slots, reader, host, hist
<1>1. /\ UNCHANGED <<s2c, cOpen, hOpen, alive, slots, result, active, reader, dpc, host, hist>>
      /\ pc[c] = "send"
  BY DEF SendFails
<1>2. /\ pc' \in [Ids -> Places]
      /\ \A e \in Ids : e # c => pc'[e] = pc[e]
      /\ pc'[c] = "unsent"
  BY DEF SendFails, Goes, Inv, Types, TypeOK, Places
<1>3. /\ c2s' \in Seq(Request) /\ \A e \in Ids : Requested(e)' <=> Requested(e)
      /\ \A i, j \in DOMAIN c2s' :
            c2s'[i].kind = "call" /\ c2s'[j].kind = "call" /\ c2s'[i].id = c2s'[j].id => i = j
  BY FailedWrite, NoCallAppended DEF SendFails
<1>4. Types'
  <2>1. \A i \in DOMAIN c2s' : c2s'[i] \in Request
    BY <1>3, ElementsOf
  <2>2. pc' \in [Ids -> Places]
    BY <1>2
  <2> QED BY <1>1, <1>3, <2>1, <2>2 DEF Inv, Types, TypeOK, Places, Request
<1>5. SlotOf(c)'
  BY <1>1, <1>2, CallsConstants DEF Inv, Types, TypeOK, Slots, SlotOf, Over, Called, Ended
<1>6. Reader' /\ Slots' /\ Callbacks'
  BY <1>1, <1>2, <1>5, CallFrame DEF Over
<1>7. \A e \in Ids : (Unasked(e)' => Unasked(e)) /\ (Over(e) => Over(e)')
  BY <1>1, <1>2 DEF Unasked, Over
<1>8. \A e \in Streams : (Finished(e)' <=> Finished(e)) /\ Passed(e)' = Passed(e)
  BY <1>1 DEF Finished, Passed, LastDue, Ended, Due
<1>9. Track'
  BY <1>1, <1>7, <1>8, TrackFrame DEF Up, Reading, Ids
<1>10. Sent'
  BY <1>3, <1>7 DEF Inv, Wire, Sent
<1>11. \A e \in Streams : WireOf(e)'
  BY <1>1, <1>3, <1>7, <1>8 DEF Inv, Wire, WireOf, Ids
<1> QED BY <1>4, <1>6, <1>9, <1>10, <1>11 DEF Inv, Wire

\* The request of unsubscribe() is no call: the streams do not see it.
LEMMA UnsubscribeTellStep ==
    ASSUME Inv, NEW c \in Ids, UnsubscribeTell(c) \/ UnsubscribeUntold(c) PROVE Inv'
<1> USE DEF conn, slots, reader, host, hist
<1>0. c2s' = c2s \/ \E q \in Request : q.kind # "call" /\ c2s' = Append(c2s, q)
  <2> DEFINE q == [kind |-> "unsub", id |-> c]
  <2>1. q \in Request /\ q.kind # "call"
    BY DEF Request
  <2>2. CASE UnsubscribeTell(c)
    BY <2>1, <2>2 DEF UnsubscribeTell, Writes
  <2>3. CASE UnsubscribeUntold(c)
    BY <2>3, FailedWrite DEF UnsubscribeUntold
  <2> QED BY <2>2, <2>3
<1>1. /\ UNCHANGED <<s2c, cOpen, hOpen, alive, slots, active, reader, dpc, host, hist>>
      /\ pc[c] = "tell"
  BY DEF UnsubscribeTell, UnsubscribeUntold
<1>2. /\ pc' \in [Ids -> Places] /\ result' \in [Ids -> Results]
      /\ \A e \in Ids : e # c => pc'[e] = pc[e] /\ result'[e] = result[e]
      /\ pc'[c] = "over" /\ result'[c] = "unsubscribed"
  BY DEF UnsubscribeTell, UnsubscribeUntold, Ends, Goes, Inv, Types, TypeOK, Places, Results
<1>3. /\ c2s' \in Seq(Request) /\ \A e \in Ids : Requested(e)' <=> Requested(e)
      /\ \A i, j \in DOMAIN c2s' :
            c2s'[i].kind = "call" /\ c2s'[j].kind = "call" /\ c2s'[i].id = c2s'[j].id => i = j
  BY <1>0, NoCallAppended
<1>4. Types'
  <2>1. \A i \in DOMAIN c2s' : c2s'[i] \in Request
    BY <1>3, ElementsOf
  <2>2. pc' \in [Ids -> Places] /\ result' \in [Ids -> Results]
    BY <1>2
  <2>3. UNCHANGED <<s2c, cOpen, hOpen, alive, slots, active, reader, dpc, host, hist>>
    BY <1>1
  <2> QED BY <1>3, <2>1, <2>2, <2>3 DEF Inv, Types, TypeOK, Places, Results, Request
<1>5. SlotOf(c)'
  BY <1>1, <1>2, CallsConstants DEF Inv, Types, TypeOK, Slots, SlotOf, Over, Called, Ended
<1>6. Reader' /\ Slots' /\ Callbacks'
  BY <1>1, <1>2, <1>5, CallFrame DEF Over
<1>7. \A e \in Ids : /\ Unasked(e)' => Unasked(e)
                     /\ Over(e) => Over(e)'
                     /\ result'[e] = "ok" => result[e] = "ok"
  BY <1>1, <1>2 DEF Unasked, Over
<1>8. \A e \in Streams : (Finished(e)' <=> Finished(e)) /\ Passed(e)' = Passed(e)
  BY <1>1 DEF Finished, Passed, LastDue, Ended, Due
<1>9. Track'
  BY <1>1, <1>7, <1>8, TrackFrame DEF Up, Reading, Ids
<1>10. Sent'
  BY <1>3, <1>7 DEF Inv, Wire, Sent
<1>11. \A e \in Streams : WireOf(e)'
  BY <1>1, <1>3, <1>7, <1>8 DEF Inv, Wire, WireOf, Ids
<1> QED BY <1>4, <1>6, <1>9, <1>10, <1>11 DEF Inv, Wire

-----------------------------------------------------------------------------
(* disconnect().                                                           *)

\* A wakeup moves a sleeping call to its check, and nothing else.
LEMMA Wakes ==
    ASSUME Inv, NEW S, pc' = Notified(pc, S)
    PROVE  /\ pc' \in [Ids -> Places]
           /\ \A e \in Ids : \/ pc'[e] = pc[e]
                             \/ pc[e] = "asleep" /\ pc'[e] = "check"
BY DEF Inv, Types, TypeOK, Notified, Places

\* A step that wakes calls and touches no slot, no callback and no frame.
LEMMA WakeFrame ==
    ASSUME Inv, UNCHANGED <<conn, slots, result, active, reader, host, hist>>,
           pc' \in [Ids -> Places],
           \A e \in Ids : pc'[e] = pc[e] \/ (pc[e] = "asleep" /\ pc'[e] = "check"),
           alive' \in BOOLEAN, dpc' \in {"idle", "close", "wakeGets", "wakeStreams", "join", "over"}
    PROVE  Inv'
<1> USE DEF conn, slots, reader, host, hist
<1>1. Types'
  BY DEF Inv, Types, TypeOK, Places
<1>2. Reader'
  BY DEF Inv, Reader
<1>3. Slots'
  BY DEF Inv, Slots, SlotOf, Over, Called, Ended
<1>4. Callbacks'
  BY DEF Inv, Callbacks, CallbackOf, Due, Ended, Over
<1>5. Wire' /\ Track'
  <2>1. \A e \in Ids : (Unasked(e)' => Unasked(e)) /\ (Over(e) => Over(e)')
    BY DEF Unasked, Over
  <2>2. \A e \in Streams : (Finished(e)' <=> Finished(e)) /\ Passed(e)' = Passed(e)
    BY DEF Finished, Passed, LastDue, Ended, Due
  <2> QED BY <2>1, <2>2, StreamFrame DEF Up, Reading, Ids
<1> QED BY <1>1, <1>2, <1>3, <1>4, <1>5 DEF Inv

\* disconnect(), but for the close.
LEMMA DisconnectMovesStep ==
    ASSUME Inv, DisconnectMarks \/ DisconnectWakes \/ DisconnectJoins PROVE Inv'
<1>1. UNCHANGED <<conn, slots, result, active, reader, host, hist>>
  BY DEF DisconnectMarks, DisconnectWakes, DisconnectJoins, caller
<1>2. /\ pc' \in [Ids -> Places]
      /\ \A e \in Ids : pc'[e] = pc[e] \/ (pc[e] = "asleep" /\ pc'[e] = "check")
  <2>1. CASE pc' = pc
    BY <2>1 DEF Inv, Types, TypeOK, Places
  <2>2. CASE DisconnectWakes
    BY <2>2, Wakes DEF DisconnectWakes
  <2> QED BY <2>1, <2>2 DEF DisconnectMarks, DisconnectJoins, caller
<1>3. alive' \in BOOLEAN
  BY DEF DisconnectMarks, DisconnectWakes, DisconnectJoins, Inv, Types, TypeOK
<1>4. dpc' \in {"idle", "close", "wakeGets", "wakeStreams", "join", "over"}
  BY DEF DisconnectMarks, DisconnectWakes, DisconnectJoins
<1> QED BY <1>1, <1>2, <1>3, <1>4, WakeFrame

\* The transport is closed: what was in flight to the client is lost.
LEMMA DisconnectClosesStep ==
    ASSUME Inv, DisconnectCloses PROVE Inv'
<1> USE DEF conn, slots, reader, host, hist, caller
<1>1. /\ UNCHANGED <<c2s, hOpen, alive, slots, caller, active, reader, host, hist>>
      /\ cOpen' = FALSE /\ s2c' = <<>> /\ dpc' = "wakeGets"
  BY DEF DisconnectCloses
<1>2. s2c' \in Seq(Message) /\ Len(s2c') = 0 /\ DOMAIN s2c' = {}
  BY <1>1
<1>3. Types'
  BY <1>1, <1>2 DEF Inv, Types, TypeOK
<1>4. Reader' /\ Slots' /\ Callbacks'
  BY <1>1 DEF Inv, Reader, Slots, SlotOf, Callbacks, CallbackOf, Over, Called, Ended, Due
<1>5. \A e \in Streams : /\ Finished(e)' <=> Finished(e)
                         /\ Requested(e)' <=> Requested(e)
                         /\ Unasked(e)' <=> Unasked(e)
                         /\ Over(e)' <=> Over(e)
                         /\ Passed(e)' = Passed(e)
  BY <1>1 DEF Finished, Passed, LastDue, Ended, Due, Requested, Unasked, Over
<1>6. Wire'
  <2>1. Sent'
    BY <1>1 DEF Inv, Wire, Sent, Requested, Unasked
  <2>2. \A e \in Streams : WireOf(e)'
    BY <1>1, <1>2, <1>5 DEF Inv, Wire, WireOf
  <2> QED BY <2>1, <2>2 DEF Wire
<1>7. ASSUME NEW e \in Streams PROVE TrackOf(e)'
  <2>1. TrackOf(e)
    BY DEF Inv, Track
  <2>2. ASSUME Reading', ~Over(e)'
        PROVE  \E d \in [1 .. Len(s2c') + 1 -> 0 .. chunks'[e]] : Passes(e, d)'
    <3>0. Reading /\ ~Over(e)
      BY <2>2, <1>1, <1>5 DEF Reading
    <3>1. PICK d \in [1 .. Len(s2c) + 1 -> 0 .. chunks[e]] : Passes(e, d)
      BY <2>1, <3>0 DEF TrackOf
    <3>2. Len(s2c) \in Nat /\ 1 \in 1 .. Len(s2c) + 1
      BY DEF Inv, Types
    <3>3. PICK x \in 0 .. chunks[e] : x = d[1]
      BY <3>1, <3>2
    <3>4. PICK g \in [1 .. 1 -> 0 .. chunks[e]] : g[1] = x
      <4>1. [i \in 1 .. 1 |-> x] \in [1 .. 1 -> 0 .. chunks[e]] /\ [i \in 1 .. 1 |-> x][1] = x
        OBVIOUS
      <4> QED BY <4>1
    <3>5. Passes(e, g)'
      BY <1>1, <1>2, <1>5, <3>1, <3>3, <3>4 DEF Passes, Up
    <3> QED BY <3>4, <3>5, <1>1, <1>2
  <2> QED BY <1>1, <1>5, <2>1, <2>2 DEF TrackOf
<1> QED BY <1>3, <1>4, <1>6, <1>7 DEF Inv, Track

-----------------------------------------------------------------------------
(* The reader between two frames.                                          *)

\* A callback that is due is made: the history of its call grows by it, and
\* by nothing after a last one.
LEMMA Calling ==
    ASSUME Inv, NEW c \in Ids, NEW last \in BOOLEAN, Calls1(c, last), Due(c)
    PROVE  /\ log' \in [Ids -> Seq({"msg", "last"})] /\ late' \in [Ids -> Nat]
           /\ active' \subseteq Subs
           /\ \A e \in Ids : e # c => /\ log'[e] = log[e] /\ late'[e] = late[e]
                                      /\ e \in active' <=> e \in active
           /\ Len(log'[c]) = Len(log[c]) + 1
           /\ Ended(c)' <=> last
           /\ \A i \in DOMAIN log'[c] : log'[c][i] = "last" => i = Len(log'[c])
           /\ late'[c] <= 1 /\ (late'[c] = 1 => Over(c))
           /\ last \/ (c \in active' <=> c \in active)
<1> DEFINE x == IF last THEN "last" ELSE "msg"
<1>0. x \in {"msg", "last"} /\ (x = "last" <=> last)
  OBVIOUS
<1> HIDE DEF x
<1>1. /\ log' = [log EXCEPT ![c] = Append(@, x)]
      /\ late' = [late EXCEPT ![c] = IF Over(c) THEN @ + 1 ELSE @]
      /\ active' = IF last THEN active \ {c} ELSE active
  BY DEF Calls1, x
<1>2. log[c] \in Seq({"msg", "last"}) /\ log \in [Ids -> Seq({"msg", "last"})] /\ late \in [Ids -> Nat]
  BY DEF Inv, Types
<1>3. PICK q \in Seq({"msg", "last"}) : q = Append(log[c], x)
  <2> DEFINE K == {"msg", "last"}
  <2>1. log[c] \in Seq(K) /\ x \in K
    BY <1>0, <1>2
  <2> HIDE DEF K
  <2>2. Append(log[c], x) \in Seq(K)
    BY <2>1
  <2> QED BY <2>2 DEF K
<1>4. /\ Len(q) = Len(log[c]) + 1 /\ Len(log[c]) \in Nat
      /\ DOMAIN q = 1 .. Len(log[c]) + 1 /\ DOMAIN log[c] = 1 .. Len(log[c])
      /\ \A i \in 1 .. Len(log[c]) : q[i] = log[c][i]
      /\ q[Len(log[c]) + 1] = x
  BY <1>0, <1>2, <1>3
<1>5. log' \in [Ids -> Seq({"msg", "last"})] /\ log'[c] = q /\ \A e \in Ids : e # c => log'[e] = log[e]
  BY <1>1, <1>2, <1>3
<1>6. late' \in [Ids -> Nat] /\ \A e \in Ids : e # c => late'[e] = late[e]
  BY <1>1, <1>2
<1>7. Ended(c)' <=> last
  BY <1>0, <1>4, <1>5 DEF Ended
<1>8. ~Ended(c) /\ \A i \in DOMAIN log[c] : log[c][i] = "last" => i = Len(log[c])
  BY DEF Inv, Callbacks, CallbackOf
<1>9. \A i \in 1 .. Len(log[c]) : log[c][i] # "last"
  BY <1>4, <1>8 DEF Ended
<1>10. \A i \in DOMAIN q : q[i] = "last" => i = Len(q)
  BY <1>4, <1>9
<1>11. late[c] = 0
  BY <1>2 DEF Inv, Callbacks, CallbackOf
<1>12. late'[c] <= 1 /\ (late'[c] = 1 => Over(c))
  BY <1>1, <1>2, <1>11
<1>13. active' \subseteq Subs /\ \A e \in Ids : e # c => (e \in active' <=> e \in active)
  BY <1>1 DEF Inv, Types, TypeOK
<1>14. last \/ (c \in active' <=> c \in active)
  BY <1>1
<1> QED BY <1>4, <1>5, <1>6, <1>7, <1>10, <1>12, <1>13, <1>14

\* Types after a step of the reader that leaves the frames alone.
LEMMA ReaderTypes ==
    ASSUME Inv, UNCHANGED <<conn, dpc, host, result>>, alive' \in BOOLEAN,
           pc' \in [Ids -> Places], log' \in [Ids -> Seq({"msg", "last"})], late' \in [Ids -> Nat],
           active' \subseteq Subs, sinks' \subseteq sinks, pending' = pending,
           answer' \subseteq pending, rcb' \subseteq Callback,
           rpc' \in {"head", "read", "call", "called", "refused", "wakeGets", "sweep", "closing", "gone"},
           rpc' \in {"head", "read"} => rcb' = {}
    PROVE  Types'
BY DEF Inv, Types, TypeOK, Places, conn, host

\* Steps of the reader that hold no callback.
LEMMA ReaderMoves ==
    ASSUME Inv, ReaderHead \/ ReaderWakesGets \/ ReaderGone PROVE Inv'
<1> USE DEF conn, slots, reader, host, hist, caller
<1>1. /\ UNCHANGED <<conn, alive, slots, result, active, rcb, dpc, host, hist>>
      /\ rcb = {}
      /\ rpc' \in {"read", "wakeGets", "sweep", "gone"}
      /\ rpc \in {"head", "wakeGets", "closing"}
      /\ rpc' = "read" => rpc = "head"
  BY DEF ReaderHead, ReaderWakesGets, ReaderGone, Inv, Reader
<1>2. /\ pc' \in [Ids -> Places]
      /\ \A e \in Ids : pc'[e] = pc[e] \/ (pc[e] = "asleep" /\ pc'[e] = "check")
  <2>1. CASE pc' = pc
    BY <2>1 DEF Inv, Types, TypeOK, Places
  <2>2. CASE ReaderWakesGets
    BY <2>2, Wakes DEF ReaderWakesGets
  <2> QED BY <2>1, <2>2 DEF ReaderHead, ReaderGone
<1>3. Types'
  BY <1>1, <1>2, ReaderTypes DEF Inv, Types, TypeOK
<1>4. Reader'
  BY <1>1 DEF Reader
<1>5. Slots'
  BY <1>1, <1>2 DEF Inv, Slots, SlotOf, Over, Called, Ended
<1>6. Callbacks'
  BY <1>1, <1>2 DEF Inv, Callbacks, CallbackOf, Due, Ended, Over
<1>7. Wire' /\ Track'
  <2>1. \A e \in Ids : (Unasked(e)' => Unasked(e)) /\ (Over(e) => Over(e)')
    BY <1>2 DEF Unasked, Over
  <2>2. \A e \in Streams : (Finished(e)' <=> Finished(e)) /\ Passed(e)' = Passed(e)
    BY <1>1 DEF Finished, Passed, LastDue, Ended, Due
  <2>3. Reading' => Reading
    BY <1>1 DEF Reading
  <2> QED BY <1>1, <2>1, <2>2, <2>3, StreamFrame DEF Up, Ids
<1> QED BY <1>3, <1>4, <1>5, <1>6, <1>7 DEF Inv

\* The callback of a chunk: it was due, now it is counted as made.
LEMMA ReaderCallsStep ==
    ASSUME Inv, ReaderCalls PROVE Inv'
<1> USE DEF conn, slots, reader, host, hist, caller
<1>1. PICK r \in Callback : rcb = {r} /\ rpc = "call"
  BY DEF ReaderCalls, Inv, Reader
<1> DEFINE c == r.id
<1>2. r.last \in BOOLEAN /\ c \in Ids /\ c \in Streams \cup Subs
  BY DEF Callback, Ids
<1>3. /\ Calls1(c, r.last) /\ rpc' = (IF r.last THEN "called" ELSE "head")
      /\ rcb' = (IF r.last THEN rcb ELSE {})
      /\ UNCHANGED <<conn, alive, slots, caller, dpc, host>>
  BY <1>1 DEF ReaderCalls
<1>4. Due(c) /\ \A e \in Ids : Due(e) => e = c
  BY <1>1 DEF Due
<1>5. /\ log' \in [Ids -> Seq({"msg", "last"})] /\ late' \in [Ids -> Nat]
      /\ active' \subseteq Subs
      /\ \A e \in Ids : e # c => /\ log'[e] = log[e] /\ late'[e] = late[e]
                                 /\ e \in active' <=> e \in active
      /\ Len(log'[c]) = Len(log[c]) + 1
      /\ Ended(c)' <=> r.last
      /\ \A i \in DOMAIN log'[c] : log'[c][i] = "last" => i = Len(log'[c])
      /\ late'[c] <= 1 /\ (late'[c] = 1 => Over(c))
      /\ r.last \/ (c \in active' <=> c \in active)
  BY <1>2, <1>3, <1>4, Calling
<1> HIDE DEF c
<1>6. \A e \in Ids : Due(e)' <=> FALSE
  BY <1>3 DEF Due
<1>7. /\ \A e \in Ids : e # c => (Ended(e)' <=> Ended(e))
      /\ \A e \in Ids : Over(e)' <=> Over(e)
  BY <1>3, <1>5 DEF Ended, Over
<1>8. Types'
  <2>1. rcb' \subseteq Callback
    BY <1>1, <1>3
  <2> QED BY <1>3, <1>5, <2>1, ReaderTypes DEF Inv, Types, TypeOK, Places
<1>9. Reader'
  BY <1>1, <1>2, <1>3 DEF Reader, Inv
<1>10. \A e \in Ids : Called(e)' <=> r.last /\ e = c
  BY <1>1, <1>3 DEF Called, c
<1>11. ASSUME NEW e \in Ids PROVE SlotOf(e)' /\ CallbackOf(e)'
  <2>1. SlotOf(e) /\ CallbackOf(e) /\ ~Called(e)
    BY <1>1 DEF Inv, Slots, Callbacks, Called
  <2>2. CASE e # c
    <3>1. SlotOf(e)'
      BY <1>1, <1>3, <1>5, <1>7, <1>10, <2>1, <2>2 DEF SlotOf, Over
    <3>2. CallbackOf(e)'
      BY <1>1, <1>3, <1>5, <1>6, <1>7, <2>1, <2>2 DEF CallbackOf, Over
    <3> QED BY <3>1, <3>2
  <2>3. CASE e = c
    <3>0. ~Ended(c) /\ pc[c] \notin {"idle", "found"}
      BY <1>1, <1>4, <2>1, <2>3 DEF SlotOf, CallbackOf, c
    <3>1. SlotOf(c)'
      BY <1>1, <1>3, <1>5, <1>7, <1>10, <2>1, <2>3, <3>0 DEF SlotOf, Over
    <3>2. CallbackOf(c)'
      BY <1>1, <1>3, <1>5, <1>6, <1>7, <2>1, <2>3 DEF CallbackOf, Over
    <3> QED BY <2>3, <3>1, <3>2
  <2> QED BY <2>2, <2>3
<1>12. Wire' /\ Track'
  <2>1. \A e \in Ids : Unasked(e)' => Unasked(e)
    BY <1>3 DEF Unasked
  <2>2. ASSUME NEW e \in Streams PROVE (Finished(e)' <=> Finished(e)) /\ Passed(e)' = Passed(e)
    <3>0. e \in Ids /\ Len(log[e]) \in Nat
      BY DEF Ids, Inv, Types
    <3>1. CASE e # c
      BY <1>1, <1>3, <1>4, <1>5, <1>6, <1>7, <3>0, <3>1 DEF Finished, Passed, LastDue, One, c
    <3>2. CASE e = c
      <4>1. ~Ended(c)
        BY <1>2, <1>4 DEF Inv, Callbacks, CallbackOf
      <4>2. (LastDue(c) <=> r.last) /\ ~LastDue(c)'
        BY <1>1, <1>3 DEF LastDue, c
      <4>3. Finished(c)' <=> Finished(c)
        BY <1>5, <4>1, <4>2 DEF Finished
      <4>4. Passed(c)' = Passed(c)
        <5>1. One(Due(c)) = 1
          BY <1>4 DEF One
        <5>2. One(Due(c))' = 0
          BY <1>2, <1>6 DEF One
        <5> QED BY <1>5, <3>0, <3>2, <5>1, <5>2 DEF Passed
      <4> QED BY <3>2, <4>3, <4>4
    <3> QED BY <3>1, <3>2
  <2>3. Reading' => Reading
    BY <1>1 DEF Reading
  <2> QED BY <1>3, <1>7, <2>1, <2>2, <2>3, StreamFrame DEF Up, Ids
<1> QED BY <1>8, <1>9, <1>11, <1>12 DEF Inv, Slots, Callbacks

\* After the last callback the reader erases the subscription's sink.
LEMMA ReaderCalledStep ==
    ASSUME Inv, ReaderCalled PROVE Inv'
<1> USE DEF conn, slots, reader, host, hist, caller
<1> DEFINE S == {c \in Subs : \E r \in rcb : r.id = c}
<1>1. /\ rpc = "called" /\ rpc' = "head" /\ rcb' = {}
      /\ UNCHANGED <<conn, alive, pending, answer, result, active, dpc, host, hist>>
      /\ sinks' = sinks \ S /\ done' = done \ S /\ failed' = failed \ S
  BY DEF ReaderCalled, Erase
<1>2. /\ pc' \in [Ids -> Places]
      /\ \A e \in Ids : pc'[e] = pc[e] \/ (pc[e] = "asleep" /\ pc'[e] = "check")
  BY Wakes DEF ReaderCalled
<1>3. \A e \in Ids : e \in S <=> e \in Subs /\ Called(e)
  BY <1>1 DEF Called
<1> HIDE DEF S
<1>4. Types'
  BY <1>1, <1>2, ReaderTypes DEF Inv, Types, TypeOK
<1>5. Reader'
  BY <1>1 DEF Reader
<1>6. \A e \in Ids : ~Called(e)' /\ ~Due(e)' /\ ~Due(e) /\ (Ended(e)' <=> Ended(e)) /\ (Over(e) <=> Over(e)')
  BY <1>1, <1>2 DEF Called, Due, Ended, Over
<1>7. Slots'
  <2> SUFFICES ASSUME NEW e \in Ids PROVE SlotOf(e)'
    BY DEF Slots
  <2>1. SlotOf(e)
    BY DEF Inv, Slots
  <2>2. e \in S => e \notin Streams
    BY <1>3, CallsConstants
  <2> QED BY <1>1, <1>2, <1>3, <1>6, <2>1, <2>2 DEF SlotOf, Over
<1>8. Callbacks'
  BY <1>1, <1>6 DEF Inv, Callbacks, CallbackOf
<1>9. Wire' /\ Track'
  <2>1. \A e \in Ids : Unasked(e)' => Unasked(e)
    BY <1>2 DEF Unasked
  <2>2. \A e \in Streams : (Finished(e)' <=> Finished(e)) /\ Passed(e)' = Passed(e)
    BY <1>1 DEF Finished, Passed, LastDue, Ended, Due
  <2>3. Reading' => Reading
    BY <1>1 DEF Reading
  <2>4. \A e \in Streams : e \in done' \ failed' => e \in done \ failed
    BY <1>1, <1>3, CallsConstants DEF Ids
  <2> QED BY <1>1, <1>6, <2>1, <2>2, <2>3, <2>4, StreamFrame DEF Up, Ids
<1> QED BY <1>4, <1>5, <1>7, <1>8, <1>9 DEF Inv

\* The last callback of a subscription whose sink is gone, after a refusal or
\* at the end of the reader.
LEMMA ReaderClosesStep ==
    ASSUME Inv, ReaderRefused \/ ReaderClosesSub PROVE Inv'
<1> USE DEF conn, slots, reader, host, hist, caller
<1>1. /\ rpc \in {"refused", "closing"} /\ rpc' \in {"head", "closing"}
      /\ rpc' = "head" => rpc = "refused"
      /\ UNCHANGED <<conn, alive, slots, caller, dpc, host>>
  BY DEF ReaderRefused, ReaderClosesSub
<1>2. PICK r \in rcb : /\ Calls1(r.id, TRUE) /\ rcb' = rcb \ {r}
                       /\ rpc' = "head" => rcb' = {}
  <2>1. CASE ReaderRefused
    <3>1. PICK r \in rcb : Calls1(r.id, TRUE)
      BY <2>1 DEF ReaderRefused
    <3>2. rcb' = {} /\ \E s \in Callback : rcb = {s}
      BY <2>1 DEF ReaderRefused, Inv, Reader
    <3> QED BY <3>1, <3>2
  <2>2. CASE ReaderClosesSub
    BY <2>2 DEF ReaderClosesSub
  <2> QED BY <2>1, <2>2
<1> DEFINE c == r.id
<1>3. \A s \in rcb : s \in Callback /\ s.last = TRUE /\ s.id \in Subs /\ s.id \notin sinks
  BY <1>1 DEF Inv, Types, Reader, Callback
<1>4. \A s \in rcb : s.id = c => s = r
  BY <1>3 DEF Callback
<1>5. c \in Ids /\ c \in Subs /\ c \notin sinks /\ c \notin Streams
  BY <1>3, CallsConstants DEF Ids
<1>6. Due(c)
  BY <1>1 DEF Due
<1>7. /\ log' \in [Ids -> Seq({"msg", "last"})] /\ late' \in [Ids -> Nat]
      /\ active' \subseteq Subs
      /\ \A e \in Ids : e # c => /\ log'[e] = log[e] /\ late'[e] = late[e]
                                 /\ e \in active' <=> e \in active
      /\ Len(log'[c]) = Len(log[c]) + 1
      /\ Ended(c)'
      /\ \A i \in DOMAIN log'[c] : log'[c][i] = "last" => i = Len(log'[c])
      /\ late'[c] <= 1 /\ (late'[c] = 1 => Over(c))
  BY <1>2, <1>5, <1>6, Calling
<1> HIDE DEF c
<1>8. ~Due(c)' /\ \A e \in Ids : Due(e)' => Due(e)
  BY <1>1, <1>2, <1>4 DEF Due
<1>9. /\ \A e \in Ids : e # c => (Ended(e)' <=> Ended(e))
      /\ \A e \in Ids : (Over(e)' <=> Over(e)) /\ ~Called(e) /\ ~Called(e)'
  BY <1>1, <1>7 DEF Ended, Over, Called
<1>10. Types'
  <2>1. rcb' \subseteq Callback
    BY <1>2, <1>3
  <2> QED BY <1>1, <1>2, <1>7, <2>1, ReaderTypes DEF Inv, Types, TypeOK, Places
<1>11. Reader'
  BY <1>1, <1>2, <1>3 DEF Reader
<1>12. ASSUME NEW e \in Ids PROVE SlotOf(e)' /\ CallbackOf(e)'
  <2>1. SlotOf(e) /\ CallbackOf(e)
    BY DEF Inv, Slots, Callbacks
  <2>2. CASE e # c
    <3>1. SlotOf(e)'
      BY <1>1, <1>2, <1>7, <1>9, <2>1, <2>2 DEF SlotOf, Over
    <3>2. CallbackOf(e)'
      BY <1>1, <1>7, <1>8, <1>9, <2>1, <2>2 DEF CallbackOf, Over
    <3> QED BY <3>1, <3>2
  <2>3. CASE e = c
    <3>0. pc[c] \notin {"idle", "found"}
      BY <1>1, <1>2, <2>1, <2>3 DEF SlotOf, c
    <3>1. SlotOf(c)'
      BY <1>1, <1>5, <1>7, <1>9, <2>1, <2>3, <3>0 DEF SlotOf, Over
    <3>2. CallbackOf(c)'
      BY <1>1, <1>7, <1>8, <1>9, <2>1, <2>3 DEF CallbackOf, Over
    <3> QED BY <2>3, <3>1, <3>2
  <2> QED BY <2>2, <2>3
<1>13. Wire' /\ Track'
  <2>1. \A e \in Ids : Unasked(e)' => Unasked(e)
    BY <1>1 DEF Unasked
  <2>2. ASSUME NEW e \in Streams PROVE (Finished(e)' <=> Finished(e)) /\ Passed(e)' = Passed(e)
    <3>1. e \in Ids /\ e # c
      BY <1>5 DEF Ids
    <3>2. ~Due(e) /\ ~Due(e)' /\ ~LastDue(e) /\ ~LastDue(e)'
      BY <1>2, <1>3, CallsConstants DEF Due, LastDue
    <3> QED BY <1>7, <1>9, <3>1, <3>2 DEF Finished, Passed, One
  <2>3. Reading' => Reading
    BY <1>1 DEF Reading
  <2> QED BY <1>1, <1>9, <2>1, <2>2, <2>3, StreamFrame DEF Up, Ids
<1> QED BY <1>10, <1>11, <1>12, <1>13 DEF Inv, Slots, Callbacks

\* The reader ends: the subscriptions' sinks are taken out with their last
\* callbacks to make.
LEMMA ReaderSweepsStep ==
    ASSUME Inv, ReaderSweeps PROVE Inv'
<1> USE DEF conn, slots, reader, host, hist, caller
<1>1. /\ rpc = "sweep" /\ rpc' = "closing" /\ rcb = {}
      /\ UNCHANGED <<conn, alive, pending, answer, result, active, dpc, host, hist>>
      /\ sinks' = sinks \ Subs /\ done' = done \ Subs /\ failed' = failed \ Subs
      /\ rcb' = {[id |-> c, last |-> TRUE] : c \in sinks \cap Subs}
  BY DEF ReaderSweeps, Erase, Inv, Reader
<1>2. /\ pc' \in [Ids -> Places]
      /\ \A e \in Ids : pc'[e] = pc[e] \/ (pc[e] = "asleep" /\ pc'[e] = "check")
  BY Wakes DEF ReaderSweeps
<1>3. \A r \in rcb' : r \in Callback /\ r.last /\ r.id \in sinks \cap Subs
  <2> TAKE r \in rcb'
  <2>1. PICK e \in sinks \cap Subs : r = [id |-> e, last |-> TRUE]
    BY <1>1
  <2> QED BY <2>1 DEF Callback
<1>4. \A e \in Ids : Due(e)' => e \in sinks \cap Subs
  BY <1>3 DEF Due
<1>5. \A e \in Ids : /\ ~Called(e) /\ ~Called(e)' /\ ~Due(e)
                     /\ Ended(e)' <=> Ended(e)
                     /\ Over(e) <=> Over(e)'
  BY <1>1, <1>2 DEF Called, Due, Ended, Over
<1>6. Types'
  BY <1>1, <1>2, <1>3, ReaderTypes DEF Inv, Types, TypeOK
<1>7. Reader'
  BY <1>1, <1>3 DEF Reader
<1>8. Slots'
  <2> SUFFICES ASSUME NEW e \in Ids PROVE SlotOf(e)'
    BY DEF Slots
  <2>1. SlotOf(e)
    BY DEF Inv, Slots
  <2>2. pc'[e] \in {"idle", "found"} => \A r \in rcb' : r.id # e
    BY <1>2, <1>3, <2>1 DEF SlotOf
  <2>3. /\ pc'[e] \in {"idle", "found"} => pc[e] = pc'[e]
        /\ e \in Streams => (e \in sinks' <=> e \in sinks)
        /\ e \in sinks' => e \in sinks
        /\ e \in done' => e \in done
    BY <1>1, <1>2, CallsConstants
  <2>4. e \in Subs => e \notin sinks'
    BY <1>1
  <2>5. UNCHANGED <<log, late, pending, active>>
    BY <1>1
  <2> QED BY <1>2, <1>5, <2>1, <2>2, <2>3, <2>4, <2>5 DEF SlotOf, Over
<1>9. Callbacks'
  <2> SUFFICES ASSUME NEW e \in Ids PROVE CallbackOf(e)'
    BY DEF Callbacks
  <2>1. SlotOf(e) /\ CallbackOf(e) /\ UNCHANGED <<log, late>>
    BY <1>1 DEF Inv, Slots, Callbacks
  <2>2. Due(e)' => ~Ended(e) /\ ~Over(e)
    BY <1>4, <1>5, <2>1 DEF SlotOf
  <2> QED BY <1>5, <2>1, <2>2 DEF CallbackOf
<1>10. Wire' /\ Track'
  <2>1. \A e \in Ids : Unasked(e)' => Unasked(e)
    BY <1>2 DEF Unasked
  <2>2. ASSUME NEW e \in Streams PROVE (Finished(e)' <=> Finished(e)) /\ Passed(e)' = Passed(e)
    <3>1. ~Due(e) /\ ~Due(e)' /\ ~LastDue(e) /\ ~LastDue(e)'
      BY <1>1, <1>3, CallsConstants DEF Due, LastDue
    <3> QED BY <1>1, <3>1 DEF Finished, Passed, Ended, One
  <2>3. ~Reading'
    BY <1>1 DEF Reading
  <2>4. \A e \in Streams : e \in done' \ failed' => e \in done \ failed
    BY <1>1, CallsConstants
  <2> QED BY <1>1, <1>5, <2>1, <2>2, <2>3, <2>4, StreamFrame DEF Up, Ids
<1> QED BY <1>6, <1>7, <1>8, <1>9, <1>10 DEF Inv

-----------------------------------------------------------------------------
(* The reader taking a frame.                                              *)

\* What taking a frame does to the frames in flight.
LEMMA FrameTaken ==
    ASSUME Inv, s2c # <<>>, s2c' = Tail(s2c)
    PROVE  /\ s2c' \in Seq(Message) /\ Len(s2c') \in Nat /\ Len(s2c) = Len(s2c') + 1
           /\ DOMAIN s2c = 1 .. Len(s2c') + 1 /\ DOMAIN s2c' = 1 .. Len(s2c')
           /\ \A i \in 1 .. Len(s2c') : s2c'[i] = s2c[i + 1]
           /\ Head(s2c) = s2c[1] /\ s2c[1] \in Message
<1>1. s2c \in Seq(Message)
  BY DEF Inv, Types
<1>2. /\ s2c' \in Seq(Message) /\ Len(s2c') \in Nat /\ Len(s2c) = Len(s2c') + 1
      /\ DOMAIN s2c = 1 .. Len(s2c') + 1 /\ DOMAIN s2c' = 1 .. Len(s2c')
      /\ \A i \in 1 .. Len(s2c') : s2c'[i] = s2c[i + 1]
      /\ Head(s2c) = s2c[1]
  BY <1>1
<1>3. 1 \in DOMAIN s2c
  BY <1>2
<1>4. s2c[1] \in Message
  BY <1>1, <1>3, ElementsOf
<1> QED BY <1>2, <1>4

\* A frame less in flight to the client: stream c is served as before.
LEMMA WireTail ==
    ASSUME Inv, NEW c \in Streams, s2c # <<>>, s2c' = Tail(s2c), UNCHANGED <<c2s, hcur, chunks>>,
           Unasked(c)' => Unasked(c),
           Finished(c)' => Finished(c) \/ (IsChunk(s2c[1], c) /\ s2c[1].last)
    PROVE  WireOf(c)'
<1>1. WireOf(c)
  BY DEF Inv, Wire
<1>2. Requested(c)' <=> Requested(c)
  BY DEF Requested
<1>3. /\ DOMAIN s2c = 1 .. Len(s2c') + 1 /\ DOMAIN s2c' = 1 .. Len(s2c') /\ Len(s2c') \in Nat
      /\ \A i \in 1 .. Len(s2c') : s2c'[i] = s2c[i + 1]
  BY FrameTaken
<1>4. \A i \in DOMAIN s2c' : i + 1 \in DOMAIN s2c /\ s2c'[i] = s2c[i + 1] /\ i \in Nat
  BY <1>3
<1>5. 1 \in DOMAIN s2c
  BY <1>3
<1>6. CASE IsChunk(s2c[1], c) /\ s2c[1].last
  <2>1. \A i \in DOMAIN s2c' : ~IsChunk(s2c'[i], c)
    <3> SUFFICES ASSUME NEW i \in DOMAIN s2c', IsChunk(s2c'[i], c) PROVE FALSE
      OBVIOUS
    <3>1. i + 1 <= 1
      BY <1>1, <1>4, <1>5, <1>6 DEF WireOf
    <3> QED BY <1>3, <3>1
  <2>2. c \notin hcur /\ ~Unasked(c) /\ ~Requested(c)
    BY <1>1, <1>5, <1>6 DEF WireOf
  <2> QED BY <1>2, <2>1, <2>2 DEF WireOf
<1>7. CASE ~(IsChunk(s2c[1], c) /\ s2c[1].last)
  <2>1. Finished(c)' => Finished(c)
    BY <1>7
  <2>2. \A i \in DOMAIN s2c' : IsChunk(s2c'[i], c) =>
          /\ ~Finished(c)
          /\ s2c'[i].last => \A j \in DOMAIN s2c' : IsChunk(s2c'[j], c) => j <= i
    <3> SUFFICES ASSUME NEW i \in DOMAIN s2c', IsChunk(s2c'[i], c)
                 PROVE  /\ ~Finished(c)
                        /\ s2c'[i].last => \A j \in DOMAIN s2c' : IsChunk(s2c'[j], c) => j <= i
      OBVIOUS
    <3>1. ~Finished(c)
      BY <1>1, <1>4 DEF WireOf
    <3>2. ASSUME s2c'[i].last, NEW j \in DOMAIN s2c', IsChunk(s2c'[j], c) PROVE j <= i
      <4>1. j + 1 <= i + 1
        BY <1>1, <1>4, <3>2 DEF WireOf
      <4> QED BY <1>4, <4>1
    <3> QED BY <3>1, <3>2
  <2>3. c \in hcur => \A i \in DOMAIN s2c' : IsChunk(s2c'[i], c) => ~s2c'[i].last
    BY <1>1, <1>4 DEF WireOf
  <2>4. Unasked(c) \/ Requested(c) => \A i \in DOMAIN s2c' : ~IsChunk(s2c'[i], c)
    BY <1>1, <1>4 DEF WireOf
  <2>5. /\ Unasked(c) \/ Requested(c) => c \notin hcur /\ chunks[c] = 0 /\ ~Finished(c)
        /\ c \in hcur => ~Finished(c)
    BY <1>1 DEF WireOf
  <2> QED BY <1>2, <2>1, <2>2, <2>3, <2>4, <2>5 DEF WireOf
<1> QED BY <1>6, <1>7

\* The chunk that leaves the wire is the one that becomes due.
LEMMA TrackTail ==
    ASSUME Inv, NEW c \in Streams, s2c # <<>>, s2c' = Tail(s2c), UNCHANGED <<cOpen, hOpen, chunks>>,
           Over(c) => Over(c)',
           Reading' /\ ~Over(c)' => Reading /\ Passed(c)' = Passed(c) + One(IsChunk(s2c[1], c)),
           Finished(c)' => \/ Finished(c) /\ Passed(c)' = Passed(c)
                           \/ /\ Reading /\ ~Over(c) /\ IsChunk(s2c[1], c) /\ s2c[1].last
                              /\ Passed(c)' = Passed(c) + 1,
           c \in done' \ failed' \/ result'[c] = "ok" => Finished(c)'
    PROVE  TrackOf(c)'
<1>1. TrackOf(c)
  BY DEF Inv, Track
<1>2. PICK n \in Nat : n = Len(s2c')
  BY FrameTaken
<1>3. /\ Len(s2c) = n + 1 /\ DOMAIN s2c = 1 .. n + 1 /\ DOMAIN s2c' = 1 .. n
      /\ \A i \in 1 .. n : s2c'[i] = s2c[i + 1]
  BY <1>2, FrameTaken
<1>4. PICK m \in Nat : m = chunks[c] /\ m = chunks'[c]
  BY DEF Inv, Types, Ids
<1>5. ASSUME Reading', ~Over(c)'
      PROVE  \E g \in [1 .. n + 1 -> 0 .. m] : Passes(c, g)'
  <2>0. Reading /\ ~Over(c) /\ Passed(c)' = Passed(c) + One(IsChunk(s2c[1], c))
    BY <1>5
  <2>1. PICK d \in [1 .. n + 2 -> 0 .. m] : Passes(c, d)
    <3>1. PICK d \in [1 .. Len(s2c) + 1 -> 0 .. chunks[c]] : Passes(c, d)
      BY <1>1, <2>0 DEF TrackOf
    <3>2. 1 .. Len(s2c) + 1 = 1 .. n + 2
      BY <1>3
    <3> QED BY <1>4, <3>1, <3>2
  <2>2. /\ d[1] = Passed(c)
        /\ \A i \in 1 .. n + 1 : d[i + 1] = d[i] + One(IsChunk(s2c[i], c))
        /\ \A i \in 1 .. n + 1 : IsChunk(s2c[i], c) /\ s2c[i].last =>
              \A j \in i + 1 .. n + 2 : d[j] = m
        /\ Up => d[n + 2] = m
    <3>1. Len(s2c) + 1 = n + 2 /\ DOMAIN s2c = 1 .. n + 1 /\ m = chunks[c]
      BY <1>3, <1>4
    <3>2. d[1] = Passed(c) /\ \A i \in 1 .. n + 1 : d[i + 1] = d[i] + One(IsChunk(s2c[i], c))
      BY <2>1, <3>1 DEF Passes
    <3>3. \A i \in 1 .. n + 1 : IsChunk(s2c[i], c) /\ s2c[i].last => \A j \in i + 1 .. n + 2 : d[j] = m
      BY <2>1, <3>1 DEF Passes
    <3>4. Up => d[n + 2] = m
      BY <2>1, <3>1 DEF Passes
    <3> QED BY <3>2, <3>3, <3>4
  <2>3. PICK g \in [1 .. n + 1 -> 0 .. m] : \A i \in 1 .. n + 1 : g[i] = d[i + 1]
    <3> DEFINE w == [i \in 1 .. n + 1 |-> d[i + 1]]
    <3>1. w \in [1 .. n + 1 -> 0 .. m]
      BY <2>1
    <3>2. \A i \in 1 .. n + 1 : w[i] = d[i + 1]
      OBVIOUS
    <3> HIDE DEF w
    <3> QED BY <3>1, <3>2
  <2>4. g[1] = Passed(c)'
    <3>1. 1 \in 1 .. n + 1 /\ 1 + 1 = 2
      OBVIOUS
    <3>2. g[1] = d[2] /\ d[2] = d[1] + One(IsChunk(s2c[1], c))
      BY <2>2, <2>3, <3>1
    <3> QED BY <2>0, <2>2, <3>2
  <2>5. \A i \in 1 .. n : g[i + 1] = g[i] + One(IsChunk(s2c'[i], c))
    <3> TAKE i \in 1 .. n
    <3>1. i + 1 \in 1 .. n + 1 /\ i \in 1 .. n + 1
      OBVIOUS
    <3>2. PICK k \in 1 .. n + 1 : k = i + 1
      BY <3>1
    <3>3. g[k] = d[k + 1] /\ g[i] = d[k] /\ d[k + 1] = d[k] + One(IsChunk(s2c[k], c))
      BY <2>2, <2>3, <3>1, <3>2
    <3>4. s2c'[i] = s2c[k]
      BY <1>3, <3>2
    <3> QED BY <3>2, <3>3, <3>4
  <2>6. \A i \in 1 .. n : IsChunk(s2c'[i], c) /\ s2c'[i].last => \A j \in i + 1 .. n + 1 : g[j] = m
    <3> TAKE i \in 1 .. n
    <3>1. PICK k \in 1 .. n + 1 : k = i + 1
      OBVIOUS
    <3>2. s2c'[i] = s2c[k]
      BY <1>3, <3>1
    <3>3. ASSUME IsChunk(s2c[k], c), s2c[k].last, NEW j \in k .. n + 1 PROVE g[j] = m
      <4>1. j + 1 \in k + 1 .. n + 2 /\ j \in 1 .. n + 1
        OBVIOUS
      <4> QED BY <2>2, <2>3, <3>3, <4>1
    <3> QED BY <3>1, <3>2, <3>3
  <2>7. Up' => g[n + 1] = m
    <3>1. n + 1 \in 1 .. n + 1 /\ n + 1 + 1 = n + 2
      OBVIOUS
    <3>2. g[n + 1] = d[n + 2]
      BY <2>3, <3>1
    <3> QED BY <2>2, <3>2 DEF Up
  <2>8. Passes(c, g)'
    BY <1>2, <1>3, <1>4, <2>4, <2>5, <2>6, <2>7 DEF Passes
  <2> QED BY <2>8
<1>6. ASSUME Finished(c)' PROVE Passed(c)' = m
  <2>1. CASE Finished(c) /\ Passed(c)' = Passed(c)
    BY <1>1, <1>4, <2>1 DEF TrackOf
  <2>2. CASE /\ Reading /\ ~Over(c) /\ IsChunk(s2c[1], c) /\ s2c[1].last
             /\ Passed(c)' = Passed(c) + 1
    <3>1. PICK d \in [1 .. Len(s2c) + 1 -> 0 .. chunks[c]] : Passes(c, d)
      BY <1>1, <2>2 DEF TrackOf
    <3>2. 1 \in DOMAIN s2c /\ 2 \in 1 + 1 .. Len(s2c) + 1 /\ 1 + 1 = 2
      BY <1>3
    <3>3. d[1] = Passed(c) /\ d[2] = d[1] + One(IsChunk(s2c[1], c)) /\ d[2] = chunks[c]
      BY <2>2, <3>1, <3>2 DEF Passes
    <3>4. One(IsChunk(s2c[1], c)) = 1
      BY <2>2 DEF One
    <3> QED BY <1>4, <2>2, <3>3, <3>4
  <2> QED BY <1>6, <2>1, <2>2
<1> QED BY <1>2, <1>4, <1>5, <1>6 DEF TrackOf

\* A chunk: its sink is found and its callback is due, or it is for nobody.
LEMMA ReaderChunkStep ==
    ASSUME Inv, ReaderChunk PROVE Inv'
<1> USE DEF conn, slots, reader, host, hist, caller
<1>1. /\ rpc = "read" /\ rcb = {} /\ s2c # <<>> /\ s2c' = Tail(s2c)
      /\ UNCHANGED <<c2s, cOpen, hOpen, alive, pending, answer, sinks, failed, pc, result, active,
                     dpc, host, hist>>
  BY DEF ReaderChunk, Takes, Inv, Reader
<1>0. /\ s2c' \in Seq(Message) /\ Head(s2c) = s2c[1] /\ s2c[1] \in Message
      /\ Len(s2c') \in Nat /\ DOMAIN s2c = 1 .. Len(s2c') + 1
  BY <1>1, FrameTaken
<1>f. PICK f \in Message : f = s2c[1]
  BY <1>0
<1> DEFINE c == f.id
<1>2. /\ s2c' \in Seq(Message) /\ Head(s2c) = f /\ f \in Message
      /\ Len(s2c') \in Nat /\ DOMAIN s2c = 1 .. Len(s2c') + 1
  BY <1>0, <1>f
<1>3. f.kind = "chunk" /\ c \in Ids /\ f.last \in BOOLEAN
  BY <1>2 DEF ReaderChunk, Takes, Message
<1>4. \/ /\ c \in sinks /\ rpc' = "call" /\ rcb' = {[id |-> c, last |-> f.last]}
         /\ done' = IF f.last THEN done \cup {c} ELSE done
      \/ /\ c \notin sinks /\ rpc' \in {"head", "called"} /\ rcb' = {} /\ done' = done
  BY <1>2 DEF ReaderChunk
<1>5. 1 \in DOMAIN s2c
  BY <1>2
<1>6. IsChunk(f, c) /\ \A e \in Ids : IsChunk(f, e) => e = c
  BY <1>3 DEF IsChunk
<1> HIDE DEF c
<1>7. /\ rcb' \subseteq Callback
      /\ c \in sinks => rcb' = {[id |-> c, last |-> f.last]} /\ [id |-> c, last |-> f.last] \in Callback
  BY <1>3, <1>4 DEF Inv, Types, TypeOK, Callback
<1>8. Types'
  <2>1. \A i \in DOMAIN s2c' : s2c'[i] \in Message
    BY <1>2, ElementsOf
  <2>2. /\ rpc' \in {"head", "read", "call", "called", "refused", "wakeGets", "sweep", "closing", "gone"}
        /\ rpc' \in {"head", "read"} => rcb' = {}
    BY <1>4
  <2> QED BY <1>1, <1>2, <1>7, <2>1, <2>2 DEF Inv, Types, TypeOK, Message
<1>9. Reader'
  BY <1>4, <1>7 DEF Reader
<1>10. \A e \in Ids : /\ ~Due(e) /\ ~LastDue(e) /\ ~Called(e) /\ ~Called(e)'
                      /\ Ended(e)' <=> Ended(e)
                      /\ Over(e)' <=> Over(e)
                      /\ Due(e)' <=> c \in sinks /\ e = c
                      /\ LastDue(e)' <=> c \in sinks /\ e = c /\ f.last
  <2> TAKE e \in Ids
  <2>1. ~Due(e) /\ ~LastDue(e) /\ ~Called(e) /\ ~Called(e)'
    BY <1>1, <1>4 DEF Due, LastDue, Called
  <2>2. (Ended(e)' <=> Ended(e)) /\ (Over(e)' <=> Over(e))
    BY <1>1 DEF Ended, Over
  <2>3. CASE c \notin sinks
    <3>1. ~Due(e)' /\ ~LastDue(e)'
      BY <1>4, <2>3 DEF Due, LastDue
    <3> QED BY <2>1, <2>2, <2>3, <3>1
  <2>4. CASE c \in sinks
    <3>1. PICK r \in Callback : rcb' = {r} /\ r.id = c /\ r.last = f.last
      BY <1>7, <2>4
    <3>2. rpc' = "call"
      BY <1>4, <2>4
    <3>3. Due(e)' <=> e = c
      BY <3>1, <3>2 DEF Due
    <3>4. LastDue(e)' <=> e = c /\ f.last
      BY <3>1, <3>2 DEF LastDue
    <3> QED BY <2>1, <2>2, <2>4, <3>3, <3>4
  <2> QED BY <2>3, <2>4
<1>11. c \in sinks => ~Over(c) /\ pc[c] \notin {"idle", "found"} /\ ~Ended(c)
  <2> SUFFICES ASSUME c \in sinks PROVE ~Over(c) /\ pc[c] \notin {"idle", "found"} /\ ~Ended(c)
    OBVIOUS
  <2>1. SlotOf(c) /\ ~Called(c)
    BY <1>3, <1>10 DEF Inv, Slots
  <2>2. ~Over(c) /\ pc[c] \notin {"idle", "found"}
    BY <2>1 DEF SlotOf
  <2>3. CASE c \in Subs
    BY <2>1, <2>2, <2>3 DEF SlotOf
  <2>4. CASE c \in Streams
    <3>1. WireOf(c)
      BY <2>4 DEF Inv, Wire
    <3>2. ~Finished(c)
      BY <1>5, <1>6, <1>f, <3>1 DEF WireOf
    <3> QED BY <2>2, <3>2 DEF Finished
  <2> QED BY <2>3, <2>4 DEF Inv, Types, TypeOK
<1>12. ASSUME NEW e \in Ids PROVE SlotOf(e)' /\ CallbackOf(e)'
  <2>1. SlotOf(e) /\ CallbackOf(e)
    BY DEF Inv, Slots, Callbacks
  <2>2. SlotOf(e)'
    <3>1. pc[e] \in {"idle", "found"} => e \notin done' /\ \A r \in rcb' : r.id # e
      BY <1>4, <1>11, <2>1 DEF SlotOf
    <3>2. UNCHANGED <<pc, sinks, pending, log, late, active>>
      BY <1>1
    <3> QED BY <1>10, <2>1, <3>1, <3>2 DEF SlotOf
  <2>3. CallbackOf(e)'
    BY <1>1, <1>10, <1>11, <2>1 DEF CallbackOf
  <2> QED BY <2>2, <2>3
<1>13. Wire'
  <2>1. Sent'
    BY <1>1 DEF Inv, Wire, Sent, Requested, Unasked
  <2>2. ASSUME NEW e \in Streams PROVE WireOf(e)'
    <3>1. e \in Ids
      BY DEF Ids
    <3>2. Finished(e)' => Finished(e) \/ (IsChunk(s2c[1], e) /\ s2c[1].last)
      BY <1>6, <1>10, <1>f, <3>1 DEF Finished
    <3>3. Unasked(e)' => Unasked(e)
      BY <1>1 DEF Unasked
    <3> QED BY <1>1, <3>2, <3>3, WireTail
  <2> QED BY <2>1, <2>2 DEF Wire
<1>14. ASSUME NEW e \in Streams PROVE TrackOf(e)'
  <2>0. e \in Ids /\ Len(log[e]) \in Nat
    BY DEF Ids, Inv, Types
  <2>1. Passed(e) = Len(log[e])
    <3>1. One(Due(e)) = 0
      BY <1>10, <2>0 DEF One
    <3> QED BY <2>0, <3>1 DEF Passed
  <2>2. Passed(e)' = Len(log[e]) + (IF c \in sinks /\ e = c THEN 1 ELSE 0)
    <3>1. log' = log /\ (Due(e)' <=> c \in sinks /\ e = c)
      BY <1>1, <1>10, <2>0
    <3> QED BY <3>1, <2>0 DEF Passed, One
  <2>3. ~Over(e) /\ IsChunk(f, e) => c \in sinks
    <3> SUFFICES ASSUME ~Over(e), IsChunk(f, e) PROVE c \in sinks
      OBVIOUS
    <3>1. e = c /\ SlotOf(e) /\ WireOf(e)
      BY <1>6, <2>0 DEF Inv, Slots, Wire
    <3>2. ~Unasked(e)
      BY <1>5, <1>f, <3>1 DEF WireOf
    <3> QED BY <3>1, <3>2 DEF SlotOf, Unasked, Over
  <2>4. Over(e) => Over(e)'
    BY <1>10, <2>0
  <2>5. ~Over(e)' => Reading /\ Passed(e)' = Passed(e) + One(IsChunk(s2c[1], e))
    <3> SUFFICES ASSUME ~Over(e) PROVE Reading /\ Passed(e)' = Passed(e) + One(IsChunk(f, e))
      BY <1>10, <2>0, <1>f
    <3>1. Reading
      BY <1>1 DEF Reading
    <3>2. IsChunk(f, e) <=> c \in sinks /\ e = c
      <4>1. IsChunk(f, e) => c \in sinks /\ e = c
        BY <1>6, <2>0, <2>3
      <4> QED BY <4>1, <1>6
    <3> QED BY <2>0, <2>1, <2>2, <3>1, <3>2 DEF One
  <2>6. Finished(e)' => \/ Finished(e) /\ Passed(e)' = Passed(e)
                        \/ /\ Reading /\ ~Over(e) /\ IsChunk(s2c[1], e) /\ s2c[1].last
                           /\ Passed(e)' = Passed(e) + 1
    <3>1. CASE Ended(e)
      <4>1. ~(c \in sinks /\ e = c)
        BY <1>11, <3>1
      <4>2. Passed(e)' = Passed(e)
        <5>1. One(Due(e))' = 0
          BY <1>10, <2>0, <4>1 DEF One
        <5>2. log' = log
          BY <1>1
        <5> QED BY <2>0, <2>1, <5>1, <5>2 DEF Passed
      <4> QED BY <3>1, <4>2 DEF Finished
    <3>2. CASE LastDue(e)'
      <4>1. c \in sinks /\ e = c /\ f.last
        BY <1>10, <2>0, <3>2
      <4> QED BY <1>1, <1>6, <1>11, <1>f, <2>0, <2>1, <2>2, <4>1 DEF Reading
    <3> QED BY <1>10, <2>0, <3>1, <3>2 DEF Finished
  <2>7. c \in sinks /\ f.last => Finished(c)'
    BY <1>3, <1>10 DEF Finished
  <2>8. e \in done' \ failed' \/ result'[e] = "ok" => Finished(e)'
    <3>1. e \in done \ failed \/ result[e] = "ok" => Finished(e)'
      BY <1>10, <2>0 DEF Inv, Track, TrackOf, Finished
    <3>2. e \in done' /\ e \notin done => Finished(e)'
      BY <1>4, <2>7
    <3> QED BY <1>1, <3>1, <3>2
  <2> QED BY <1>1, <2>4, <2>5, <2>6, <2>8, TrackTail
<1> QED BY <1>8, <1>9, <1>12, <1>13, <1>14 DEF Inv, Slots, Callbacks, Track

\* A frame that is taken and is no chunk for a callback: the streams are as
\* before, unless the reader leaves.
LEMMA OtherTaken ==
    ASSUME Inv, rpc = "read", s2c # <<>>, s2c' = Tail(s2c), UNCHANGED <<c2s, cOpen, hOpen, host, result, log>>,
           \A e \in Ids : (Unasked(e)' => Unasked(e)) /\ (Over(e) => Over(e)'),
           Reading' => s2c[1].kind # "chunk",
           \A e \in Streams : ~Due(e)' /\ ~LastDue(e)' /\ (e \in done' \ failed' => e \in done \ failed)
    PROVE  Wire' /\ Track'
<1> USE DEF host
<1>1. ASSUME NEW e \in Streams
      PROVE  (Finished(e)' <=> Finished(e)) /\ Passed(e)' = Passed(e) /\ e \in Ids
  <2>1. ~Due(e) /\ ~LastDue(e)
    BY DEF Due, LastDue
  <2> QED BY <2>1 DEF Finished, Passed, One, Ended, Ids
<1>2. Sent'
  BY DEF Inv, Wire, Sent, Requested
<1>3. \A e \in Streams : WireOf(e)'
  BY <1>1, WireTail
<1>4. ASSUME NEW e \in Streams PROVE TrackOf(e)'
  <2>1. Reading' => Reading /\ Passed(e)' = Passed(e) + One(IsChunk(s2c[1], e))
    <3>1. Passed(e) \in Nat
      <4>1. Len(log[e]) \in Nat /\ One(Due(e)) \in Nat
        BY <1>1 DEF One, Inv, Types
      <4> QED BY <4>1 DEF Passed
    <3>2. Reading
      BY DEF Reading
    <3>3. Reading' => ~IsChunk(s2c[1], e)
      BY DEF IsChunk
    <3>4. ~IsChunk(s2c[1], e) => One(IsChunk(s2c[1], e)) = 0
      BY DEF One
    <3> QED BY <1>1, <3>1, <3>2, <3>3, <3>4
  <2>2. e \in done' \ failed' \/ result'[e] = "ok" => Finished(e)'
    BY <1>1 DEF Inv, Track, TrackOf
  <2> QED BY <1>1, <2>1, <2>2, TrackTail
<1> QED BY <1>2, <1>3, <1>4 DEF Wire, Track

\* The reader leaves its loop: what is still in flight is not counted.
LEMMA ReaderLeavesStep ==
    ASSUME Inv, ReaderLeaves PROVE Inv'
<1> USE DEF conn, slots, reader, host, hist, caller
<1>1. /\ rpc = "read" /\ rcb = {} /\ rpc' = "wakeGets" /\ alive' = FALSE
      /\ UNCHANGED <<c2s, cOpen, hOpen, slots, caller, active, rcb, dpc, host, hist>>
      /\ s2c' = s2c \/ (s2c # <<>> /\ s2c' = Tail(s2c))
  BY DEF ReaderLeaves, Takes, Inv, Reader
<1>2. s2c' \in Seq(Message)
  BY <1>1, FrameTaken DEF Inv, Types
<1>3. Types'
  <2>1. \A i \in DOMAIN s2c' : s2c'[i] \in Message
    BY <1>2, ElementsOf
  <2> QED BY <1>1, <1>2, <2>1 DEF Inv, Types, TypeOK, Message
<1>4. Reader'
  BY <1>1 DEF Reader
<1>5. Slots' /\ Callbacks'
  BY <1>1 DEF Inv, Slots, SlotOf, Callbacks, CallbackOf, Over, Called, Ended, Due
<1>6. \A e \in Ids : (Unasked(e)' => Unasked(e)) /\ (Over(e) => Over(e)')
  BY <1>1 DEF Unasked, Over
<1>7. Wire' /\ Track'
  <2>1. ~Reading'
    BY <1>1 DEF Reading
  <2>2. CASE s2c' = s2c
    <3>1. \A e \in Streams : (Finished(e)' <=> Finished(e)) /\ Passed(e)' = Passed(e)
      BY <1>1 DEF Finished, Passed, LastDue, Ended, Due
    <3> QED BY <1>1, <1>6, <2>1, <2>2, <3>1, StreamFrame DEF Up, Ids
  <2>3. CASE s2c # <<>> /\ s2c' = Tail(s2c)
    <3>1. \A e \in Streams : ~Due(e)' /\ ~LastDue(e)'
      BY <1>1 DEF Due, LastDue
    <3> QED BY <1>1, <1>6, <2>1, <2>3, <3>1, OtherTaken
  <2> QED BY <1>1, <2>2, <2>3
<1> QED BY <1>3, <1>4, <1>5, <1>7 DEF Inv

\* A response: to a get(), or the refusal of a stream or of a subscription.
LEMMA ReaderResponseStep ==
    ASSUME Inv, ReaderResponse PROVE Inv'
<1> USE DEF conn, slots, reader, host, hist, caller
<1>1. /\ rpc = "read" /\ rcb = {} /\ s2c # <<>> /\ s2c' = Tail(s2c) /\ Head(s2c).kind = "response"
      /\ UNCHANGED <<c2s, cOpen, hOpen, alive, pending, result, active, dpc, host, hist>>
  BY DEF ReaderResponse, Takes, Inv, Reader
<1>2. /\ s2c' \in Seq(Message) /\ Head(s2c) = s2c[1] /\ s2c[1] \in Message
  BY <1>1, FrameTaken
<1>0. s2c[1].id \in Ids /\ s2c[1].kind # "chunk"
  BY <1>1, <1>2 DEF Message
<1>3. PICK c \in Ids : c = s2c[1].id
  BY <1>0
<1>4. \/ /\ c \in pending /\ answer' = answer \cup {c} /\ pc' = Notified(pc, Gets) /\ rpc' = "head"
         /\ UNCHANGED <<sinks, done, failed, rcb>>
      \/ /\ c \in sinks \cap Streams /\ failed' = failed \cup {c} /\ done' = done \cup {c}
         /\ pc' = Notified(pc, Streams) /\ rpc' = "head" /\ UNCHANGED <<answer, sinks, rcb>>
      \/ /\ c \in sinks \cap Subs /\ sinks' = sinks \ {c} /\ done' = done \ {c} /\ failed' = failed \ {c}
         /\ rpc' = "refused" /\ rcb' = {[id |-> c, last |-> TRUE]}
         /\ pc' = Notified(pc, Streams) /\ answer' = answer
      \/ /\ rpc' = "head" /\ UNCHANGED <<answer, sinks, done, failed, pc, rcb>>
  BY <1>2, <1>3 DEF ReaderResponse, Erase
<1>5. /\ pc' \in [Ids -> Places]
      /\ \A e \in Ids : pc'[e] = pc[e] \/ (pc[e] = "asleep" /\ pc'[e] = "check")
  <2>1. CASE pc' = pc
    BY <2>1 DEF Inv, Types, TypeOK, Places
  <2> QED BY <1>4, <2>1, Wakes
<1>6. /\ rpc' = "head" => rcb' = {} /\ sinks' = sinks
      /\ rpc' \in {"head", "refused"}
      /\ rpc' = "refused" => /\ rcb' = {[id |-> c, last |-> TRUE]} /\ c \in sinks \cap Subs
                             /\ sinks' = sinks \ {c} /\ done' \subseteq done
      /\ rcb' \subseteq Callback /\ answer' \subseteq pending
      /\ sinks' \subseteq sinks
  <2>1. c \in Subs => [id |-> c, last |-> TRUE] \in Callback
    BY DEF Callback
  <2>2. answer \subseteq pending
    BY DEF Inv, Types, TypeOK
  <2> QED BY <1>1, <1>4, <2>1, <2>2
<1>7. Types'
  <2>1. \A i \in DOMAIN s2c' : s2c'[i] \in Message
    BY <1>2, ElementsOf
  <2> QED BY <1>1, <1>2, <1>5, <1>6, <2>1 DEF Inv, Types, TypeOK, Message, Places
<1>8. Reader'
  <2>1. CASE rpc' = "head"
    BY <1>6, <2>1 DEF Reader
  <2>2. CASE rpc' = "refused"
    <3>1. PICK r \in Callback : rcb' = {r} /\ r.id = c /\ r.last = TRUE
      <4> DEFINE w == [id |-> c, last |-> TRUE]
      <4>1. w \in Callback /\ w.id = c /\ w.last = TRUE
        BY <1>6, <2>2 DEF Callback
      <4>2. rcb' = {w}
        BY <1>6, <2>2
      <4> HIDE DEF w
      <4> QED BY <4>1, <4>2
    <3> QED BY <1>6, <2>2, <3>1 DEF Reader
  <2> QED BY <1>6, <2>1, <2>2
<1>9. \A e \in Ids : /\ ~Due(e) /\ ~Called(e) /\ ~Called(e)'
                     /\ Ended(e)' <=> Ended(e)
                     /\ Over(e)' <=> Over(e)
                     /\ Due(e)' => e \in sinks \cap Subs /\ e \notin sinks'
                     /\ Unasked(e)' => Unasked(e)
  BY <1>1, <1>5, <1>6 DEF Due, Called, Ended, Over, Unasked
<1>10. ASSUME NEW e \in Ids PROVE SlotOf(e)' /\ CallbackOf(e)'
  <2>1. SlotOf(e) /\ CallbackOf(e)
    BY DEF Inv, Slots, Callbacks
  <2>2. UNCHANGED <<pending, log, late, active>>
    BY <1>1
  <2>3. SlotOf(e)'
    <3>1. pc'[e] \in {"idle", "found"} => pc[e] \in {"idle", "found"} /\ e \notin done' /\ \A r \in rcb' : r.id # e
      BY <1>1, <1>4, <1>5, <1>6, <2>1 DEF SlotOf
    <3>2. e \in Streams => (e \in sinks' <=> e \in sinks)
      BY <1>6, CallsConstants
    <3> QED BY <1>5, <1>6, <1>9, <2>1, <2>2, <3>1, <3>2 DEF SlotOf, Over
  <2>4. CallbackOf(e)'
    <3>1. Due(e)' => ~Ended(e) /\ ~Over(e)
      BY <1>9, <2>1 DEF SlotOf
    <3> QED BY <1>9, <2>1, <2>2, <3>1 DEF CallbackOf
  <2> QED BY <2>3, <2>4
<1>11. Wire' /\ Track'
  <2>1. \A e \in Streams : ~Due(e)' /\ ~LastDue(e)'
    BY <1>6, CallsConstants DEF Due, LastDue
  <2>2. \A e \in Streams : e \in done' \ failed' => e \in done \ failed
    BY <1>4, CallsConstants
  <2> QED BY <1>0, <1>1, <1>9, <2>1, <2>2, OtherTaken
<1> QED BY <1>7, <1>8, <1>10, <1>11 DEF Inv, Slots, Callbacks

-----------------------------------------------------------------------------
(* The host.                                                               *)

\* A step of the host leaves the client as it is.
LEMMA HostFrame ==
    ASSUME Inv, UNCHANGED hostFrame
    PROVE  /\ Reader' /\ Slots' /\ Callbacks'
           /\ Reading' <=> Reading
           /\ \A e \in Ids : /\ Unasked(e)' <=> Unasked(e)
                             /\ Over(e)' <=> Over(e)
                             /\ Finished(e)' <=> Finished(e)
                             /\ Passed(e)' = Passed(e)
<1> USE DEF hostFrame, slots, caller, reader, hist
<1>1. UNCHANGED <<rpc, rcb, pc, sinks, pending, done, active, log, late>>
  OBVIOUS
<1>2. Reader' /\ Slots' /\ Callbacks'
  BY <1>1 DEF Inv, Reader, Slots, SlotOf, Callbacks, CallbackOf, Over, Called, Ended, Due
<1>3. Reading' <=> Reading
  BY <1>1 DEF Reading
<1>4. ASSUME NEW e \in Ids
      PROVE  /\ Unasked(e)' <=> Unasked(e)
             /\ Over(e)' <=> Over(e)
             /\ Finished(e)' <=> Finished(e)
             /\ Passed(e)' = Passed(e)
  BY <1>1 DEF Unasked, Over, Finished, Passed, LastDue, Ended, Due
<1> QED BY <1>2, <1>3, <1>4

\* A request is taken: no other request for the same call is left.
LEMMA RequestTaken ==
    ASSUME Inv, UNCHANGED pc, c2s # <<>>, c2s' = Tail(c2s)
    PROVE  /\ c2s' \in Seq(Request) /\ Sent' /\ Head(c2s) \in Request
           /\ \A e \in Ids : Requested(e)' => Requested(e)
           /\ Head(c2s).kind = "call" =>
                 Requested(Head(c2s).id) /\ \A e \in Ids : e = Head(c2s).id => ~Requested(e)'
<1>1. c2s \in Seq(Request)
  BY DEF Inv, Types
<1>2. /\ c2s' \in Seq(Request) /\ Len(c2s') \in Nat
      /\ DOMAIN c2s = 1 .. Len(c2s') + 1 /\ DOMAIN c2s' = 1 .. Len(c2s')
      /\ \A i \in 1 .. Len(c2s') : c2s'[i] = c2s[i + 1]
      /\ Head(c2s) = c2s[1]
  BY <1>1
<1>3. 1 \in DOMAIN c2s /\ \A i \in DOMAIN c2s' : i + 1 \in DOMAIN c2s /\ c2s'[i] = c2s[i + 1] /\ i + 1 # 1 /\ i \in Nat
  BY <1>2
<1>4. Head(c2s) \in Request
  BY <1>1, <1>2, <1>3, ElementsOf
<1>5. \A e \in Ids : Requested(e)' => Requested(e)
  BY <1>3 DEF Requested
<1>6. \A i, j \in DOMAIN c2s :
         c2s[i].kind = "call" /\ c2s[j].kind = "call" /\ c2s[i].id = c2s[j].id => i = j
  BY DEF Inv, Wire, Sent
<1>7. Sent'
  <2>1. ASSUME NEW i \in DOMAIN c2s', NEW j \in DOMAIN c2s', c2s'[i].kind = "call", c2s'[j].kind = "call",
               c2s'[i].id = c2s'[j].id
        PROVE  i = j
    <3>1. i + 1 = j + 1
      BY <1>3, <1>6, <2>1
    <3> QED BY <1>3, <3>1
  <2>2. \A e \in Ids : Unasked(e)' => ~Requested(e)'
    BY <1>5 DEF Inv, Wire, Sent, Unasked
  <2> QED BY <2>1, <2>2 DEF Sent
<1>8. ASSUME Head(c2s).kind = "call"
      PROVE  Requested(Head(c2s).id) /\ \A e \in Ids : e = Head(c2s).id => ~Requested(e)'
  <2>1. Requested(Head(c2s).id)
    BY <1>2, <1>3, <1>8 DEF Requested
  <2>2. ASSUME NEW e \in Ids, e = Head(c2s).id, Requested(e)' PROVE FALSE
    <3>1. PICK i \in DOMAIN c2s' : c2s'[i].kind = "call" /\ c2s'[i].id = e
      BY <2>2 DEF Requested
    <3>2. i + 1 = 1
      BY <1>2, <1>3, <1>6, <1>8, <2>2, <3>1
    <3> QED BY <1>3, <3>2
  <2> QED BY <2>1, <2>2
<1> QED BY <1>2, <1>4, <1>5, <1>7, <1>8

\* Frames are appended, or dropped once the connection is cut.
LEMMA FramesAppended ==
    ASSUME s2c \in Seq(Message), NEW fs \in Seq(Message), Frames(fs)
    PROVE  /\ s2c' \in Seq(Message) /\ Len(s2c) \in Nat /\ Len(s2c') \in Nat /\ Len(s2c) <= Len(s2c')
           /\ DOMAIN s2c = 1 .. Len(s2c) /\ DOMAIN s2c' = 1 .. Len(s2c')
           /\ \A i \in 1 .. Len(s2c) : s2c'[i] = s2c[i]
           /\ \A i \in Len(s2c) + 1 .. Len(s2c') : \E j \in DOMAIN fs : s2c'[i] = fs[j]
           /\ ~Up => s2c' = s2c
           /\ Up => Len(s2c') = Len(s2c) + Len(fs)
<1>1. CASE ~Up
  <2>1. s2c' = s2c
    BY <1>1 DEF Frames
  <2> QED BY <1>1, <2>1
<1>2. CASE Up
  <2>1. s2c' = s2c \o fs
    BY <1>2 DEF Frames
  <2>2. /\ s2c' \in Seq(Message) /\ Len(s2c) \in Nat /\ Len(fs) \in Nat
        /\ Len(s2c') = Len(s2c) + Len(fs)
        /\ DOMAIN s2c = 1 .. Len(s2c) /\ DOMAIN s2c' = 1 .. Len(s2c') /\ DOMAIN fs = 1 .. Len(fs)
        /\ \A i \in 1 .. Len(s2c) : s2c'[i] = s2c[i]
    BY <2>1
  <2>3. ASSUME NEW i \in Len(s2c) + 1 .. Len(s2c') PROVE \E j \in DOMAIN fs : s2c'[i] = fs[j]
    <3>1. i - Len(s2c) \in DOMAIN fs /\ s2c'[i] = fs[i - Len(s2c)]
      BY <2>1, <2>2
    <3> QED BY <3>1
  <2> QED BY <1>2, <2>2, <2>3
<1> QED BY <1>1, <1>2

\* The frames of others leave stream c as it was.
LEMMA OthersAppended ==
    ASSUME Inv, UNCHANGED hostFrame, NEW c \in Streams, NEW fs \in Seq(Message), Frames(fs),
           \A i \in DOMAIN fs : ~IsChunk(fs[i], c),
           Up' => Up, chunks'[c] = chunks[c],
           Requested(c)' => Requested(c),
           c \in hcur' => c \in hcur \/ (Requested(c) /\ ~Requested(c)')
    PROVE  WireOf(c)' /\ TrackOf(c)'
<1>1. WireOf(c) /\ TrackOf(c) /\ c \in Ids
  BY DEF Inv, Wire, Track, Ids
<1>2. /\ Unasked(c)' <=> Unasked(c)
      /\ Over(c)' <=> Over(c)
      /\ Finished(c)' <=> Finished(c)
      /\ Passed(c)' = Passed(c)
      /\ Reading' <=> Reading
  BY <1>1, HostFrame
<1>3. PICK n \in Nat, k \in Nat : n = Len(s2c) /\ k = Len(s2c')
  BY FramesAppended DEF Inv, Types
<1>4. /\ n <= k /\ DOMAIN s2c = 1 .. n /\ DOMAIN s2c' = 1 .. k
      /\ \A i \in 1 .. n : s2c'[i] = s2c[i]
      /\ \A i \in n + 1 .. k : ~IsChunk(s2c'[i], c)
  BY <1>3, FramesAppended DEF Inv, Types
<1>5. \A i \in 1 .. k : IsChunk(s2c'[i], c) => i \in 1 .. n /\ s2c'[i] = s2c[i] /\ i \in DOMAIN s2c
  <2> TAKE i \in 1 .. k
  <2>1. i \in 1 .. n \/ i \in n + 1 .. k
    OBVIOUS
  <2> QED BY <1>4, <2>1
<1>6. WireOf(c)'
  <2>1. Unasked(c)' \/ Requested(c)' => Unasked(c) \/ Requested(c)
    BY <1>2
  <2>2. Unasked(c)' \/ Requested(c)' =>
          /\ c \notin hcur' /\ chunks'[c] = 0 /\ ~Finished(c)'
          /\ \A i \in DOMAIN s2c' : ~IsChunk(s2c'[i], c)
    <3> SUFFICES ASSUME Unasked(c)' \/ Requested(c)'
                 PROVE  /\ c \notin hcur' /\ chunks'[c] = 0 /\ ~Finished(c)'
                        /\ \A i \in DOMAIN s2c' : ~IsChunk(s2c'[i], c)
      OBVIOUS
    <3>1. /\ c \notin hcur /\ chunks[c] = 0 /\ ~Finished(c)
          /\ \A i \in DOMAIN s2c : ~IsChunk(s2c[i], c)
      BY <1>1, <2>1 DEF WireOf
    <3>2. Unasked(c)' => ~Requested(c)
      BY <1>1, <1>2 DEF Inv, Wire, Sent
    <3>3. c \notin hcur'
      BY <3>1, <3>2
    <3>4. \A i \in DOMAIN s2c' : ~IsChunk(s2c'[i], c)
      BY <1>4, <1>5, <3>1
    <3> QED BY <1>2, <3>1, <3>3, <3>4
  <2>3. c \in hcur' => /\ ~Finished(c)'
                       /\ \A i \in DOMAIN s2c' : IsChunk(s2c'[i], c) => ~s2c'[i].last
    BY <1>1, <1>2, <1>4, <1>5 DEF WireOf
  <2>4. \A i \in DOMAIN s2c' : IsChunk(s2c'[i], c) =>
          /\ ~Finished(c)'
          /\ s2c'[i].last => \A j \in DOMAIN s2c' : IsChunk(s2c'[j], c) => j <= i
    BY <1>1, <1>2, <1>4, <1>5 DEF WireOf
  <2> QED BY <2>2, <2>3, <2>4 DEF WireOf
<1>7. ASSUME Reading', ~Over(c)'
      PROVE  \E g \in [1 .. k + 1 -> 0 .. chunks[c]] : Passes(c, g)'
  <2>1. PICK d \in [1 .. n + 1 -> 0 .. chunks[c]] : Passes(c, d)
    BY <1>1, <1>2, <1>3, <1>7 DEF TrackOf
  <2>2. /\ d[1] = Passed(c)
        /\ \A i \in 1 .. n : d[i + 1] = d[i] + One(IsChunk(s2c[i], c))
        /\ \A i \in 1 .. n : IsChunk(s2c[i], c) /\ s2c[i].last => \A j \in i + 1 .. n + 1 : d[j] = chunks[c]
        /\ Up => d[n + 1] = chunks[c]
    BY <1>3, <1>4, <2>1 DEF Passes
  <2>3. PICK m \in Nat : m = chunks[c]
    BY <1>1 DEF Inv, Types
  <2>4. PICK g \in [1 .. k + 1 -> 0 .. m] : /\ \A i \in 1 .. n + 1 : g[i] = d[i]
                                           /\ \A i \in n + 1 .. k + 1 : g[i] = d[n + 1]
    <3> DEFINE w == [i \in 1 .. k + 1 |-> IF i <= n THEN d[i] ELSE d[n + 1]]
    <3>1. w \in [1 .. k + 1 -> 0 .. m]
      <4>1. \A i \in 1 .. n + 1 : d[i] \in 0 .. m
        BY <2>1, <2>3
      <4>2. n + 1 \in 1 .. n + 1 /\ \A i \in 1 .. k + 1 : i <= n => i \in 1 .. n + 1
        BY <1>4
      <4> QED BY <4>1, <4>2
    <3>2. \A i \in 1 .. n + 1 : w[i] = d[i]
      BY <1>4
    <3>3. \A i \in n + 1 .. k + 1 : w[i] = d[n + 1]
      BY <1>4
    <3> HIDE DEF w
    <3> QED BY <3>1, <3>2, <3>3
  <2>5. g[1] = Passed(c)'
    BY <1>2, <2>2, <2>4
  <2>6. \A i \in 1 .. k : g[i + 1] = g[i] + One(IsChunk(s2c'[i], c))
    <3> TAKE i \in 1 .. k
    <3>1. CASE i \in 1 .. n
      <4>1. i + 1 \in 1 .. n + 1 /\ i \in 1 .. n + 1
        BY <3>1
      <4> QED BY <1>4, <2>2, <2>4, <3>1, <4>1
    <3>2. CASE i \in n + 1 .. k
      <4>1. i + 1 \in n + 1 .. k + 1 /\ i \in n + 1 .. k + 1 /\ n + 1 \in 1 .. n + 1
        BY <3>2
      <4>2. g[i + 1] = d[n + 1] /\ g[i] = d[n + 1] /\ d[n + 1] \in Nat
        BY <2>1, <2>3, <2>4, <4>1
      <4>3. One(IsChunk(s2c'[i], c)) = 0
        BY <1>4, <3>2 DEF One
      <4> QED BY <4>2, <4>3
    <3> QED BY <3>1, <3>2
  <2>7. \A i \in 1 .. k : IsChunk(s2c'[i], c) /\ s2c'[i].last => \A j \in i + 1 .. k + 1 : g[j] = m
    <3> SUFFICES ASSUME NEW i \in 1 .. k, IsChunk(s2c'[i], c), s2c'[i].last, NEW j \in i + 1 .. k + 1
                 PROVE  g[j] = m
      OBVIOUS
    <3>1. i \in 1 .. n /\ s2c'[i] = s2c[i]
      BY <1>5
    <3>2. \A h \in i + 1 .. n + 1 : d[h] = m
      BY <2>2, <2>3, <3>1
    <3>3. CASE j \in i + 1 .. n + 1
      <4>1. j \in 1 .. n + 1
        BY <3>1, <3>3
      <4> QED BY <2>4, <3>2, <3>3, <4>1
    <3>4. CASE j \in n + 1 .. k + 1
      <4>1. n + 1 \in i + 1 .. n + 1
        BY <3>1
      <4> QED BY <2>4, <3>2, <3>4, <4>1
    <3>5. j \in i + 1 .. n + 1 \/ j \in n + 1 .. k + 1
      BY <3>1
    <3> QED BY <3>3, <3>4, <3>5
  <2>8. Up' => g[k + 1] = m
    <3>1. k + 1 \in n + 1 .. k + 1
      BY <1>4
    <3> QED BY <2>2, <2>3, <2>4, <3>1
  <2>9. Passes(c, g)'
    BY <1>3, <1>4, <2>3, <2>5, <2>6, <2>7, <2>8 DEF Passes
  <2> QED BY <2>3, <2>9
<1>8. /\ Finished(c)' => Passed(c)' = chunks'[c]
      /\ c \in done' \ failed' \/ result'[c] = "ok" => Finished(c)'
  BY <1>1, <1>2 DEF TrackOf, hostFrame, slots, caller
<1>9. TrackOf(c)'
  BY <1>3, <1>7, <1>8 DEF TrackOf
<1> QED BY <1>6, <1>9

\* The handler of stream c writes its next chunk, the last one when it returns.
LEMMA OwnAppended ==
    ASSUME Inv, UNCHANGED hostFrame, NEW c \in Streams, NEW last \in BOOLEAN, Frames(<<Chunk(c, last)>>),
           UNCHANGED <<hOpen, c2s>>, c \in hcur, chunks'[c] = chunks[c] + 1, last => c \notin hcur'
    PROVE  WireOf(c)' /\ TrackOf(c)'
<1>1. WireOf(c) /\ TrackOf(c) /\ c \in Ids
  BY DEF Inv, Wire, Track, Ids
<1>2. /\ Unasked(c)' <=> Unasked(c)
      /\ Over(c)' <=> Over(c)
      /\ Finished(c)' <=> Finished(c)
      /\ Passed(c)' = Passed(c)
      /\ Reading' <=> Reading
  BY <1>1, HostFrame
<1>3. /\ ~Finished(c) /\ ~Unasked(c) /\ ~Requested(c)
      /\ \A i \in DOMAIN s2c : IsChunk(s2c[i], c) => ~s2c[i].last
  BY <1>1 DEF WireOf
<1>4. Requested(c)' <=> Requested(c)
  BY DEF Requested
<1>5. PICK m \in Nat : m = chunks[c] /\ chunks'[c] = m + 1
  BY <1>1 DEF Inv, Types
<1>6. PICK x \in Message : x = Chunk(c, last) /\ IsChunk(x, c) /\ x.last = last
  <2>1. Chunk(c, last) \in Message /\ IsChunk(Chunk(c, last), c) /\ Chunk(c, last).last = last
    BY <1>1 DEF Message, Chunk, IsChunk
  <2> QED BY <2>1
<1>7. s2c \in Seq(Message) /\ Frames(<<x>>)
  BY <1>6 DEF Inv, Types
<1>8. c \in done' \ failed' \/ result'[c] = "ok" => Finished(c)'
  BY <1>1, <1>2 DEF TrackOf, hostFrame, slots, caller
<1>9. (Up' <=> Up)
  BY DEF Up, hostFrame
<1>10. CASE ~Up
  <2>1. s2c' = s2c
    BY <1>7, <1>10 DEF Frames
  <2>2. WireOf(c)'
    BY <1>1, <1>2, <1>3, <1>4, <2>1 DEF WireOf
  <2>3. ASSUME Reading', ~Over(c)'
        PROVE  \E g \in [1 .. Len(s2c') + 1 -> 0 .. chunks'[c]] : Passes(c, g)'
    <3>1. PICK d \in [1 .. Len(s2c) + 1 -> 0 .. chunks[c]] : Passes(c, d)
      BY <1>1, <1>2, <2>3 DEF TrackOf
    <3>2. d \in [1 .. Len(s2c') + 1 -> 0 .. chunks'[c]]
      <4>1. 0 .. chunks[c] \subseteq 0 .. chunks'[c]
        BY <1>5
      <4> QED BY <2>1, <3>1, <4>1
    <3>3. Passes(c, d)'
      BY <1>2, <1>3, <1>9, <1>10, <2>1, <3>1 DEF Passes
    <3> QED BY <3>2, <3>3
  <2>4. TrackOf(c)'
    BY <1>2, <1>3, <1>8, <2>3 DEF TrackOf
  <2> QED BY <2>2, <2>4
<1>11. CASE Up
  <2>0. s2c' = s2c \o <<x>>
    BY <1>7, <1>11 DEF Frames
  <2>1. PICK n \in Nat : n = Len(s2c)
    BY <1>7
  <2>2. /\ DOMAIN s2c = 1 .. n /\ DOMAIN s2c' = 1 .. n + 1 /\ Len(s2c') = n + 1
        /\ \A i \in 1 .. n : s2c'[i] = s2c[i]
        /\ s2c'[n + 1] = x
    BY <1>7, <2>0, <2>1
  <2>3. \A i \in 1 .. n + 1 : i \in 1 .. n \/ i = n + 1
    OBVIOUS
  <2>4. \A i \in 1 .. n + 1 : IsChunk(s2c'[i], c) /\ s2c'[i].last => i = n + 1 /\ last
    BY <1>3, <1>6, <2>2, <2>3
  <2>5. WireOf(c)'
    <3>1. c \in hcur' => \A i \in DOMAIN s2c' : IsChunk(s2c'[i], c) => ~s2c'[i].last
      BY <2>2, <2>4
    <3>2. \A i \in DOMAIN s2c' : IsChunk(s2c'[i], c) /\ s2c'[i].last =>
             \A j \in DOMAIN s2c' : j <= i
      BY <2>2, <2>4
    <3> QED BY <1>2, <1>3, <1>4, <3>1, <3>2 DEF WireOf
  <2>6. ASSUME Reading', ~Over(c)'
        PROVE  \E g \in [1 .. n + 2 -> 0 .. m + 1] : Passes(c, g)'
    <3>1. PICK d \in [1 .. n + 1 -> 0 .. m] : Passes(c, d)
      BY <1>1, <1>2, <1>5, <2>1, <2>6 DEF TrackOf
    <3>2. /\ d[1] = Passed(c)
          /\ \A i \in 1 .. n : d[i + 1] = d[i] + One(IsChunk(s2c[i], c))
          /\ d[n + 1] = m
      BY <1>5, <1>11, <2>1, <2>2, <3>1 DEF Passes
    <3>3. PICK g \in [1 .. n + 2 -> 0 .. m + 1] : /\ \A i \in 1 .. n + 1 : g[i] = d[i]
                                                  /\ g[n + 2] = m + 1
      <4> DEFINE w == [i \in 1 .. n + 2 |-> IF i <= n + 1 THEN d[i] ELSE m + 1]
      <4>1. w \in [1 .. n + 2 -> 0 .. m + 1]
        <5>1. \A i \in 1 .. n + 1 : d[i] \in 0 .. m + 1
          BY <3>1
        <5>2. \A i \in 1 .. n + 2 : i <= n + 1 => i \in 1 .. n + 1
          OBVIOUS
        <5> QED BY <5>1, <5>2
      <4>2. (\A i \in 1 .. n + 1 : w[i] = d[i]) /\ w[n + 2] = m + 1
        OBVIOUS
      <4> HIDE DEF w
      <4> QED BY <4>1, <4>2
    <3>4. g[1] = Passed(c)'
      BY <1>2, <3>2, <3>3
    <3>5. \A i \in 1 .. n + 1 : g[i + 1] = g[i] + One(IsChunk(s2c'[i], c))
      <4> TAKE i \in 1 .. n + 1
      <4>1. CASE i \in 1 .. n
        <5>1. i + 1 \in 1 .. n + 1
          BY <4>1
        <5> QED BY <2>2, <3>2, <3>3, <4>1, <5>1
      <4>2. CASE i = n + 1
        <5>1. One(IsChunk(s2c'[i], c)) = 1
          BY <1>6, <2>2, <4>2 DEF One
        <5>2. g[i + 1] = m + 1 /\ g[i] = m
          BY <3>2, <3>3, <4>2
        <5> QED BY <5>1, <5>2
      <4> QED BY <2>3, <4>1, <4>2
    <3>6. \A i \in 1 .. n + 1 : IsChunk(s2c'[i], c) /\ s2c'[i].last =>
             \A j \in i + 1 .. n + 2 : g[j] = m + 1
      <4> SUFFICES ASSUME NEW i \in 1 .. n + 1, IsChunk(s2c'[i], c), s2c'[i].last, NEW j \in i + 1 .. n + 2
                   PROVE  g[j] = m + 1
        OBVIOUS
      <4>1. i = n + 1
        BY <2>4
      <4>2. j = n + 2
        BY <4>1
      <4> QED BY <3>3, <4>2
    <3>7. Len(s2c') + 1 = n + 2 /\ chunks'[c] = m + 1 /\ DOMAIN s2c' = 1 .. n + 1
      BY <1>5, <2>2
    <3>8. Passes(c, g)'
      BY <3>3, <3>4, <3>5, <3>6, <3>7 DEF Passes
    <3> QED BY <3>8
  <2>7. Len(s2c') + 1 = n + 2 /\ chunks'[c] = m + 1
    BY <1>5, <2>2
  <2>8. TrackOf(c)'
    BY <1>2, <1>3, <1>8, <2>6, <2>7 DEF TrackOf
  <2> QED BY <2>5, <2>8
<1> QED BY <1>10, <1>11

\* Types after a step of the host.
LEMMA HostTypes ==
    ASSUME Inv, UNCHANGED hostFrame, c2s' \in Seq(Request), s2c' \in Seq(Message), hOpen' \in BOOLEAN,
           hpc' \in {"read", "stream", "leave", "gone"}, hcur' \subseteq Streams, hleft' \in Nat,
           topic' \subseteq topic \/ \E e \in Subs : topic' = topic \cup {e},
           mySubs' \subseteq Subs, published' \in Nat, stopping' \in BOOLEAN, chunks' \in [Ids -> Nat]
    PROVE  Types'
<1> USE DEF hostFrame, slots, caller, reader, hist
<1>1. IsFiniteSet(topic) /\ topic \subseteq Subs
  BY DEF Inv, Types, TypeOK
<1>2. IsFiniteSet(topic')
  <2>1. CASE topic' \subseteq topic
    BY <1>1, <2>1, FS_Subset
  <2>2. CASE \E e \in Subs : topic' = topic \cup {e}
    BY <1>1, <2>2, FS_AddElement
  <2> QED BY <2>1, <2>2
<1>3. topic' \subseteq Subs
  BY <1>1
<1>4. /\ \A i \in DOMAIN c2s' : c2s'[i] \in Request
      /\ \A i \in DOMAIN s2c' : s2c'[i] \in Message
  BY ElementsOf
<1> QED BY <1>2, <1>3, <1>4 DEF Inv, Types, TypeOK, Request, Message

\* A step of the host that writes no chunk of a stream.
LEMMA HostOther ==
    ASSUME Inv, UNCHANGED hostFrame, chunks' = chunks, NEW fs \in Seq(Message), Frames(fs),
           \A c \in Streams : \A i \in DOMAIN fs : ~IsChunk(fs[i], c),
           Up' => Up, Sent', \A e \in Ids : Requested(e)' => Requested(e),
           \A e \in Streams : e \in hcur' => e \in hcur \/ (Requested(e) /\ ~Requested(e)')
    PROVE  Reader' /\ Slots' /\ Callbacks' /\ Wire' /\ Track' /\ s2c' \in Seq(Message)
<1>1. Reader' /\ Slots' /\ Callbacks'
  BY HostFrame
<1>2. \A c \in Streams : WireOf(c)' /\ TrackOf(c)'
  BY OthersAppended DEF Ids
<1>3. s2c' \in Seq(Message)
  BY FramesAppended DEF Inv, Types
<1> QED BY <1>1, <1>2, <1>3 DEF Wire, Track

\* No frame at all.
LEMMA NoFrame ==
    ASSUME Inv, s2c' = s2c
    PROVE  \E fs \in Seq(Message) : Frames(fs) /\ \A c \in Streams : \A i \in DOMAIN fs : ~IsChunk(fs[i], c)
<1>1. s2c \in Seq(Message)
  BY DEF Inv, Types
<1>2. s2c \o <<>> = s2c /\ <<>> \in Seq(Message) /\ DOMAIN <<>> = {}
  BY <1>1
<1>3. Frames(<<>>)
  BY <1>2 DEF Frames
<1> QED BY <1>2, <1>3

\* One frame that is no chunk.
LEMMA OneFrame ==
    ASSUME NEW x \in Message, x.kind # "chunk", Frames(<<x>>)
    PROVE  \E fs \in Seq(Message) : Frames(fs) /\ \A c \in Streams : \A i \in DOMAIN fs : ~IsChunk(fs[i], c)
<1>1. <<x>> \in Seq(Message) /\ \A i \in DOMAIN <<x>> : <<x>>[i] = x
  OBVIOUS
<1>2. \A c \in Streams : \A i \in DOMAIN <<x>> : ~IsChunk(<<x>>[i], c)
  BY <1>1 DEF IsChunk
<1> QED BY <1>1, <1>2

\* A chunk to every subscriber of the topic.
LEMMA TopicFrames ==
    ASSUME Inv, NEW last \in BOOLEAN, NEW q \in [1 .. Cardinality(topic) -> topic],
           Frames([i \in DOMAIN q |-> Chunk(q[i], last)])
    PROVE  \E fs \in Seq(Message) : Frames(fs) /\ \A c \in Streams : \A i \in DOMAIN fs : ~IsChunk(fs[i], c)
<1> DEFINE w == [i \in DOMAIN q |-> Chunk(q[i], last)]
<1>1. IsFiniteSet(topic) /\ topic \subseteq Subs
  BY DEF Inv, Types, TypeOK
<1>2. Cardinality(topic) \in Nat
  BY <1>1, FS_CardinalityType
<1>3. \A i \in 1 .. Cardinality(topic) : Chunk(q[i], last) \in Message /\ Chunk(q[i], last).id \in Subs
  BY <1>1 DEF Message, Chunk, Ids
<1>4. w \in [1 .. Cardinality(topic) -> Message] /\ \A i \in DOMAIN w : w[i].id \in Subs
  BY <1>3
<1> HIDE DEF w
<1>5. w \in Seq(Message)
  BY <1>2, <1>4
<1>6. \A c \in Streams : \A i \in DOMAIN w : ~IsChunk(w[i], c)
  BY <1>4, CallsConstants DEF IsChunk
<1>7. Frames(w)
  BY DEF w
<1> QED BY <1>5, <1>6, <1>7

\* A request is answered, refused, or starts a handler or a subscription.
LEMMA HostTakesStep ==
    ASSUME Inv, \/ HostAnswers \/ HostStreamBegins \/ HostSubscribes \/ HostUnsubscribes \/ HostRefuses
                \/ HostRejects
    PROVE  Inv'
<1>1. /\ UNCHANGED <<hostFrame, hOpen, chunks>> /\ c2s # <<>> /\ c2s' = Tail(c2s)
      /\ published' = published /\ stopping' = stopping /\ pc' = pc
  BY DEF HostAnswers, HostStreamBegins, HostSubscribes, HostUnsubscribes, HostRefuses, HostRejects,
     HostTakes, hostFrame, caller
<1>2. /\ c2s' \in Seq(Request) /\ Sent' /\ Head(c2s) \in Request
      /\ \A e \in Ids : Requested(e)' => Requested(e)
      /\ Head(c2s).kind = "call" =>
            Requested(Head(c2s).id) /\ \A e \in Ids : e = Head(c2s).id => ~Requested(e)'
  BY <1>1, RequestTaken
<1>3. PICK c \in Ids : c = Head(c2s).id
  BY <1>2 DEF Request
<1>4. \E fs \in Seq(Message) : Frames(fs) /\ \A e \in Streams : \A i \in DOMAIN fs : ~IsChunk(fs[i], e)
  <2>1. CASE HostAnswers
    <3>1. Response(c) \in Message /\ Response(c).kind # "chunk"
      BY DEF Response, Message
    <3>2. Frames(<<Response(c)>>)
      BY <1>3, <2>1 DEF HostAnswers
    <3> QED BY <3>1, <3>2, OneFrame
  <2>2. CASE HostRefuses
    <3> DEFINE x == [kind |-> "error", id |-> c, last |-> FALSE]
    <3>1. x \in Message /\ x.kind # "chunk"
      BY DEF Message
    <3>2. Frames(<<x>>)
      BY <1>3, <2>2 DEF HostRefuses
    <3> HIDE DEF x
    <3> QED BY <3>1, <3>2, OneFrame
  <2>3. CASE HostStreamBegins \/ HostSubscribes \/ HostUnsubscribes \/ HostRejects
    <3>1. s2c' = s2c
      BY <2>3 DEF HostStreamBegins, HostSubscribes, HostUnsubscribes, HostRejects
    <3> QED BY <3>1, NoFrame
  <2> QED BY <2>1, <2>2, <2>3
<1>5. \A e \in Streams : e \in hcur' => e \in hcur \/ (Requested(e) /\ ~Requested(e)')
  <2>1. CASE HostStreamBegins
    <3>1. hcur' = {c} /\ Head(c2s).kind = "call"
      BY <1>3, <2>1 DEF HostStreamBegins, HostTakes
    <3> QED BY <1>2, <1>3, <3>1 DEF Ids
  <2>2. CASE HostAnswers \/ HostSubscribes \/ HostUnsubscribes \/ HostRefuses \/ HostRejects
    <3>1. hcur' = hcur
      BY <2>2 DEF HostAnswers, HostSubscribes, HostUnsubscribes, HostRefuses, HostRejects
    <3> QED BY <3>1
  <2> QED BY <2>1, <2>2
<1>6. Up' => Up
  BY <1>1 DEF Up, hostFrame
<1>7. Reader' /\ Slots' /\ Callbacks' /\ Wire' /\ Track' /\ s2c' \in Seq(Message)
  BY <1>1, <1>2, <1>4, <1>5, <1>6, HostOther
<1>8. /\ hpc \in {"read", "stream", "leave", "gone"} /\ hcur \subseteq Streams /\ hleft \in Nat
      /\ mySubs \subseteq Subs
  BY DEF Inv, Types, TypeOK
<1>9. /\ hpc' \in {"read", "stream", "leave", "gone"} /\ hcur' \subseteq Streams /\ hleft' \in Nat
      /\ topic' \subseteq topic \/ \E e \in Subs : topic' = topic \cup {e}
      /\ mySubs' \subseteq Subs
  <2>1. CASE HostAnswers \/ HostRefuses \/ HostRejects
    BY <1>8, <2>1 DEF HostAnswers, HostRefuses, HostRejects
  <2>2. CASE HostStreamBegins
    BY <1>8, <2>2, CallsConstants DEF HostStreamBegins
  <2>3. CASE HostSubscribes
    BY <1>8, <2>3 DEF HostSubscribes
  <2>4. CASE HostUnsubscribes
    BY <1>8, <2>4 DEF HostUnsubscribes
  <2> QED BY <2>1, <2>2, <2>3, <2>4
<1>10. /\ hOpen' \in BOOLEAN /\ published' \in Nat /\ stopping' \in BOOLEAN /\ chunks' \in [Ids -> Nat]
  BY <1>1 DEF Inv, Types, TypeOK
<1>11. Types'
  BY <1>1, <1>2, <1>7, <1>9, <1>10, HostTypes
<1> QED BY <1>7, <1>11 DEF Inv

\* The handler's stream gains a chunk, the others do not.
LEMMA HostStreamsStep ==
    ASSUME Inv, HostStreams PROVE Inv'
<1>1. PICK c \in hcur : Frames(<<Chunk(c, hleft = 0)>>) /\ chunks' = [chunks EXCEPT ![c] = @ + 1]
  BY DEF HostStreams
<1>2. c \in Streams /\ c \in Ids /\ hleft \in Nat /\ chunks \in [Ids -> Nat]
  BY DEF Inv, Types, Ids
<1>3. PICK last \in BOOLEAN : last = (hleft = 0)
  OBVIOUS
<1>4. /\ UNCHANGED <<hostFrame, hOpen, c2s, topic, mySubs, published, stopping>>
      /\ hcur' \subseteq hcur /\ (last => hcur' = {}) /\ hleft' \in Nat /\ hpc' \in {"read", "stream"}
  <2>1. UNCHANGED <<hostFrame, hOpen, c2s, topic, mySubs, published, stopping>>
    BY DEF HostStreams
  <2>2. CASE hleft = 0 /\ hpc' = "read" /\ hcur' = {} /\ hleft' = hleft
    BY <1>2, <2>1, <2>2
  <2>3. CASE hleft # 0 /\ hleft' = hleft - 1 /\ hpc' = hpc /\ hcur' = hcur /\ hpc = "stream"
    <3>1. hleft' \in Nat
      BY <1>2, <2>3
    <3>2. ~last
      BY <1>3, <2>3
    <3> QED BY <2>1, <2>3, <3>1, <3>2
  <2> QED BY <2>2, <2>3 DEF HostStreams
<1>5. Frames(<<Chunk(c, last)>>)
  BY <1>1, <1>3
<1>6. chunks' \in [Ids -> Nat] /\ chunks'[c] = chunks[c] + 1 /\ \A e \in Ids : e # c => chunks'[e] = chunks[e]
  BY <1>1, <1>2
<1>7. WireOf(c)' /\ TrackOf(c)'
  BY <1>1, <1>2, <1>4, <1>5, <1>6, OwnAppended
<1>8. PICK x \in Message : x = Chunk(c, last) /\ x.id = c
  <2>1. Chunk(c, last) \in Message /\ Chunk(c, last).id = c
    BY <1>2 DEF Chunk, Message
  <2> QED BY <2>1
<1>9. <<x>> \in Seq(Message) /\ Frames(<<x>>) /\ \A i \in DOMAIN <<x>> : <<x>>[i] = x
  BY <1>5, <1>8
<1>10. ASSUME NEW e \in Streams, e # c PROVE WireOf(e)' /\ TrackOf(e)'
  <2>1. \A i \in DOMAIN <<x>> : ~IsChunk(<<x>>[i], e)
    BY <1>8, <1>9, <1>10 DEF IsChunk
  <2>2. Requested(e)' => Requested(e)
    BY <1>4 DEF Requested
  <2>3. (Up' => Up) /\ chunks'[e] = chunks[e]
    BY <1>4, <1>6, <1>10 DEF Up, hostFrame, Ids
  <2> QED BY <1>4, <1>9, <2>1, <2>2, <2>3, OthersAppended
<1>11. Sent'
  <2>1. pc' = pc
    BY <1>4 DEF hostFrame, caller
  <2> QED BY <1>4, <2>1 DEF Inv, Wire, Sent, Requested, Unasked
<1>12. Reader' /\ Slots' /\ Callbacks'
  BY <1>4, HostFrame
<1>13. Types'
  <2>1. s2c' \in Seq(Message) /\ c2s' \in Seq(Request) /\ hOpen' \in BOOLEAN /\ hcur' \subseteq Streams
    BY <1>4, <1>9, FramesAppended DEF Inv, Types, TypeOK
  <2>2. mySubs' \subseteq Subs /\ published' \in Nat /\ stopping' \in BOOLEAN /\ topic' \subseteq topic
    BY <1>4 DEF Inv, Types, TypeOK
  <2> QED BY <1>4, <1>6, <2>1, <2>2, HostTypes
<1> QED BY <1>7, <1>10, <1>11, <1>12, <1>13 DEF Inv, Wire, Track

\* The topic's chunks go to subscriptions, never to a stream.
LEMMA PublishStep ==
    ASSUME Inv, Publish \/ HostStops PROVE Inv'
<1>1. /\ UNCHANGED <<hostFrame, hOpen, c2s, hpc, hcur, hleft, mySubs, chunks>>
      /\ topic' \subseteq topic
  BY DEF Publish, HostStops
<1>2. published' \in Nat /\ stopping' \in BOOLEAN
  <2>1. published \in Nat /\ stopping \in BOOLEAN
    BY DEF Inv, Types, TypeOK
  <2>2. published' = published + 1 \/ published' = published
    BY DEF Publish, HostStops
  <2>3. stopping' = TRUE \/ stopping' = stopping
    BY DEF Publish, HostStops
  <2>4. published' \in Nat
    BY <2>1, <2>2
  <2>5. stopping' \in BOOLEAN
    BY <2>1, <2>3, Zenon
  <2> QED BY <2>4, <2>5
<1>3. \E fs \in Seq(Message) : Frames(fs) /\ \A e \in Streams : \A i \in DOMAIN fs : ~IsChunk(fs[i], e)
  <2>1. CASE s2c' = s2c
    BY <2>1, NoFrame
  <2>2. CASE \E last \in BOOLEAN : \E q \in [1 .. Cardinality(topic) -> topic] :
                Frames([i \in DOMAIN q |-> Chunk(q[i], last)])
    BY <2>2, TopicFrames
  <2> QED BY <2>1, <2>2 DEF Publish, HostStops
<1>4. pc' = pc /\ (Up' => Up)
  BY <1>1 DEF Up, hostFrame, caller
<1>5. Sent' /\ \A e \in Ids : Requested(e)' => Requested(e)
  BY <1>1, <1>4 DEF Inv, Wire, Sent, Requested, Unasked
<1>6. Reader' /\ Slots' /\ Callbacks' /\ Wire' /\ Track' /\ s2c' \in Seq(Message)
  BY <1>1, <1>3, <1>4, <1>5, HostOther
<1>7. Types'
  <2>1. /\ c2s' \in Seq(Request) /\ hOpen' \in BOOLEAN /\ hcur' \subseteq Streams /\ hleft' \in Nat
        /\ hpc' \in {"read", "stream", "leave", "gone"} /\ mySubs' \subseteq Subs /\ chunks' \in [Ids -> Nat]
    BY <1>1 DEF Inv, Types, TypeOK
  <2> QED BY <1>1, <1>2, <1>6, <2>1, HostTypes
<1> QED BY <1>6, <1>7 DEF Inv

\* The host's end closes: requests in flight are lost.
LEMMA HostLeavesStep ==
    ASSUME Inv, HostLeaves PROVE Inv'
<1>1. /\ UNCHANGED <<hostFrame, s2c, hcur, hleft, mySubs, published, stopping, chunks>>
      /\ hpc' = "gone" /\ hOpen' = FALSE /\ c2s' = <<>> /\ topic' \subseteq topic
  BY DEF HostLeaves
<1>2. c2s' \in Seq(Request) /\ DOMAIN c2s' = {}
  BY <1>1
<1>3. \A e \in Ids : ~Requested(e)'
  BY <1>2 DEF Requested
<1>4. Sent'
  BY <1>2, <1>3 DEF Sent
<1>5. ~Up'
  BY <1>1 DEF Up
<1>6. Reader' /\ Slots' /\ Callbacks' /\ Wire' /\ Track' /\ s2c' \in Seq(Message)
  BY <1>1, <1>3, <1>4, <1>5, NoFrame, HostOther
<1>7. Types'
  <2>1. /\ hcur' \subseteq Streams /\ hleft' \in Nat /\ mySubs' \subseteq Subs /\ chunks' \in [Ids -> Nat]
        /\ published' \in Nat /\ stopping' \in BOOLEAN
    BY <1>1 DEF Inv, Types, TypeOK
  <2> QED BY <1>1, <1>2, <1>6, <2>1, HostTypes
<1> QED BY <1>6, <1>7 DEF Inv

-----------------------------------------------------------------------------
(* The theorems.                                                           *)

\* Nothing is called, due or in flight at first.
LEMMA InitInv == Init => Inv
<1> SUFFICES ASSUME Init PROVE Inv
  OBVIOUS
<1>1. /\ c2s = <<>> /\ s2c = <<>> /\ rpc = "head" /\ rcb = {} /\ hcur = {} /\ hleft = 0
      /\ topic = {} /\ published = 0 /\ stopping = FALSE /\ cOpen = TRUE /\ hOpen = TRUE /\ alive = TRUE
      /\ pending = {} /\ answer = {} /\ sinks = {} /\ done = {} /\ active = {} /\ mySubs = {}
      /\ hpc = "read" /\ dpc = "idle"
  BY DEF Init
<1>2. /\ c2s \in Seq(Request) /\ s2c \in Seq(Message) /\ DOMAIN c2s = {} /\ DOMAIN s2c = {} /\ Len(s2c) = 0
  BY <1>1
<1>3. /\ pc = [c \in Ids |-> "idle"] /\ result = [c \in Ids |-> "none"]
      /\ log = [c \in Ids |-> <<>>] /\ late = [c \in Ids |-> 0] /\ chunks = [c \in Ids |-> 0]
  BY DEF Init
<1>4. /\ pc \in [Ids -> Places] /\ result \in [Ids -> Results]
      /\ \A c \in Ids : pc[c] = "idle" /\ result[c] = "none"
  BY <1>3 DEF Places, Results
<1>5. /\ late \in [Ids -> Nat] /\ chunks \in [Ids -> Nat]
      /\ \A c \in Ids : late[c] = 0 /\ chunks[c] = 0
  BY <1>3
<1>6. log \in [Ids -> Seq({"msg", "last"})] /\ \A c \in Ids : log[c] = <<>> /\ Len(log[c]) = 0 /\ DOMAIN log[c] = {}
  BY <1>3
<1>7. Types
  <2>1. IsFiniteSet(topic)
    BY <1>1, FS_EmptySet
  <2> QED BY <1>1, <1>2, <1>4, <1>5, <1>6, <2>1 DEF Types, TypeOK, Places, Results
<1>8. Reader
  BY <1>1 DEF Reader
<1>9. \A c \in Ids : ~Due(c) /\ ~LastDue(c) /\ ~Called(c) /\ ~Ended(c) /\ ~Requested(c) /\ ~Over(c) /\ ~Finished(c)
  BY <1>1, <1>2, <1>4, <1>6 DEF Due, LastDue, Called, Ended, Requested, Over, Finished
<1>10. Slots
  BY <1>1, <1>4, <1>5, <1>6, <1>9 DEF Slots, SlotOf
<1>11. Callbacks
  BY <1>5, <1>6, <1>9 DEF Callbacks, CallbackOf
<1>12. Wire
  BY <1>1, <1>2, <1>5, <1>9 DEF Wire, Sent, WireOf, Ids
<1>13. ASSUME NEW c \in Streams PROVE TrackOf(c)
  <2>0. c \in Ids
    BY DEF Ids
  <2>1. Passed(c) = 0
    <3>1. One(Due(c)) = 0
      BY <1>9, <2>0 DEF One
    <3> QED BY <1>6, <2>0, <3>1 DEF Passed
  <2>2. PICK g \in [1 .. 1 -> 0 .. 0] : g[1] = 0
    <3>1. [i \in 1 .. 1 |-> 0] \in [1 .. 1 -> 0 .. 0] /\ [i \in 1 .. 1 |-> 0][1] = 0
      OBVIOUS
    <3> QED BY <3>1
  <2>3. Len(s2c) + 1 = 1 /\ chunks[c] = 0
    BY <1>2, <1>5, <2>0
  <2>4. Passes(c, g)
    BY <1>2, <2>1, <2>2, <2>3 DEF Passes
  <2>5. \E d \in [1 .. Len(s2c) + 1 -> 0 .. chunks[c]] : Passes(c, d)
    BY <2>2, <2>3, <2>4
  <2> QED BY <1>1, <1>4, <1>9, <2>0, <2>5 DEF TrackOf
<1> QED BY <1>7, <1>8, <1>10, <1>11, <1>12, <1>13 DEF Inv, Track

\* A stuttering step.
LEMMA StutterInv ==
    ASSUME Inv, UNCHANGED vars PROVE Inv'
<1> USE DEF vars, conn, slots, caller, reader, host, hist
<1>1. UNCHANGED <<conn, slots, result, active, reader, host, hist, pc, alive, dpc>>
  OBVIOUS
<1>2. /\ pc \in [Ids -> Places] /\ alive \in BOOLEAN
      /\ dpc \in {"idle", "close", "wakeGets", "wakeStreams", "join", "over"}
  BY DEF Inv, Types, TypeOK, Places
<1> QED BY <1>1, <1>2, WakeFrame

\* Everything above holds of every reachable state.
THEOREM InvHolds == Spec => []Inv
<1>1. Init => Inv
  BY InitInv
<1>2. ASSUME Inv, [Next]_vars PROVE Inv'
  <2>1. ASSUME NEW c \in Ids,
               Begin(c) \/ CallStep(c) \/ Written(c) \/ TimesOut(c) \/ Unsubscribe(c)
        PROVE  Inv'
    BY <1>2, <2>1, BeginStep, RegisterStep, SendStep, SendFailsStep, UnsentStep, GetStep, StreamStep,
       UnsubscribeStep, UnsubscribeTellStep DEF CallStep, Written, TimesOut
  <2>2. CASE DisconnectMarks \/ DisconnectStep
    BY <1>2, <2>2, DisconnectMovesStep, DisconnectClosesStep DEF DisconnectStep
  <2>3. CASE ReaderStep
    BY <1>2, <2>3, ReaderMoves, ReaderChunkStep, ReaderCallsStep, ReaderCalledStep, ReaderResponseStep,
       ReaderClosesStep, ReaderLeavesStep, ReaderSweepsStep DEF ReaderStep
  <2>4. CASE HostStep \/ HostRejects \/ Publish \/ HostStops
    BY <1>2, <2>4, HostTakesStep, HostStreamsStep, PublishStep, HostLeavesStep DEF HostStep
  <2>5. CASE UNCHANGED vars
    BY <1>2, <2>5, StutterInv
  <2> QED BY <1>2, <2>1, <2>2, <2>3, <2>4, <2>5 DEF Next
<1> QED BY <1>1, <1>2, PTL DEF Spec

\* The calls, their slots, the reader and the host keep their types; an answer
\* has a slot and a reader between two frames owes no callback.
THEOREM TypeCorrect == Spec => []TypeOK
<1>1. Inv => TypeOK
  BY DEF Inv, Types
<1> QED BY <1>1, InvHolds, PTL

\* No callback follows the one that says is_last (closed), in whatever order
\* the last chunk, a refusal, the end of the connection and unsubscribe() come.
THEOREM NothingFollowsTheLast == Spec => []LastIsLast
<1>1. Inv => LastIsLast
  BY DEF Inv, Callbacks, CallbackOf, LastIsLast
<1> QED BY <1>1, InvHolds, PTL

\* After unsubscribe() returned, at most the one callback runs
\* that the reader had looked up before.
THEOREM OneLateCallback == Spec => []AtMostOneLateCallback
<1>1. Inv => AtMostOneLateCallback
  BY DEF Inv, Callbacks, CallbackOf, AtMostOneLateCallback, Ids
<1> QED BY <1>1, InvHolds, PTL

\* However a call ends, its slot is erased: by the call, or by the reader that
\* has just made its last callback.
THEOREM SlotsAreErased == Spec => []NoSlotLeaks
<1>1. Inv => NoSlotLeaks
  BY DEF Inv, Slots, SlotOf, Called, NoSlotLeaks
<1> QED BY <1>1, InvHolds, PTL

\* A get_stream() that returns normally was passed every chunk its handler
\* wrote, but for the last one when its callback is still to be made.
THEOREM NoChunkIsLost == Spec => []OnlyTheLastIsLate
<1>1. Inv => OnlyTheLastIsLate
  <2> SUFFICES ASSUME Inv, NEW c \in Streams, result[c] = "ok"
               PROVE  /\ Len(log[c]) + OnItsWay(c) = chunks[c]
                      /\ \A r \in rcb : rpc = "call" /\ r.id = c => r.last
    BY DEF OnlyTheLastIsLate
  <2> DEFINE S == {r \in rcb : rpc = "call" /\ r.id = c}
  <2>1. Len(log[c]) + One(Due(c)) = chunks[c] /\ Finished(c)
    BY DEF Inv, Track, TrackOf, Passed
  <2>2. Due(c) => rpc = "call"
    BY CallsConstants DEF Due, Inv, Reader
  <2>3. CASE Due(c)
    <3>1. PICK r \in rcb : rcb = {r} /\ r.id = c
      BY <2>2, <2>3 DEF Inv, Reader, Due
    <3>2. S = {r}
      BY <2>2, <2>3, <3>1
    <3>3. Cardinality(S) = 1
      BY <3>2, FS_Singleton
    <3>4. r.last
      BY <2>1, <2>3, <3>1 DEF Inv, Callbacks, CallbackOf, Finished, LastDue, Ids
    <3> QED BY <2>1, <2>3, <3>1, <3>3, <3>4 DEF One, OnItsWay
  <2>4. CASE ~Due(c)
    <3>1. S = {} /\ ~\E r \in rcb : rpc = "call" /\ r.id = c
      BY <2>4 DEF Due
    <3>2. Cardinality(S) = 0
      BY <3>1, FS_EmptySet
    <3> QED BY <2>1, <2>4, <3>1, <3>2 DEF One, OnItsWay
  <2> QED BY <2>3, <2>4
<1> QED BY <1>1, InvHolds, PTL
=============================================================================
