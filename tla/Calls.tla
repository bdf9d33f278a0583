------------------------------- MODULE Calls -------------------------------
(***************************************************************************)
(* The calls that share one established connection: get(), get_stream()    *)
(* and subscribe() on application threads, the client's reader thread that *)
(* routes what arrives to them, disconnect(), and on the host the          *)
(* connection's thread and the topic's broadcaster.  Locks, condition      *)
(* variables and callbacks are kept: a step is what one thread does while  *)
(* it holds a mutex, or one call of a user's callback, which the reader    *)
(* makes with no mutex held.                                               *)
(*                                                                         *)
(* Every call is made once; its identity is its request id.  Sealing and   *)
(* rotation are the subject of Session: here each direction is a FIFO that *)
(* may be cut.                                                             *)
(***************************************************************************)
EXTENDS Naturals, Sequences, FiniteSets

CONSTANTS
    Gets, Streams, Subs,  \* calls of get(), get_stream(), subscribe()
    MaxSubscriptions,     \* limits.max_subscriptions (0: no limit)
    ReaderMayFail,        \* whether a frame may fail the reader's checks
    SendTimeout,          \* whether set_stream_write_timeout was given a time
    Mixes,                \* bound: the sets of calls that are made together
    MaxChunks,            \* bound: chunks a StreamSend handler writes
    MaxPublish            \* bound: messages published to the topic

Ids == Gets \cup Streams \cup Subs

ASSUME CallsConstants ==
    /\ Gets \cap Streams = {} /\ Gets \cap Subs = {} /\ Streams \cap Subs = {}
    /\ MaxSubscriptions \in Nat 
    /\ ReaderMayFail \in BOOLEAN /\ SendTimeout \in BOOLEAN
    /\ Mixes \subseteq SUBSET Ids /\ MaxChunks \in Nat /\ MaxPublish \in Nat

VARIABLES
    c2s, s2c, cOpen, hOpen,  \* the two directions, the two ends
    alive,                   \* Connection::alive
    pc, result,              \* each call, and how it ended
    pending,                 \* slots of get() calls
    answer,                  \* the slots that hold a response
    sinks,                   \* stream_sinks, by request id
    done, failed,            \* fields of the sinks
    fresh,                   \* sinks whose activity moved since get_stream looked
    active,                  \* subscriptions whose active flag is set
    rpc, rcb,                \* reader thread, and the callbacks it is to make
    dpc,                     \* a thread in disconnect()
    hpc, hcur, hleft,        \* host connection thread, and its StreamSend handler
    topic, mySubs,           \* TopicHandle::Impl::subs, my_subs
    published, stopping,
    log,                     \* history: callbacks made, per call
    late,                    \* history: callbacks begun after the call was over
    chunks                   \* history: chunks written by the host, per call

conn   == <<c2s, s2c, cOpen, hOpen>>
slots  == <<pending, answer, sinks, done, failed, fresh>>
caller == <<pc, result>>
reader == <<rpc, rcb>>
host   == <<hpc, hcur, hleft, topic, mySubs, published, stopping, chunks>>
hist   == <<log, late>>
vars   == <<conn, alive, slots, caller, active, reader, dpc, host, hist>>

Init ==
    /\ c2s = <<>> /\ s2c = <<>> /\ cOpen = TRUE /\ hOpen = TRUE
    /\ alive = TRUE
    /\ pc = [c \in Ids |-> "idle"] /\ result = [c \in Ids |-> "none"]
    /\ pending = {} /\ answer = {} /\ sinks = {} /\ done = {} /\ failed = {}
    /\ fresh = {} /\ active = {} /\ rpc = "head" /\ rcb = {} /\ dpc = "idle"
    /\ hpc = "read" /\ hcur = {} /\ hleft = 0 /\ topic = {} /\ mySubs = {}
    /\ published = 0 /\ stopping = FALSE
    /\ log = [c \in Ids |-> <<>>] /\ late = [c \in Ids |-> 0]
    /\ chunks = [c \in Ids |-> 0]

-----------------------------------------------------------------------------
Up == cOpen /\ hOpen

\* notify_all on a condition variable: its sleepers check again.
Notified(p, S) == [c \in Ids |-> IF c \in S /\ p[c] = "asleep" THEN "check" ELSE p[c]]

Goes(c, to) == pc' = [pc EXCEPT ![c] = to]

\* stream_sinks.erase: the sink goes with its fields.
Erase(S) ==
    /\ sinks' = sinks \ S /\ done' = done \ S /\ failed' = failed \ S
    /\ fresh' = fresh \ S

Ends(c, how) == Goes(c, "over") /\ result' = [result EXCEPT ![c] = how]

-----------------------------------------------------------------------------
(* The three calls up to the point where their request has been written.   *)

\* get_or_connect found the connection alive.
Begin(c) ==
    /\ pc[c] = "idle" /\ alive
    /\ \E m \in Mixes : {d \in Ids : pc[d] # "idle"} \cup {c} \subseteq m
    /\ Goes(c, "found")
    /\ UNCHANGED <<conn, alive, slots, result, active, reader, dpc,
                   host, hist>>

\* The slot is there before the request is written.
Register(c) ==
    /\ pc[c] = "found"
    /\ Goes(c, "send")
    /\ IF c \in Gets THEN pending' = pending \cup {c} /\ UNCHANGED <<sinks, active>>
       ELSE /\ sinks' = sinks \cup {c}
            /\ active' = active \cup ({c} \cap Subs)
            /\ UNCHANGED pending
    /\ UNCHANGED <<conn, alive, answer, done, failed, fresh, result,
                   reader, dpc, host, hist>>

\* A write by one of the calls blocks for as long as the host does not read.
Writes(kind, c) == Up /\ c2s' = Append(c2s, [kind |-> kind, id |-> c])

\* It fails when an end is closed, or at the send timeout, on a connection
\* that stays open: then a frame is torn or its counter is missing.
WriteFails(c) ==
    \/ ~Up /\ UNCHANGED c2s
    \/ Up /\ SendTimeout /\ c2s' = Append(c2s, [kind |-> "torn", id |-> c])

Send(c) ==
    /\ pc[c] = "send"
    /\ Writes("call", c)
    /\ Goes(c, IF c \in Subs THEN "live" ELSE IF c \in Gets THEN "check" ELSE "loop")
    /\ UNCHANGED <<s2c, cOpen, hOpen, alive, slots, result, active,
                   reader, dpc, host, hist>>

SendFails(c) ==
    /\ pc[c] = "send"
    /\ WriteFails(c)
    /\ Goes(c, "unsent")
    /\ UNCHANGED <<s2c, cOpen, hOpen, alive, slots, result, active,
                   reader, dpc, host, hist>>

\* The write failed: the slot is erased, the call throws.
Unsent(c) ==
    /\ pc[c] = "unsent"
    /\ Ends(c, "error")
    /\ pending' = pending \ {c} /\ answer' = answer \ {c} /\ Erase({c})
    /\ UNCHANGED <<conn, alive, active, reader, dpc, host, hist>>

-----------------------------------------------------------------------------
(* get() and get_stream() waiting on their condition variables.            *)

GetReady(c) == ~alive \/ c \in answer

\* The predicate is checked with pending_mutex held; get() goes to sleep on
\* pending_cv or takes what there is and erases its slot.
GetCheck(c) ==
    /\ c \in Gets /\ pc[c] = "check"
    /\ IF ~GetReady(c) THEN Goes(c, "asleep") /\ UNCHANGED <<result, pending, answer>>
       ELSE /\ Ends(c, IF c \in answer THEN "ok" ELSE "error")
            /\ pending' = pending \ {c} /\ answer' = answer \ {c}
    /\ UNCHANGED <<conn, alive, sinks, done, failed, fresh,
                   active, reader, dpc, host, hist>>

\* Mutant: the slot of a timed-out get() stays.
GetTimesOutLeaks(c) ==
    /\ c \in Gets /\ pc[c] = "asleep"
    /\ IF GetReady(c) THEN Goes(c, "check") /\ UNCHANGED result
       ELSE Ends(c, "error")
    /\ UNCHANGED <<conn, alive, slots, active, reader, dpc, host,
                   hist>>

\* wait_for returns at the timeout with the value of the predicate.
GetTimesOut(c) ==
    /\ c \in Gets /\ pc[c] = "asleep"
    /\ IF GetReady(c) THEN Goes(c, "check") /\ UNCHANGED <<result, pending, answer>>
       ELSE /\ Ends(c, "error")
            /\ pending' = pending \ {c} /\ answer' = answer \ {c}
    /\ UNCHANGED <<conn, alive, sinks, done, failed, fresh,
                   active, reader, dpc, host, hist>>

StreamReady(c) == ~alive \/ c \in done \/ c \in fresh

\* The head of get_stream's loop, and going to sleep on stream_cv.
StreamLoop(c) ==
    /\ pc[c] = "loop"
    /\ fresh' = fresh \ {c}
    /\ Goes(c, IF ~alive \/ c \in done THEN "check" ELSE "asleep")
    /\ UNCHANGED <<conn, alive, pending, answer, sinks, done, failed, result,
                   active, reader, dpc, host, hist>>

\* Awake: refused, finished, dead, more to come, or woken for nothing.
StreamCheck(c) ==
    /\ c \in Streams /\ pc[c] = "check"
    /\ IF ~StreamReady(c)
       THEN /\ Goes(c, "asleep")
            /\ UNCHANGED <<result, sinks, done, failed, fresh>>
       ELSE IF c \in done \/ ~alive
       THEN /\ Ends(c, IF c \in done \ failed THEN "ok" ELSE "error")
            /\ Erase({c})
       ELSE /\ fresh' = fresh \ {c}
            /\ Goes(c, "asleep")
            /\ UNCHANGED <<result, sinks, done, failed>>
    /\ UNCHANGED <<conn, alive, pending, answer, active, reader, dpc,
                   host, hist>>

\* The stall timeout.  Chunks do not notify: this is also how get_stream gets
\* to see that one arrived.
StreamTimesOut(c) ==
    /\ c \in Streams /\ pc[c] = "asleep"
    /\ IF StreamReady(c)
       THEN Goes(c, "check") /\ UNCHANGED <<result, sinks, done, failed, fresh>>
       ELSE Ends(c, "error") /\ Erase({c})
    /\ UNCHANGED <<conn, alive, pending, answer, active, reader,
                   dpc, host, hist>>

-----------------------------------------------------------------------------
(* unsubscribe() and disconnect().                                         *)

\* active.exchange(false): only one of unsubscribe() and the final callback
\* finds it set.
Unsubscribe(c) ==
    /\ pc[c] = "live"
    /\ active' = active \ {c}
    /\ IF c \in active THEN Goes(c, "erase") /\ UNCHANGED result
       ELSE Ends(c, "unsubscribed")
    /\ UNCHANGED <<conn, alive, slots, reader, dpc, host, hist>>

\* Mutant: the sink stays until the feed ends.
UnsubscribeEraseNot(c) ==
    /\ pc[c] = "erase"
    /\ IF alive THEN Goes(c, "tell") /\ UNCHANGED result ELSE Ends(c, "unsubscribed")
    /\ UNCHANGED <<conn, alive, slots, active, reader, dpc, host, hist>>

UnsubscribeErase(c) ==
    /\ pc[c] = "erase"
    /\ Erase({c})
    /\ IF alive THEN Goes(c, "tell") /\ UNCHANGED result ELSE Ends(c, "unsubscribed")
    /\ UNCHANGED <<conn, alive, pending, answer, active, reader,
                   dpc, host, hist>>

\* The one-way request to $epx/unsubscribe.
UnsubscribeTell(c) ==
    /\ pc[c] = "tell"
    /\ Writes("unsub", c)
    /\ Ends(c, "unsubscribed")
    /\ UNCHANGED <<s2c, cOpen, hOpen, alive, slots, active, reader,
                   dpc, host, hist>>

\* The request could not be written, and nobody looks.
UnsubscribeUntold(c) ==
    /\ pc[c] = "tell"
    /\ WriteFails(c)
    /\ Ends(c, "unsubscribed")
    /\ UNCHANGED <<s2c, cOpen, hOpen, alive, slots, active, reader,
                   dpc, host, hist>>

\* close_connection, step by step.
DisconnectMarks ==
    /\ dpc = "idle" /\ dpc' = "close"
    /\ alive' = FALSE
    /\ UNCHANGED <<conn, slots, caller, active, reader, host, hist>>

\* Mutant: the transport stays open.
DisconnectClosesNot ==
    /\ dpc = "close" /\ dpc' = "wakeGets"
    /\ UNCHANGED <<conn, alive, slots, caller, active, reader, host, hist>>

DisconnectCloses ==
    /\ dpc = "close" /\ dpc' = "wakeGets"
    /\ cOpen' = FALSE /\ s2c' = <<>>
    /\ UNCHANGED <<c2s, hOpen, alive, slots, caller, active, reader,
                   host, hist>>

DisconnectWakes ==
    /\ \/ dpc = "wakeGets" /\ dpc' = "wakeStreams" /\ pc' = Notified(pc, Gets)
       \/ dpc = "wakeStreams" /\ dpc' = "join" /\ pc' = Notified(pc, Streams)
    /\ UNCHANGED <<conn, alive, slots, result, active, reader, host,
                   hist>>

DisconnectJoins ==
    /\ dpc = "join" /\ rpc = "gone" /\ dpc' = "over"
    /\ UNCHANGED <<conn, alive, slots, caller, active, reader, host, hist>>

-----------------------------------------------------------------------------
(* The reader thread.                                                      *)

Over(c) == pc[c] = "over"

\* One call of a callback, made with no mutex held.  A subscription's wrapper
\* clears active when it passes on closed = true.
Calls1(c, last) ==
    /\ log' = [log EXCEPT ![c] = Append(@, IF last THEN "last" ELSE "msg")]
    /\ late' = [late EXCEPT ![c] = IF Over(c) THEN @ + 1 ELSE @]
    /\ active' = IF last THEN active \ {c} ELSE active

\* while (conn->alive.load())
ReaderHead ==
    /\ rpc = "head"
    /\ rpc' = IF alive THEN "read" ELSE "wakeGets"
    /\ UNCHANGED <<conn, alive, slots, caller, active, rcb, dpc, host, hist>>

\* A blocking read that returns a frame.
Takes(kind) ==
    /\ rpc = "read" /\ cOpen /\ s2c # <<>> /\ Head(s2c).kind = kind
    /\ s2c' = Tail(s2c)

\* Mutant: any chunk of a stream finishes it.
ReaderChunkFinishes ==
    /\ Takes("chunk")
    /\ LET f == Head(s2c)
       IN  IF f.id \in sinks
           THEN /\ fresh' = fresh \cup {f.id}
                /\ done' = done \cup {f.id}
                /\ rcb' = {[id |-> f.id, last |-> f.last]} /\ rpc' = "call"
           ELSE /\ rcb' = {} /\ rpc' = IF f.last THEN "called" ELSE "head"
                /\ UNCHANGED <<fresh, done>>
    /\ UNCHANGED <<c2s, cOpen, hOpen, alive, pending, answer, sinks,
                   failed, caller, active, dpc, host, hist>>

\* A chunk, up to the release of stream_mutex: the sink is brought up to date
\* and its callback copied.
ReaderChunk ==
    /\ Takes("chunk")
    /\ LET f == Head(s2c)
       IN  IF f.id \in sinks
           THEN /\ fresh' = fresh \cup {f.id}
                /\ done' = IF f.last THEN done \cup {f.id} ELSE done
                /\ rcb' = {[id |-> f.id, last |-> f.last]} /\ rpc' = "call"
           ELSE /\ rcb' = {} /\ rpc' = IF f.last THEN "called" ELSE "head"
                /\ UNCHANGED <<fresh, done>>
    /\ UNCHANGED <<c2s, cOpen, hOpen, alive, pending, answer, sinks,
                   failed, caller, active, dpc, host, hist>>

ReaderCalls ==
    /\ rpc = "call"
    /\ \E r \in rcb :
          /\ Calls1(r.id, r.last)
          /\ rpc' = IF r.last THEN "called" ELSE "head"
          /\ rcb' = IF r.last THEN rcb ELSE {}
    /\ UNCHANGED <<conn, alive, slots, caller, dpc, host>>

\* Mutant: a subscription's sink is left in place after its last chunk.
ReaderCalledKeepsSink ==
    /\ rpc = "called"
    /\ pc' = Notified(pc, Streams)
    /\ rcb' = {} /\ rpc' = "head"
    /\ UNCHANGED <<conn, alive, slots, result, active, dpc, host, hist>>

\* After the last chunk: a subscription's sink goes, stream_cv is notified.
ReaderCalled ==
    /\ rpc = "called"
    /\ Erase({c \in Subs : \E r \in rcb : r.id = c})
    /\ pc' = Notified(pc, Streams)
    /\ rcb' = {} /\ rpc' = "head"
    /\ UNCHANGED <<conn, alive, pending, answer, result, active,
                   dpc, host, hist>>

\* Mutant: a response is stored without looking for the slot it belongs to.
ReaderResponseBlind ==
    /\ Takes("response")
    /\ answer' = answer \cup {Head(s2c).id}
    /\ pc' = Notified(pc, Gets) /\ rpc' = "head"
    /\ UNCHANGED <<c2s, cOpen, hOpen, alive, pending, sinks, done, failed, fresh,
                   rcb, result, active, dpc, host, hist>>

\* A response: to a get(), or the refusal of a stream or subscription, or to
\* nobody any more.
ReaderResponse ==
    /\ Takes("response")
    /\ LET c == Head(s2c).id
       IN  \/ /\ c \in pending
              /\ answer' = answer \cup {c}
              /\ pc' = Notified(pc, Gets) /\ rpc' = "head"
              /\ UNCHANGED <<sinks, done, failed, fresh, rcb>>
           \/ /\ c \in sinks \cap Streams
              /\ failed' = failed \cup {c} /\ done' = done \cup {c}
              /\ pc' = Notified(pc, Streams) /\ rpc' = "head"
              /\ UNCHANGED <<answer, sinks, fresh, rcb>>
           \/ /\ c \in sinks \cap Subs
              /\ Erase({c})
              /\ rpc' = "refused" /\ rcb' = {[id |-> c, last |-> TRUE]}
              /\ pc' = Notified(pc, Streams)
              /\ UNCHANGED answer
           \/ /\ c \notin pending \cup sinks
              /\ rpc' = "head"
              /\ UNCHANGED <<answer, sinks, done, failed, fresh, pc, rcb>>
    /\ UNCHANGED <<c2s, cOpen, hOpen, alive, pending, result,
                   active, dpc, host, hist>>

ReaderRefused ==
    /\ rpc = "refused"
    /\ \E r \in rcb : Calls1(r.id, TRUE)
    /\ rpc' = "head" /\ rcb' = {}
    /\ UNCHANGED <<conn, alive, slots, caller, dpc, host>>

\* The loop is left: the read fails, a frame fails a check, or an Error frame
\* says why the host is about to hang up.
ReaderLeaves ==
    /\ rpc = "read"
    /\ \/ /\ ~cOpen \/ (~hOpen /\ s2c = <<>>)
          /\ UNCHANGED s2c
       \/ /\ ReaderMayFail /\ cOpen /\ s2c # <<>>
          /\ s2c' = Tail(s2c)
       \/ Takes("error")
    /\ alive' = FALSE /\ rpc' = "wakeGets"
    /\ UNCHANGED <<c2s, cOpen, hOpen, slots, caller, active, rcb, dpc, host,
                   hist>>

ReaderWakesGets ==
    /\ rpc = "wakeGets" /\ rpc' = "sweep"
    /\ pc' = Notified(pc, Gets)
    /\ UNCHANGED <<conn, alive, slots, result, active, rcb, dpc,
                   host, hist>>

\* Mutant: get_stream() is not woken.
ReaderSweepsSilently ==
    /\ rpc = "sweep" /\ rpc' = "closing"
    /\ rcb' = {[id |-> c, last |-> TRUE] : c \in sinks \cap Subs}
    /\ Erase(Subs)
    /\ UNCHANGED <<conn, alive, pending, answer, caller, active, dpc, host,
                   hist>>

\* The subscriptions' sinks are taken out, get_stream() calls are woken.
ReaderSweeps ==
    /\ rpc = "sweep" /\ rpc' = "closing"
    /\ rcb' = {[id |-> c, last |-> TRUE] : c \in sinks \cap Subs}
    /\ Erase(Subs)
    /\ pc' = Notified(pc, Streams)
    /\ UNCHANGED <<conn, alive, pending, answer, result, active,
                   dpc, host, hist>>

ReaderClosesSub ==
    /\ rpc = "closing"
    /\ \E r \in rcb : Calls1(r.id, TRUE) /\ rcb' = rcb \ {r}
    /\ UNCHANGED <<conn, alive, slots, caller, rpc, dpc, host>>

ReaderGone ==
    /\ rpc = "closing" /\ rcb = {} /\ rpc' = "gone"
    /\ UNCHANGED <<conn, alive, slots, caller, active, rcb, dpc, host, hist>>

-----------------------------------------------------------------------------
(* The host: the connection's thread and the topic.                        *)

\* A frame to the client; to a connection that is cut it is a no-op.
Frames(fs) == s2c' = IF Up THEN s2c \o fs ELSE s2c

Chunk(c, last) == [kind |-> "chunk", id |-> c, last |-> last]
Response(c) == [kind |-> "response", id |-> c, last |-> FALSE]

HostTakes(kind) ==
    /\ hpc = "read" /\ hOpen /\ c2s # <<>> /\ Head(c2s).kind = kind
    /\ c2s' = Tail(c2s)

hostFrame == <<cOpen, alive, slots, caller, active, reader, dpc, hist>>

\* A unary request, or a refusal (not found, access denied).
HostAnswers ==
    /\ HostTakes("call")
    /\ Frames(<<Response(Head(c2s).id)>>)
    /\ UNCHANGED <<hOpen, hpc, hcur, hleft, topic, mySubs, published, stopping,
                   chunks, hostFrame>>

HostStreamBegins ==
    /\ HostTakes("call") /\ Head(c2s).id \in Streams
    /\ hpc' = "stream" /\ hcur' = {Head(c2s).id} /\ hleft' \in 0..MaxChunks
    /\ UNCHANGED <<s2c, hOpen, topic, mySubs, published, stopping, chunks,
                   hostFrame>>

\* StreamWriter::write, and the end-of-stream marker when the handler returns.
HostStreams ==
    /\ hpc = "stream"
    /\ \E c \in hcur :
          /\ Frames(<<Chunk(c, hleft = 0)>>)
          /\ chunks' = [chunks EXCEPT ![c] = @ + 1]
    /\ IF hleft = 0 THEN hpc' = "read" /\ hcur' = {} /\ UNCHANGED hleft
       ELSE hleft' = hleft - 1 /\ UNCHANGED <<hpc, hcur>>
    /\ UNCHANGED <<c2s, hOpen, topic, mySubs, published, stopping, hostFrame>>

\* A request for the topic: refused at the limit, else added; no response.
HostSubscribes ==
    /\ HostTakes("call") /\ Head(c2s).id \in Subs
    /\ MaxSubscriptions = 0 \/ Cardinality(mySubs) < MaxSubscriptions
    /\ topic' = topic \cup {Head(c2s).id} /\ mySubs' = mySubs \cup {Head(c2s).id}
    /\ UNCHANGED <<s2c, hOpen, hpc, hcur, hleft, published, stopping, chunks,
                   hostFrame>>

\* Mutant: the subscription leaves the connection's list but not the topic.
HostUnsubscribesHalf ==
    /\ HostTakes("unsub")
    /\ mySubs' = mySubs \ {Head(c2s).id}
    /\ UNCHANGED <<s2c, hOpen, hpc, hcur, hleft, topic, published, stopping,
                   chunks, hostFrame>>

HostUnsubscribes ==
    /\ HostTakes("unsub")
    /\ IF Head(c2s).id \in mySubs
       THEN topic' = topic \ {Head(c2s).id} /\ mySubs' = mySubs \ {Head(c2s).id}
       ELSE UNCHANGED <<topic, mySubs>>
    /\ UNCHANGED <<s2c, hOpen, hpc, hcur, hleft, published, stopping, chunks,
                   hostFrame>>

\* TopicHandle::publish: a chunk to every subscriber, or all of them pruned
\* because their connection is gone.
Publish ==
    /\ published < MaxPublish /\ topic # {}
    /\ published' = published + 1
    /\ \/ /\ Up
          /\ \E q \in [1..Cardinality(topic) -> topic] :
                /\ \A i, j \in DOMAIN q : q[i] = q[j] => i = j
                /\ Frames([i \in DOMAIN q |-> Chunk(q[i], FALSE)])
          /\ UNCHANGED topic
       \/ ~Up /\ topic' = {} /\ UNCHANGED s2c
    /\ UNCHANGED <<c2s, hOpen, hpc, hcur, hleft, mySubs, stopping, chunks,
                   hostFrame>>

\* close_all: the last chunk to every subscriber, all of them forgotten.
HostStops ==
    /\ ~stopping /\ stopping' = TRUE
    /\ \E q \in [1..Cardinality(topic) -> topic] :
          /\ \A i, j \in DOMAIN q : q[i] = q[j] => i = j
          /\ Frames([i \in DOMAIN q |-> Chunk(q[i], TRUE)])
    /\ topic' = {}
    /\ UNCHANGED <<c2s, hOpen, hpc, hcur, hleft, mySubs, published, chunks,
                   hostFrame>>

\* The rate limiter's Error frame, whatever was asked; the loop is left next.
HostRefuses ==
    /\ HostTakes("call") \/ HostTakes("unsub")
    /\ Frames(<<[kind |-> "error", id |-> Head(c2s).id, last |-> FALSE]>>)
    /\ hpc' = "leave"
    /\ UNCHANGED <<hOpen, hcur, hleft, topic, mySubs, published, stopping,
                   chunks, hostFrame>>

\* What comes after a failed write does not pass the host's checks.  It may
\* also be taken for the rest of a torn frame, and the host reads on.
HostRejects ==
    /\ HostTakes("torn") /\ Len(c2s) > 1
    /\ hpc' = "leave"
    /\ UNCHANGED <<s2c, hOpen, hcur, hleft, topic, mySubs, published, stopping,
                   chunks, hostFrame>>

\* The exit path of handle_connection: detach from the topic, close.
HostLeaves ==
    /\ \/ hpc = "leave"
       \/ /\ hpc = "read"
          /\ \/ stopping \/ ~hOpen
             \/ ~cOpen /\ (c2s # <<>> => Head(c2s).kind = "torn")
    /\ hpc' = "gone" /\ hOpen' = FALSE /\ c2s' = <<>>
    /\ topic' = topic \ mySubs
    /\ UNCHANGED <<s2c, hcur, hleft, mySubs, published, stopping, chunks,
                   hostFrame>>

-----------------------------------------------------------------------------
CallStep(c) ==
    \/ Register(c) \/ SendFails(c) \/ Unsent(c) \/ GetCheck(c) \/ StreamLoop(c)
    \/ StreamCheck(c) \/ UnsubscribeErase(c) \/ UnsubscribeUntold(c)
Written(c) == Send(c) \/ UnsubscribeTell(c)
TimesOut(c) == GetTimesOut(c) \/ StreamTimesOut(c)
DisconnectStep == DisconnectCloses \/ DisconnectWakes \/ DisconnectJoins
ReaderStep ==
    \/ ReaderHead \/ ReaderChunk \/ ReaderCalls \/ ReaderCalled \/ ReaderResponse
    \/ ReaderRefused \/ ReaderLeaves \/ ReaderWakesGets \/ ReaderSweeps
    \/ ReaderClosesSub \/ ReaderGone
HostStep ==
    \/ HostAnswers \/ HostStreamBegins \/ HostStreams \/ HostSubscribes
    \/ HostUnsubscribes \/ HostRefuses \/ HostLeaves

Next ==
    \/ \E c \in Ids : Begin(c) \/ CallStep(c) \/ Written(c) \/ TimesOut(c) \/ Unsubscribe(c)
    \/ DisconnectMarks \/ DisconnectStep
    \/ ReaderStep
    \/ HostStep \/ HostRejects \/ Publish \/ HostStops

Spec == Init /\ [][Next]_vars

\* Threads are scheduled and callbacks and handlers return.  The timeouts of
\* calls are not fair: what must happen happens without waiting for one.  Nor
\* is a write by a call, which the host may keep blocked: what is fair is that
\* it fails once an end is closed, or at the send timeout if there is one.
\* The host's own writes go on for as long as the client's reader reads; no
\* property asks anything of the host after the reader has gone.
Fairness ==
    /\ \A c \in Ids : WF_vars(CallStep(c))
    /\ WF_vars(DisconnectStep) /\ WF_vars(ReaderStep) /\ WF_vars(HostStep)

FairSpec == Spec /\ Fairness

-----------------------------------------------------------------------------
(* Properties.                                                             *)

\* Types; an answer needs a slot, a callback to make needs a reader in a call.
TypeOK ==
    /\ \A i \in DOMAIN c2s : c2s[i] \in [kind : {"call", "unsub", "torn"}, id : Ids]
    /\ \A i \in DOMAIN s2c : s2c[i] \in
          [kind : {"chunk", "response", "error"}, id : Ids, last : BOOLEAN]
    /\ {cOpen, hOpen, alive, stopping} \subseteq BOOLEAN
    /\ pc \in [Ids -> {"idle", "found", "send", "unsent", "check", "asleep", "loop",
                       "live", "erase", "tell", "over"}]
    /\ result \in [Ids -> {"none", "ok", "error", "unsubscribed"}]
    /\ pending \subseteq Gets /\ answer \subseteq pending
    /\ sinks \subseteq Streams \cup Subs /\ active \subseteq Subs
    /\ rpc \in {"head", "read", "call", "called", "refused", "wakeGets", "sweep",
                "closing", "gone"}
    /\ rpc \in {"head", "read"} => rcb = {}
    /\ dpc \in {"idle", "close", "wakeGets", "wakeStreams", "join", "over"}
    /\ hpc \in {"read", "stream", "leave", "gone"}
    /\ topic \subseteq Subs /\ mySubs \subseteq Subs

\* Nothing follows the last callback: a subscription (or stream) sees
\* closed = true (is_last) at most once and no message after it, whichever of
\* the host's last chunk, a refusal, the reader's end and unsubscribe() race.
LastIsLast == \A c \in Ids : \A i \in DOMAIN log[c] :
                  log[c][i] = "last" => i = Len(log[c])

\* When unsubscribe() has returned, at most the one callback the reader had
\* already looked up still runs (client.cpp:262-273).
AtMostOneLateCallback == \A c \in Subs : late[c] <= 1

\* A chunk looked up by the reader, whose callback has not been called.
OnItsWay(c) == Cardinality({r \in rcb : rpc = "call" /\ r.id = c})

\* No chunk the host wrote is lost, repeated or passed on for another stream:
\* when get_stream() returns normally, the callback has had all of them but
\* at most the last one, which the reader is about to pass on.
OnlyTheLastIsLate ==
    \A c \in Streams : result[c] = "ok" =>
        /\ Len(log[c]) + OnItsWay(c) = chunks[c]
        /\ \A r \in rcb : rpc = "call" /\ r.id = c => r.last

\* The callback has had every chunk, the last one too, when get_stream()
\* returns normally: it runs "while the calling thread blocks".
StreamDelivered ==
    \A c \in Streams : result[c] = "ok" => Len(log[c]) = chunks[c]

\* No call leaves its slot behind, however it ended, except to a reader that
\* is about to erase it.
NoSlotLeaks == \A c \in Ids : Over(c) =>
    c \notin pending /\ (c \in sinks => \E r \in rcb : r.id = c)

\* Every blocked call returns once the connection is dead, with no timeout of
\* its own: no wakeup is lost between alive and the two condition variables.
\* Without a send timeout a call may stay in its write, since the reader's end
\* does not close the transport (client.cpp:321-341).
CallsReturn == \A c \in Gets \cup Streams :
    (~alive /\ pc[c] \notin {"idle", "over"}) ~>
        (pc[c] = "over" \/ (pc[c] = "send" /\ ~SendTimeout))

\* disconnect() returns: the reader it joins cannot stay blocked.
DisconnectReturns == dpc # "idle" ~> dpc = "over"

Forgotten(c) ==
    c \notin topic /\ \A i \in DOMAIN c2s : c2s[i].id # c \/ c2s[i].kind = "torn"

\* A subscriber that unsubscribed is dropped by the host's topic, unless the
\* client's reader had given the connection up before or a write failed on
\* the open connection; and however unsubscribe() fared, it is dropped once
\* the client has closed the connection.
HostForgets == \A c \in Subs :
    /\ result[c] = "unsubscribed" ~>
         (Forgotten(c) \/ rpc = "gone" \/ \E i \in DOMAIN c2s : c2s[i].kind = "torn")
    /\ (result[c] = "unsubscribed" /\ ~cOpen) ~> Forgotten(c)

\* After the connection was lost and the reader has made its last calls, no
\* subscription a caller holds still reports that it is active.
ClosedOnConnectionLoss ==
    rpc = "gone" => \A c \in Subs : pc[c] = "live" => c \notin active
=============================================================================
