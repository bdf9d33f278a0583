----------------------------- MODULE Handshake -----------------------------
(***************************************************************************)
(* One connection from its first byte: the HELLO and HELLO_ACK of          *)
(* src/src/handshake.cpp, with peers of different protocol versions, and   *)
(* then the requests, stream chunks, responses and errors that travel as   *)
(* the messages of module Wire.  Either side may time out, close or die at *)
(* any step; both follow the protocol.                                     *)
(***************************************************************************)
EXTENDS Wire

CONSTANTS Service,    \* own_service_name of the host
          Asked,      \* names that a client may ask for
          Exposed,    \* endpoint name -> "Receive" | "StreamReceive"
          Names,      \* endpoint names that the client uses
          Datas,      \* request and chunk data
          MaxMsgs     \* bound: messages of the client after the handshake

\* A name is text, without a zero byte; a service's name is a file name
\* (registry.cpp:22) and fits its length byte; sequence numbers do not wrap.
Letters == {<<b>> : b \in 1 .. Base - 1}

ASSUME HandshakeAssumption ==
  /\ Service \in Seq(Letters) /\ Len(Service) < Base
  /\ Asked \subseteq Seq(Letters) /\ Names \subseteq Seq(Letters)
  /\ Datas \subseteq Seq(Bytes)
  /\ MaxMsgs \in Nat /\ MaxMsgs < Base * Base * Base * Base

VARIABLES env,                   \* versions of both sides, name asked, trust
          cpc, spc,              \* progress of the two sides
          toServer, toClient,    \* frames in the two socket buffers
          broken,                \* a side has timed out, stopped or died
          hs,                    \* what the host has found in the HELLO
          cRes, sRes,            \* handshake::Result of the two sides
          stream,                \* the client's OutputStream
          sent, got, answers     \* history: sent, decoded by the host, returned

vars == <<env, cpc, spc, toServer, toClient, broken, hs, cRes, sRes, stream, sent, got, answers>>

ClientId == <<"key", "client">>
ServerId == <<"key", "server">>
None == [version |-> 0]

Sign(id, bytes) == <<"sig", id, bytes>>
Verify(id, bytes, sig) == sig = Sign(id, bytes)

\* crypto_kx: the client's rx key is the server's tx key.
SessionKey(to, ceph, seph) == <<to, ceph, seph>>

Init ==
  /\ env \in [cmax : 1 .. 2, smax : 1 .. 2, asked : Asked, ctrusts : BOOLEAN, strusts : BOOLEAN]
  /\ cpc = "hello" /\ spc = "hello" /\ broken = FALSE
  /\ toServer = << >> /\ toClient = << >>
  /\ hs = None /\ cRes = None /\ sRes = None
  /\ stream = [id |-> 0, seq |-> 0, open |-> FALSE, endpoint |-> << >>]
  /\ sent = << >> /\ got = << >> /\ answers = << >>

Gone(pc) == pc \in {"failed", "left", "limited"}

---------------------------------------------------------------------------
(* client_handshake                                                        *)

MyHello ==
  LET eph == <<"eph", "client">>
      nonce == <<"nonce", "client">> IN
  [id |-> ClientId, eph |-> eph, nonce |-> nonce, service |-> env.asked,
   sig |-> Sign(ClientId, hello_signed_bytes(eph, nonce, env.asked)),
   max |-> env.cmax,
   sig2 |-> Sign(ClientId, hello_signed_bytes_v2(env.cmax, ClientId, eph, nonce, env.asked))]

ClientHello ==
  /\ cpc = "hello"
  /\ cpc' = "ack"
  /\ toServer' = << write_frame("Hello", encode_hello(MyHello), FALSE) >>
  /\ UNCHANGED <<env, spc, toClient, broken, hs, cRes, sRes, stream, sent, got, answers>>

\* The checks of the client, in the order of the code, on a decoded ack.
AckAccepted(ack) ==
  LET v == negotiate_version(env.cmax, ack.max) IN
  /\ ack.status = 0
  /\ ack.cnonce = MyHello.nonce
  /\ env.ctrusts                                    \* is_trusted(ack.identity_pubkey)
  /\ Verify(ack.id, hello_ack_signed_bytes(ack.eph, ack.snonce, ack.cnonce), ack.sig)
  /\ v # 0
  /\ v >= 2 => /\ ack.ext
               /\ Verify(ack.id, hello_ack_signed_bytes_v2(ack.max, v, ack.status, ack.id,
                           ClientId, ack.eph, ack.snonce, ack.cnonce), ack.sig2)

ClientAck ==
  /\ cpc = "ack" /\ toClient # << >>
  /\ toClient' = Tail(toClient)
  /\ LET f == Head(toClient)
         ack == decode_hello_ack(f.body) IN
     IF /\ read_frame_accepts(f, FALSE) /\ f.type = "HelloAck" /\ ack.ok /\ AckAccepted(ack)
     THEN /\ cpc' = "open"
          /\ cRes' = [version |-> negotiate_version(env.cmax, ack.max), peer |-> ack.id,
                      rx |-> SessionKey("client", MyHello.eph, ack.eph),
                      tx |-> SessionKey("server", MyHello.eph, ack.eph)]
     ELSE cpc' = "failed" /\ cRes' = None
  /\ UNCHANGED <<env, spc, toServer, broken, hs, sRes, stream, sent, got, answers>>

---------------------------------------------------------------------------
(* server_handshake                                                        *)

\* Early returns without an answer, and then the signatures and the trust.
HelloConsidered(h) ==
  /\ h.version = 1
  /\ h.service = Service
  /\ negotiate_version(env.smax, h.max) # 0

HelloTrusted(h) ==
  /\ Verify(h.id, hello_signed_bytes(h.eph, h.nonce, h.service), h.sig)
  /\ negotiate_version(env.smax, h.max) >= 2 =>
       /\ h.ext
       /\ Verify(h.id, hello_signed_bytes_v2(h.max, h.id, h.eph, h.nonce, h.service), h.sig2)
  /\ env.strusts                                    \* is_trusted(hello.identity_pubkey)

ServerHello ==
  /\ spc = "hello" /\ toServer # << >>
  /\ toServer' = Tail(toServer)
  /\ LET f == Head(toServer)
         h == decode_hello(f.body) IN
     IF read_frame_accepts(f, FALSE) /\ f.type = "Hello" /\ h.ok /\ HelloConsidered(h)
     THEN /\ spc' = "ack"
          /\ hs' = [version |-> negotiate_version(env.smax, h.max), trusted |-> HelloTrusted(h),
                    peer |-> h.id, eph |-> h.eph, nonce |-> h.nonce]
     ELSE spc' = "failed" /\ hs' = hs
  /\ UNCHANGED <<env, cpc, toClient, broken, cRes, sRes, stream, sent, got, answers>>

MyAck ==
  LET eph == <<"eph", "server">>
      snonce == <<"nonce", "server">>
      status == IF hs.trusted THEN 0 ELSE 1 IN
  [id |-> ServerId, eph |-> eph, snonce |-> snonce, cnonce |-> hs.nonce, status |-> status,
   sig |-> Sign(ServerId, hello_ack_signed_bytes(eph, snonce, hs.nonce)),
   max |-> env.smax,
   sig2 |-> Sign(ServerId, hello_ack_signed_bytes_v2(env.smax, hs.version, status, ServerId,
                             hs.peer, eph, snonce, hs.nonce))]

\* Mutant: both directions use the keys as the client names them.
ServerAckSameKeys ==
  /\ spc = "ack"
  /\ toClient' = Append(toClient, write_frame("HelloAck", encode_hello_ack(MyAck), FALSE))
  /\ IF hs.trusted
     THEN /\ spc' = "open"
          /\ sRes' = [version |-> hs.version, peer |-> hs.peer,
                      rx |-> SessionKey("client", hs.eph, MyAck.eph),
                      tx |-> SessionKey("server", hs.eph, MyAck.eph)]
     ELSE spc' = "failed" /\ sRes' = sRes
  /\ UNCHANGED <<env, cpc, toServer, broken, hs, cRes, stream, sent, got, answers>>

\* Mutant: a client that was refused in the ack is served.
ServerAckServesAll ==
  /\ spc = "ack"
  /\ toClient' = Append(toClient, write_frame("HelloAck", encode_hello_ack(MyAck), FALSE))
  /\ spc' = "open"
  /\ sRes' = IF hs.trusted THEN [version |-> hs.version, peer |-> hs.peer,
                      rx |-> SessionKey("server", hs.eph, MyAck.eph),
                      tx |-> SessionKey("client", hs.eph, MyAck.eph)] ELSE sRes
  /\ UNCHANGED <<env, cpc, toServer, broken, hs, cRes, stream, sent, got, answers>>

ServerAck ==
  /\ spc = "ack"
  /\ toClient' = Append(toClient, write_frame("HelloAck", encode_hello_ack(MyAck), FALSE))
  /\ IF hs.trusted
     THEN /\ spc' = "open"
          /\ sRes' = [version |-> hs.version, peer |-> hs.peer,
                      rx |-> SessionKey("server", hs.eph, MyAck.eph),
                      tx |-> SessionKey("client", hs.eph, MyAck.eph)]
     ELSE spc' = "failed" /\ sRes' = sRes
  /\ UNCHANGED <<env, cpc, toServer, broken, hs, cRes, stream, sent, got, answers>>

---------------------------------------------------------------------------
(* Ways to end: the peer has closed, and what was in the buffers may be    *)
(* lost with it; a receive timeout; a stop, a disconnect or a crash.       *)

ClientEnds ==
  /\ cpc \in {"hello", "ack", "open"}
  /\ \/ Gone(spc) /\ broken' = broken
     \/ broken' = TRUE
  /\ cpc' = IF cpc = "open" THEN "left" ELSE "failed"
  /\ UNCHANGED <<env, spc, toServer, toClient, hs, cRes, sRes, stream, sent, got, answers>>

ServerEnds ==
  /\ spc \in {"hello", "ack", "open"}
  /\ \/ Gone(cpc) /\ broken' = broken
     \/ broken' = TRUE
  /\ spc' = IF spc = "open" THEN "left" ELSE "failed"
  /\ UNCHANGED <<env, cpc, toServer, toClient, hs, cRes, sRes, stream, sent, got, answers>>

---------------------------------------------------------------------------
(* The session: frames sealed with the keys and in the layout of the two   *)
(* results; the last cell of a sealed body is the tag of the AEAD.         *)

Sealed(type, body, res) ==
  write_frame(type, Append(body, <<"tag", res.tx, 0>>), res.version >= 2)
Opens(f, res) ==
  /\ read_frame_accepts(f, res.version >= 2)
  /\ f.with_epoch = (res.version >= 2)
  /\ f.body[Len(f.body)] = <<"tag", res.rx, 0>>
Plain(f) == SubSeq(f.body, 1, Len(f.body) - 1)

MaySend == cpc = "open" /\ Len(sent) < MaxMsgs

\* What Client::get and Client::send have in common.
Request(e, d, oneway) ==
  /\ MaySend
  /\ LET m == [ok |-> TRUE, id |-> <<"id", Len(sent) + 1>>, oneway |-> oneway,
               endpoint |-> e, data |-> d] IN
     /\ sent' = Append(sent, m)
     /\ toServer' = Append(toServer, Sealed("Request", encode_request(m), cRes))
  /\ UNCHANGED <<env, cpc, spc, toClient, broken, hs, cRes, sRes, stream, got, answers>>

get(e, d) == Request(e, d, FALSE)
send(e, d) == Request(e, d, TRUE)

OpenStream(e) ==
  /\ MaySend /\ stream.id = 0
  /\ stream' = [id |-> 1, seq |-> 0, open |-> TRUE, endpoint |-> e]
  /\ UNCHANGED <<env, cpc, spc, toServer, toClient, broken, hs, cRes, sRes, sent, got, answers>>

\* OutputStream::write, and finish with an empty last chunk
StreamWrite(d, last) ==
  /\ MaySend /\ stream.open
  /\ last => d = << >>
  /\ LET m == [ok |-> TRUE, id |-> <<"id", 0>>, seq |-> stream.seq, is_last |-> last,
               endpoint |-> stream.endpoint, data |-> d] IN
     /\ sent' = Append(sent, m)
     /\ toServer' = Append(toServer, Sealed("StreamChunk", encode_stream_chunk(m), cRes))
  /\ stream' = [stream EXCEPT !.seq = @ + 1, !.open = ~last]
  /\ UNCHANGED <<env, cpc, spc, toClient, broken, hs, cRes, sRes, got, answers>>

Decoded(f) == IF f.type = "Request" THEN decode_request(Plain(f)) ELSE decode_stream_chunk(Plain(f))

\* 0 ok, 1 error (wrong call shape), 2 not found
Status(e) == CASE e \notin DOMAIN Exposed -> 2
               [] e \in DOMAIN Exposed /\ Exposed[e] = "Receive" -> 0
               [] OTHER -> 1

\* The handler of a Receive endpoint answers with the request's data.
Reply(m) == [id |-> m.id, status |-> Status(m.endpoint),
             data |-> IF Status(m.endpoint) = 0 THEN m.data ELSE << >>]

ServerFrame ==
  /\ spc = "open" /\ toServer # << >>
  /\ toServer' = Tail(toServer)
  /\ LET f == Head(toServer)
         m == Decoded(f) IN
     IF Opens(f, sRes) /\ m.ok
     THEN /\ got' = Append(got, m) /\ spc' = spc
          /\ toClient' = IF f.type = "Request" /\ ~m.oneway
                         THEN Append(toClient, Sealed("Response", encode_response(Reply(m)), sRes))
                         ELSE toClient
     ELSE spc' = "left" /\ UNCHANGED <<got, toClient>>
  /\ UNCHANGED <<env, cpc, broken, hs, cRes, sRes, stream, sent, answers>>

kErrRateLimited == 1

\* A request too many: the host says why and leaves.
ServerLimits ==
  /\ spc = "open" /\ toServer # << >>
  /\ LET f == Head(toServer) IN f.type = "Request" /\ Opens(f, sRes) /\ Decoded(f).ok
  /\ toServer' = Tail(toServer)
  /\ toClient' = Append(toClient, Sealed("Error",
                   encode_error([reason |-> kErrRateLimited, message |-> << >>]), sRes))
  /\ spc' = "limited"
  /\ UNCHANGED <<env, cpc, broken, hs, cRes, sRes, stream, sent, got, answers>>

\* What get() makes of a response: the data or an EpxError::Code.
Outcome(status, data) == CASE status = 2 -> <<"NotFound">>
                           [] status = 1 -> <<"Protocol">>
                           [] OTHER -> <<"ok", data>>

ClientFrame ==
  /\ cpc = "open" /\ toClient # << >>
  /\ toClient' = Tail(toClient)
  /\ LET f == Head(toClient)
         r == decode_response(Plain(f))
         e == decode_error(Plain(f)) IN
     /\ cpc' = CASE ~Opens(f, cRes) -> "left"
                 [] Opens(f, cRes) /\ f.type = "Response" -> IF r.ok THEN cpc ELSE "left"
                 [] OTHER -> IF e.ok /\ e.reason = kErrRateLimited THEN "limited" ELSE "left"
     /\ answers' = IF Opens(f, cRes) /\ f.type = "Response" /\ r.ok
                   THEN Append(answers, [id |-> r.id, outcome |-> Outcome(r.status, r.data)])
                   ELSE answers
  /\ UNCHANGED <<env, spc, toServer, broken, hs, cRes, sRes, stream, sent, got>>

Next ==
  \/ ClientHello \/ ClientAck \/ ServerHello \/ ServerAck \/ ClientEnds \/ ServerEnds
  \/ \E e \in Names, d \in Datas : get(e, d) \/ send(e, d)
  \/ \E e \in Names : OpenStream(e)
  \/ \E d \in Datas, last \in BOOLEAN : StreamWrite(d, last)
  \/ ServerFrame \/ ServerLimits \/ ClientFrame

Spec == Init /\ [][Next]_vars

---------------------------------------------------------------------------
(* Properties.                                                             *)

\* The two sides take their steps in order, and have a result exactly when
\* they have come through the handshake (handshake.cpp's optional<Result>).
TypeOK ==
  /\ cpc \in {"hello", "ack", "open", "failed", "left", "limited"}
  /\ spc \in {"hello", "ack", "open", "failed", "left", "limited"}
  /\ (cRes # None) = (cpc \in {"open", "left", "limited"})
  /\ (sRes # None) = (spc \in {"open", "left", "limited"})
  /\ Len(sent) <= MaxMsgs /\ stream.seq <= MaxMsgs
  /\ \A i \in DOMAIN toServer : toServer[i].type \in FrameType
  /\ \A i \in DOMAIN toClient : toClient[i].type \in FrameType

\* A client that comes through client_handshake (handshake.cpp:67-71) has
\* the host it asked for at the other end, and that host's server_handshake
\* came through with the same version, the smaller of the two maxima, with
\* the keys crossed and with this client as its peer.  Both sides work the
\* version out for themselves, from an extension that the other may not
\* send or not read.
Agreement ==
  cRes # None =>
    /\ sRes # None
    /\ cRes.version = sRes.version
    /\ cRes.version = IF env.cmax < env.smax THEN env.cmax ELSE env.smax
    /\ cRes.rx = sRes.tx /\ cRes.tx = sRes.rx
    /\ cRes.peer = ServerId /\ sRes.peer = ClientId
    /\ env.asked = Service

Oversize(m) ==
  LET body == IF "seq" \in DOMAIN m THEN encode_stream_chunk(m) ELSE encode_request(m)
  IN Sealed("Request", body, cRes).total_len > MaxFrame

\* Two honest peers that trust each other always get a session whatever
\* their versions, and keep it (handshake.cpp, host.cpp:597-627): when a
\* side gives up, somebody timed out, stopped or died, the service's name or
\* a trust did not fit, an endpoint's name is too long for its length byte
\* (protocol.cpp:16), a frame is over the cap that only the reader
\* has (framing.cpp:26), or the host refused a request too many.
GivesUpForAReason ==
  Gone(cpc) \/ Gone(spc) =>
    \/ broken \/ spc = "limited"
    \/ env.asked # Service \/ ~env.ctrusts \/ ~env.strusts
    \/ \E i \in DOMAIN sent : Len(sent[i].endpoint) >= Base \/ Oversize(sent[i])

\* What the host decodes (protocol.cpp:183-239) is what the client sent, in
\* the same order: the same endpoint, data, sequence number and flags, also
\* when the name does not fit its length byte, which must never reach
\* another endpoint.
Dispatched ==
  /\ Len(got) <= Len(sent)
  /\ \A i \in DOMAIN got : got[i] = sent[i]

\* A get() (client.cpp:504-518) returns what its own endpoint answers.
Answered ==
  \A i \in DOMAIN answers : \E j \in DOMAIN sent :
    /\ sent[j].id = answers[i].id /\ ~sent[j].oneway
    /\ answers[i].outcome = Outcome(Status(sent[j].endpoint), sent[j].data)

\* Requests, chunks and answers arrive as they were sent, or not at all.
EndToEnd == Dispatched /\ Answered
=============================================================================
