# A TLA+ model of EPX-CORE

EPX-CORE is an IPC library: a `Host` exposes named endpoints over a Unix-domain
socket, a `Client` finds it through a registry of files, both authenticate with
long-term keys, and all traffic runs over one encrypted, counted, key-rotating
connection per client and service. This directory models the library's own
logic in TLA+, checks it with TLC on small instances, and proves its safety
properties with TLAPS for every instance. Line numbers refer to the repository's `src/` tree
(`client.cpp` is `src/client.cpp` there, and so on).

## The system's parts

| Part | State | Operations | What is hard |
|---|---|---|---|
| Session (`client.cpp` 41-125, 161-250; `host.cpp` 144-204, 528-650; `framing.cpp`) | tx/rx key, epoch, counter at each end; `rekey_in_progress`, `pending_eph`; `alive`; the two byte streams | seal-and-send by any client thread, the reader's `open_checked`, `REKEY`/`REKEY_ACK`, host replies, publishes and heartbeats on one `tx_mutex` | rotation while several threads send on both ends; failed and torn writes; a cut-off that should say why |
| Host lifecycle (`host.cpp` 290-340, 470-765, 920-1015; `transport_posix.cpp`) | `running`, `stop_requested`, listener, live connections, threads, the topic's subscriber list and mutex | `run`, accept, serve, heartbeat, `request_stop`, `stop`, `wait_until_stopped` | stop against accept, heartbeat, blocked writes and a second stop; silent and stuck peers |
| Client calls (`client.cpp` 161-342, 417-606, 680-760) | `pending`, `stream_sinks`, two condition variables, callbacks in flight | `get`, `get_stream`, `subscribe`, `unsubscribe`, `disconnect`, the reader's dispatch and exit sweep | callbacks made without a lock; timeouts against late answers; lost wakeups; registration on a dying connection |
| Topics (`host.cpp` 221-285) | subscriber list | `add`, `remove`, `remove_conn`, `publish`, `close_all`, `heartbeat` | pruning, detaching and closing at once |
| Rendezvous (`registry.cpp`; `transport_posix.cpp` 106-202; `keystore.cpp` 112-128; `client.cpp` 129-159, 344-437) | registry entry, socket path, pin, connection cache, reader threads | `listen`, `publish`, `lookup` and its pruning, `connect`, the handshake's decision, `pin_peer`, caching, `close_connection` | files that several processes change unconditionally; crashes and restarts; two threads connecting at once |
| Access and limits (`host.cpp` 79-102, 342-450, 622-697; `credentials.cpp`; `keystore.cpp` 142-192) | token buckets per UID and per connection, known clients, decisions file, per-connection cache | `admit_connection`, `is_trusted`, the limiter, `authorize` and its prompt | refill arithmetic at the limits; an unchecked second `try_take`; two prompts at once |
| Handshake and wire encoding (`handshake.cpp`, `protocol.cpp`, `framing.cpp`) | versions, nonces, ephemerals, signatures, the two results | `client_handshake`, `server_handshake`, encoders and decoders, `write_frame`, `read_frame` | both sides work out the version on their own; one-byte lengths; a frame cap only the reader has |
| C API and key store (`c_api.cpp`, `keystore.cpp` 50-110, `registry.cpp`, `credentials.cpp`) | a message per thread, the identity file and its tmp file, what a host exposes, texts of entries and credentials | the `epx_*` functions of identities, hosts, credentials and enumeration | creators of one identity at once; values written into line formats as they are |
| Signal handling (`host.cpp` 104-135, 1010-1015; `c_api.cpp` 355-359) | a table of eight `Host*` | register, unregister, the handler | no locks: a handler walks the table while threads fill and clear it |
| Crypto wrappers (`crypto.cpp`), paths, CLI, Windows transport | none of their own | | |

The parts meet as follows. `Host::run` publishes the entry a client looks up
(Rendezvous, with the text of Text) and starts the threads of HostLifecycle. A
connection that passed Access's admission and trust, and the messages of
Handshake, becomes a Session. Client calls and topics send
their frames through the Session; Access stands before every request. `stop()`
and `disconnect()` end all of it from other threads.

## Modules

| Module | Models | Abstraction |
|---|---|---|
| `Session` | one connection after the handshake, both ends: client threads under `write_mutex`, the reader, the host's thread, a publisher, disconnect, stop | a key is the pair of ephemerals it comes from; the AEAD compares key and counter; a frame is a record; socket buffers hold `BufCap` frames; whether a rotation is due is a free choice |
| `SecureChannel` | what one direction promises: a prefix of what was submitted, in order, nothing after a drop | abstract specification, refined by `Session` |
| `LossyChannel` | what the direction to the host promises: order, nothing twice, nothing missing unless a write failed, and then only where an epoch ends | abstract specification, refined by `Session` |
| `HostLifecycle` | the threads of a `Host` and of its callers | requests and replies have no contents; hooks are a point where `stop()` may wait; `run()` is not called while a `stop()` is under way |
| `Calls` | the calls on one connection against the host's side of it | ids for calls; one topic; the byte streams are queues of frames that the session delivers in order; a write blocks for as long as it likes while both ends are open |
| `Rendezvous` | instances of one service, its entry, path and pin, and the threads of one `Client` | the handshake is one step on the client side |
| `Access` | the way of a request through the limits and `authorize` | time in ticks, a token is `Unit` credits, so rates are exact; handlers are left out; which endpoints take chunks is left open; policies and the prompt callback are fixed while the host runs |
| `Wire` | the encodings of `protocol.cpp` and the frame lengths of `framing.cpp`, as operators | a byte has `Base` values; keys, nonces, signatures and ids are one opaque cell each; lengths wrap as they do in the code |
| `Handshake` | one connection from its first byte: both handshakes, then requests, chunks, responses and errors as encoded messages | signatures and keys are symbolic terms; both peers follow the protocol; no rotation (that is `Session`) |
| `Text` | registry entries and credentials as texts: writers and readers | a text is a sequence of tokens, separators and line breaks among them; a number, a key or a signature is one token; `getline` is the positions at which its strings begin |
| `SignalTable` | the table behind `stop_on_signals`, slot by slot | one signal handler at a time; a use of a freed host writes nothing or stops any live host |
| `CApi` | a program that uses the C API from several threads; composes `Text` and `SignalTable` | a program makes a part of the calls (`Programs`); a message is the name of the call; a running host is `HostLifecycle`'s business |
| `SessionProofs`, `SessionFlowProofs`, `HostLifecycleProofs`, `CallsProofs`, `RendezvousProofs`, `AccessProofs`, `HandshakeProofs` (with `Wire`), `CApiProofs` (with `SignalTable` and `Text`) | the theorems | |
| `MC*` | model values and symmetry for TLC, no behaviour | |

In every component module an action is one critical section, or one stretch of
code between two points where another thread can see the difference. Definitions
called after a `Mutant:` comment are deliberately wrong variants of the
definition that follows them; no specification uses them. They stand for a
plausible bug each, and the property they are paired with in `PROJECT.json` is
violated when they replace the original.

**Session.** `seal_and_send` is `Call`, `Lock`, `NotDue` or `BeginRekey` and
`StoreEph`, `SendFrame`; the gap between `BeginRekey` and `StoreEph` is
client.cpp:108-112. The reader is `ReaderData`, `ReaderAck` and `ReaderSwitch`
(the part that needs `write_mutex`), `ReaderBreaks`, `ReaderEof`. The
host is `HostData`, `HostRekey` and `HostAck`, `HostReply`, `HostLimit`; `Publish`
is another host thread. A write blocks while the buffer is full; with
`WriteTimeout` it may fail instead and leave a gap or a torn frame (`cFault`).
The epoch byte is `MaxEpoch`, and epochs are compared modulo `MaxEpoch + 1`.

**HostLifecycle.** `stop()` is `Begin`, `TellAll`, `Tell`/`ToldAll`,
`JoinHeartbeat`, `CloseListener`, `CloseConns`, `JoinAccept`, `JoinConns`,
`Finish`, in the order of host.cpp:957-1001; the accept loop, each connection
thread and the heartbeat run beside it.

**Calls.** A call registers its slot, writes, checks its predicate with the mutex
held and sleeps on the condition variable; `Notified` is `notify_all`. The
reader's handling of a chunk is three actions because the callback runs between
two critical sections (client.cpp:252-280); so are a refusal and the exit sweep.
Timeouts may come at any time. A write of a call (`Writes`) needs both ends open and
may wait for ever, as `::send` does when the host does not read. It fails
(`WriteFails`) when an end is closed, and with `SendTimeout` also on an open
connection, where it leaves a torn frame: `SendFails` and `Unsent` then end a call,
`UnsubscribeUntold` is the failure that `unsubscribe()` ignores, and `HostRejects` is
the host that finds the next frame in its place.

**Rendezvous.** The host side is `HostListens`, `HostPublishes`, `HostStops`,
`HostCloses`, `HostUnpublishes`, `HostDestroyed`, `HostCrashes`; all changes of the
shared files are unconditional, as in the code. `get_or_connect` is `Cached`,
`Lookup`/`Prune`, `Trust`, `Dial`, `Fresh`, `Shake`, `Pin`, `Make`, `Store`;
`PinFails` is a pin whose file could not be written, which nobody notices; the
file was opened for writing before, so an earlier pin is gone with it
(keystore.cpp:126-127), and `emptied` remembers that. A
Connection lives while the map, a thread or its own reader refers to it.

**Access.** `Admit`, `Handshake`, `Request` or `StreamChunk`, `Wake` after a delay,
then `Dispatch`, `Authorize`, or `Ask` and `Answer`. A `HandshakeFails` may already
have recorded the client, since `is_trusted` is called before the ack is written
(handshake.cpp:102, 123). `passed`, `admitted`, `steady`,
`own` and `said` are history.

**Handshake.** `ClientHello`, `ServerHello`, `ServerAck`, `ClientAck` are the four
stretches of `handshake.cpp` between reads and writes; `HelloConsidered`,
`HelloTrusted` and `AckAccepted` are its early returns. `env` holds each side's
highest version, the name asked for and the answers of the two `is_trusted`
callbacks. `get`, `send`, `OpenStream` and `StreamWrite` send, `ServerFrame`,
`ServerLimits` and `ClientFrame` read frame by frame through the decoders of
`Wire`. `ClientEnds` and `ServerEnds` are timeouts, closes, stops and crashes.

**CApi.** `load_or_create_identity` is `epx_identity_load_or_create`, `KeyOpen`,
`KeyWrite` or `KeyWriteFails`, `KeyRename`, by threads of one or of several
processes; names of files are separate from inodes, because a second `open` of
the tmp file truncates what the first creator may already have renamed. A
host's handlers and description become the text that `publish_registry` writes,
and `epx_describe` and `epx_list_services` look that text up, service by service:
`LookupReads` reads an entry, and if it is one of a dead process, `LookupUnpublishes`
removes by its name whatever is there by then. `lost` is history: the services that
had published meanwhile. `SaveCredential` leaves
a file that may be half written, which the next `epx_host_run` reads.

**SignalTable.** Each `compare_exchange` of the register and unregister loops and
each load of the handler is a step (`RegisterPasses`, `RegisterEnds`,
`unregister_signal_host`, `TrampolineLoad`, `TrampolineRequest`); the handler
interrupts one thread, which does nothing meanwhile. `asked`, `owed` and `full`
are history: who had registered when the signal came, and whether there were
ever more registrations than slots.

## Runs

| Run | Expected | Shows |
|---|---|---|
| `rotation` | pass | `NonceUnique`, `HonestFramesAccepted`, `DropsAreJustified`, `KeysAgree`, `ReasonDelivered`, and that the host-to-client direction implements `SecureChannel` (`HostToClientSpec`) and the other one `LossyChannel` (`ClientToHostSpec`); `RotationSettles`: a rotation completes, or the connection is found dead, or a write of the client failed |
| `ackrace` | violation | an ack can be read before its ephemeral is stored, and an honest connection is dropped (client.cpp:108, 220) |
| `waitcycle` | violation | reader, sender and host can wait for each other when buffers are full and there is no send timeout (client.cpp:225) |
| `stop` | pass | `NothingLeftBehind`, `DetachedBeforeClosed`, `StopReturns` |
| `calls` | pass | `LastIsLast`, `AtMostOneLateCallback`, `OnlyTheLastIsLate`, `NoSlotLeaks`, `CallsReturn`, `DisconnectReturns`, `HostForgets` |
| `deadsub` | violation | a subscription made on a dying connection is never told (client.cpp:727) |
| `latechunk` | violation | `get_stream()` can return before its callback has had the last chunk (client.cpp:270, 273) |
| `connect` | pass | `AuthenticatedPeer`, `PinnedBeforeUse`, `PinHonoured`, `SocketIsOurs` |
| `reconnect` | violation | replacing a dead Connection destroys a joinable thread (client.cpp:412) |
| `access` | pass | `RateBound`, `SteadyNeverDelayed`, `AdmissionBound`, `AnswersConfined` |
| `wire` | pass | `Agreement` (version, keys and peers of both results), `GivesUpForAReason`, `EndToEnd` (every request, chunk and answer arrives as sent or not at all) |
| `capi` | pass | `KeyFileSettles`, `DescribeMatches`, `AcceptedAsSigned`, `SignalStopsAll`; its `TypeOK` says too that a thread finds its own error message |

Each passing run checks its module's type invariant too; the one of `Session` says
as well that `write_mutex` has one holder. Each violation is described, with the line of the
repository it contradicts, under `findings` in `PROJECT.json`.

Bounds, and why they are enough for what the runs ask:

- `rotation`: two client threads, two rotations (`MaxEpoch` 2), buffers of two
  frames, three frames from the client, one reply to each, one publish. Two
  rotations are needed for an old key to meet a pending one and for the epoch limit
  to be reached; two threads for one to send while the other's offer is open;
  full buffers happen at two frames. The run has a send timeout, without which
  the wait cycle of `waitcycle` (buffers of one frame) stops a rotation.
- `stop`: two calling threads, one connection that may be stuck, and two runs
  of the host, with a send timeout.
- `calls`: a get beside a subscription, or a stream on its own (`Mixes`), one chunk
  before the last, one publish, a limit of one subscription, with a send timeout.
  Each kind of call then meets the reader, a disconnect, a stop and a failed write,
  and a get and a subscription meet each other's torn frames.
- `connect`: two instances with different keys, two threads, two Connections,
  no overlap between instances. Two of each are what a change between two steps
  needs; the theorems hold for any number. Three threads can do more than two: t1
  and t3 both find no pin, t3 pins its key, t2 sees that pin and will not pin,
  t1's pin empties the file and fails, and t2 accepts a key that no file holds or
  ever will. `PinnedBeforeUse` therefore excepts what follows an emptied pin.
- `access`: two connections of one peer and UID, a `PromptUser` and a
  `Certificate` endpoint, half a token per tick, a burst of one, four ticks. A
  refill can fall short of, reach and exceed the cap.
- `wire`: bytes of three values, so that names of three to six letters do not fit
  their length byte and every way to misread one is tried; a cap of 27 cells
  that some requests exceed; versions 1 and 2 on either side; two messages.
  Letters are not zero: as in the code, where a name is text, the four bytes a
  reader takes for a length are then larger than any frame. `WireAssumption` asks
  that a version fits a byte, that the cap is at most `Base` cubed (2^24 in the
  code, exactly) and that a `HELLO` fits it; `HandshakeAssumption` that names are
  text, that the host's own name, which is part of a file's name
  (registry.cpp:22), fits its length byte, and that sequence numbers do not wrap.
- `capi`: five kinds of program. Three creators of one identity; two threads with
  three hosts, two slots, two registrations of a host and one signal, so that
  slots are freed, reused and exhausted under the handler; two threads that run,
  describe and free a host beside an entry of a dead process; one thread that
  exposes names with `:`, `,` and the reserved prefix and sets descriptions with `=`
  or a line break; one that makes, saves and loads two credentials, with scopes
  of several lines that imitate other fields.

Deadlock is not checked: every model stops legitimately when its bounds are
used up or its connection is gone. That nobody waits for ever is stated by the
liveness properties instead.

Fairness. `Session`, `HostLifecycle` and `Calls` have a `FairSpec`: weak fairness of
each thread's next step, since threads are scheduled and a write with room, a
read with data and a free mutex let a thread go on. Fair mutexes are assumed for
`Detach` and `TellAll` (strong fairness): they wait for the topic's mutex, which
the heartbeat takes only every few seconds. Clients' moves, calls of `stop()`,
`disconnect()` and publishes are never fair, nor are the timeouts in `Calls`:
its calls must return without one. A write of a call in `Calls` is not fair either,
because the host may not be reading; what is fair is that it fails once an end is
closed, or at the send timeout if there is one. `CallsReturn` therefore excepts a
call in its write when there is none. The host's own writes in `Calls` go on while the
client's reader reads, and those of a publish to other subscribers do too, or end at
the host's send timeout. `HostLifecycle` makes the handshake timeout
and the send timeout fair, because they are real timers. Handlers, hooks and
callbacks are assumed to return.

## Theorems

`SessionProofs`:

- `TypeCorrect`: `Spec => []TypeOK`.
- `NonceNeverReused`: `Spec => []NonceUnique`. `NonceUnique` counts: there were as
  many nonces as calls of the AEAD. It is not inductive. The invariant adds that
  only the holder of `write_mutex` is in the critical section (`LockInv`), that an
  ephemeral on its way to becoming a key (in the offering thread, in
  `pending_eph` or in the reader) is alone and newer than the current key
  (`OfferInv`), and that every nonce used so far is of an older key or has a counter
  already passed (`ClientNonceInv`, `HostNonceInv`). The host's part only holds while
  `alive` is set: a failed ack leaves a used nonce under the current counter, and
  it is `alive` that keeps `send_sealed` from using it again.

`SessionFlowProofs`, about what travels between the two ends:

- `NoHonestFrameRefused` (`HonestFramesAccepted`), `RotationsAgree` (`KeysAgree`),
  `NoUnjustifiedDrop` (`DropsAreJustified`), `LimitIsExplained` (`ReasonDelivered`).
  None is inductive: whether a frame opens is decided when it is sealed. `Flow`
  relates the key states of the two ends to every frame in both buffers: the host is
  at most one rotation ahead (`KeyInv`, `RotationInv`), frames of one
  direction carry epochs that do not fall and counters that rise from what the
  reader expects (`ClientFlow`, `HostFlow`), without a gap as long as no write has
  failed (`ClientCounters`). `DropInv` says what has to have happened before a drop.
- `HostToClientIsAChannel`: `Spec` implements `SecureChannel` for the direction to
  the client. The initial states map to initial states, and every step to a
  `Submit`, a `Deliver`, a `Drop` or a stutter; `HostOrder` exists for the proof only: there is
  a numbering of the frames in the buffer by what had been submitted before each, every
  action gives the next numbering, and so the next one delivered is the next one submitted.
- `ClientToHostIsAChannel`: `Spec` implements `LossyChannel` for the direction to the host. The
  client goes on after a failed write, so what `SecureChannel` says is not true here.
  `ClientOrder`, a numbering again, gives the order and where frames may be missing
  (`GapsOnlyAcrossEpochs`); that none is missing before a write failed, also across epochs,
  where the counters start again, needs a numbering without gaps as long as
  `cFault` is `none` (`WholeOrder`).

`HostLifecycleProofs`:

- `StopLeavesNothing` (`NothingLeftBehind`), `DetachesFirst` (`DetachedBeforeClosed`),
  `TypeCorrect`. The invariant fixes what each step of `stop()` has already
  achieved (`Stopper`, `Joined`), that the topic's mutex has one holder (`Mutex`), that a
  connection belongs to a thread of this run (`Owned`), and that a subscriber is
  a connection whose thread has not detached it yet (`Subscribed`).

`CallsProofs`:

- `NothingFollowsTheLast` (`LastIsLast`), `OneLateCallback` (`AtMostOneLateCallback`),
  `SlotsAreErased` (`NoSlotLeaks`), `NoChunkIsLost` (`OnlyTheLastIsLate`),
  `TypeCorrect`. The invariant has a part for what the reader holds between its two
  critical sections (`Reader`), for who owns a slot (`Slots`), for the callbacks made so far
  (`Callbacks`), and for the frames under way (`Wire`, `Track`). `Track` is what
  `NoChunkIsLost` needs: for each frame, how many chunks of the stream had been written
  before it, so that the reader has passed on exactly the chunks before the head
  of the queue.

`RendezvousProofs`:

- `PeersAreAuthenticated` (`AuthenticatedPeer`), `PeersArePinned` (`PinnedBeforeUse`),
  `PinsAreHonoured` (`PinHonoured`), `PathIsOurs` (`SocketIsOurs`), `TypeCorrect`. The
  invariant says what a thread has learned by the step it is at and what of it
  cannot change any more: the key in its copy of the entry (`Peers`), the pin it
  read (`Pins`), its Connection (`Connections`), the path and who is bound to it
  (`Path`, `Binds`). The attempt to prove `PinnedBeforeUse` as it stood before led to
  the three threads described under `connect`.

`HandshakeProofs`, about `Wire` and `Handshake`:

- Lemmas that every decoder reads what its encoder wrote, for every byte size:
  `RequestRead`, `ChunkRead`, `ResponseRead`, `ErrorRead`, `HelloRead`, `AckRead`. They rest on
  `Positional` (four digits make up a length) and `LongNamed`: a name that does not
  fit its length byte leaves letters where the reader looks for a length, and a
  length that begins with a letter is more than any frame holds.
- `AgreementHolds`, `GivesUpForAReasonHolds`, `EndToEndHolds`, `TypeCorrect`. The invariant
  says who has come how far with which frame in which buffer (`PhaseInv`), that
  the frames on their way to the host are those of the messages sent and not yet decoded
  (`FlightInv`), and that those on their way back are answers to requests that
  fitted, which therefore fit too, or the limiter's reason (`AnswerInv`). `HelloOutcome`
  and `AckOutcome` are the core: what each side makes of the other's message,
  also when a long service name makes the host misread the `HELLO`. It then finds no
  signature where it looks for one.

`CApiProofs`, about `SignalTable`, `Text` and `CApi`:

- `SignalsReachAll` for the table alone, `SignalsStopPrograms`: `Spec => []SignalStopsAll`
  for every program, since a step of `CApi` is a step of `SignalTable` or leaves the
  table alone (`TableStep`). The invariant `TableInv` says that a thread that
  unregisters has cleared every slot it has passed (`WalkInv`), that behind every slot
  there is room for all who still look for one there, so that as long as the
  table was never full nobody falls off its end (`RoomInv`: at most as many taken
  slots and seekers from slot k on as there are slots from k on), that a host whose call
  has returned is in the table (`AskedInv`), and that a host still to be stopped
  has a slot ahead of the handler (`OwedInv`). The counting step is that a seeker that
  passes slot k leaves a taken slot behind. `TableTypes`: the walks stay in the table.
- `IdentitySettles`: `Spec => []KeyFileSettles`. The invariant (`FileInv`) says that the
  key file and the tmp file are different inodes, that an empty one of them has a
  creator about to write it, and that a written one holds the key of a creator
  about to rename or of one that is done (`Owned`).
- `TypeCorrect`: `Spec => []TypeOK` of `CApi`, with each thread's own error message.
- `DescribedAsExposed`: `Spec => []DescribeMatches`. That a list of endpoints comes back
  through `join` and `split` (`JoinSplit`) is an induction over the list: what is joined so far
  splits into the items so far, and an item behind a separator adds one
  (`ItemAdded`). A text that is lines of plain values tells each of its keys' values
  (`Known`), so a published entry is read as it was written (`EntryFound`), and the last
  `:` of an endpoint is the one `publish_registry` put there. `ServiceInv` then says, host by
  host, that the entry of a running host is the one of its handlers and
  description, or has been removed by a lookup since it was published (`lost`), also
  across failed runs, pruning and the reuse of a handle. `LookInv` is the reason: whoever
  is about to remove an entry has read a stale text, and the entry of a running host is
  another one, so that its removal is always recorded.
- `CredentialsAsSigned`: `Spec => []AcceptedAsSigned`. `CredInv` says that a file is a part of
  the text of a credential made before and that a host holds only what was made. The
  core (`AcceptedIsMade`) is what can be read from such a part: the only token in it that reads
  as a signature is the credential's own (`OwnSignature`), and that one verifies only for
  the fields that were signed (`SignedApart`). So a scope whose lines imitate other
  fields, or a file cut off in the middle, is refused or reads as it was signed.

`AccessProofs`:

- `TypeCorrect`: no bucket holds more than its burst, and the rest of `TypeOK`.
- `RateBounded`, `AdmissionBounded`: the bounds follow from an account: requests let
  through, plus what the bucket holds, were paid for by the burst and the time up
  to the last refill (`RateInv`, `AdmissionInv`). A `Wake` keeps the account although
  it does not look at the result of `try_take`, because it comes no earlier than
  `seconds_until_token` and the burst is at least one token.
- `SteadyPeersServed`: a connection that kept to the rate has a full bucket
  before its first request and was last refilled at its last request (`SteadyInv`).
- `AnswersStayConfined`: every line of the decisions file was somebody's
  `AlwaysAllow` or `Deny` (`DecisionsInv`), and a thread asks only about what its
  connection has not decided (`PromptInv`).

They hold for all values of the constants that satisfy the modules' `ASSUME`s:
any number of connections, peers, threads, hosts, slots and keys, any rates and
bursts, any bound on time, frames and signals. What the models abstract is
outside them: in particular that
`sleep_for` sleeps at least as long as it was told, that doubles behave like the
rationals they stand for, and that every ephemeral is fresh.

`TextAssumption` says what the tokens of a text are: `stoi` and its like read a token on its
own, `1` is a number and so is every process id. `CApiAssumption` says that the program
runs, that expiries are numbers, that keys are keys, that names, descriptions and
scopes are texts, and that no scope has a signature in it. The last one is the usual
idealisation: a signature over given bytes can only be had by making it, so a
caller cannot put into a scope one that is only made together with that scope.

The same goes for `HandshakeProofs`: it takes signatures and keys as symbolic terms,
so that only the holder of a key makes its signature.

Induction over data is done with sets: the library's induction theorems cannot be
instantiated here, but that a non-empty set of numbers has a least one (`WFMin`, `Least` in
`CApiProofs`) is a fact about a set, and so is the induction lemma that follows from
it (`Induction`: a set of numbers that has the first and with each the next one).

Only model-checked: the liveness properties, since the prover has no rules for
fairness. Every invariant of a passing run is stated by a theorem.

## Not modelled

- libsodium, directory layout and permissions, errors of file operations other
  than a failed write of a key or a pin.
- The data race on a transport's descriptor (`transport_posix.cpp` 86-97): two closers,
  or a close during a read, may close a number that has been reused. `close` is
  atomic in the models.
- `expose` and the setters on a running host: `expose()` without a policy first sets an
  explicit open policy and then takes it back (`host.cpp` 797-803), and a request in
  between is judged by it. The header asks for hosts to be set up before `run()`.
- More than one topic. `running` is cleared before the final chunks are written
  (`host.cpp` 567, 980): a connection thread that looks at it in between leaves first,
  and its subscribers get no final chunk; the client's exit sweep hides it.
- Overlapping instances of one service, whose nudge may wake the other one's
  accept loop (`transport_posix.cpp` 126).
- The growth of `live_conns` and `conn_threads`, which are only cleared by `stop()`
  (`host.cpp` 761).
- Handlers, prompts and callbacks beyond the point where they are called; the
  buffers and adapters of the C API; the CLI; the Windows transport.
- A reply longer than a frame: the host's answers in `Handshake` repeat what was asked
  and fit whenever the request did.
- Garbage behind a torn frame that the host takes for a `Ping` and answers with an
  unsealed `Pong` (`HostSkip` in `Session` only skips it).
- A `rename` of the key file that fails (`keystore.cpp` 108).
- Rotation under protocol version 1: `Version` is a constant of `Session`, and the runs
  use 2. `Handshake` has both versions, without rotation.

Divergences between the documents and the code that no run shows:

- The header says `stop()` "blocks until every connection-handler thread has actually
  returned", from any thread (`epx.hpp` 468-469); a second `stop()` that finds `running`
  false returns at once (`host.cpp` 958).
- The header says the callback is invoked with `closed=true` on `unsubscribe` as well
  (`epx.hpp` 658-662); `unsubscribe()` erases the sink without calling it
  (`client.cpp` 701-707).
- A subscription that is destroyed or unsubscribed "tells the host to drop the subscription,
  so a quitting subscriber never leaves the host publishing into the void" (`epx.hpp`
  631-634). The result of that write is ignored (`client.cpp` 715): if it fails at the send
  timeout on a connection that stays open, or is skipped because the reader has left
  (`client.cpp` 708) without closing the transport, the host publishes on until
  the connection is closed. `HostForgets` excepts both.
- A `get_stream()` that timed out may see one more callback, which the reader had looked up
  before; its callback runs "while the calling thread blocks" (`epx_c.h` 35-36).
- A reader that leaves on a bad frame does not close the transport (`client.cpp` 321-341).
  Without a send timeout, which is the default, a call that is in its write then
  stays there until `disconnect()`, while a call that waits for an answer is woken.
- A `run()` that fails leaves `running` set (`host.cpp` 921), and the next `run()` returns as
  if the host were up (`epx_host_run` in `CApi`).
- The limit of 8 hosts for `stop_on_signals` (`epx.hpp` 525-529) is one of 8
  registrations: the C API registers a host once for each signal (`c_api.cpp` 358).
- An identity is "Generated once" (`epx.hpp` 51); creators that overlap generate one
  each, and one of them may go on with a key that is not in the file.
- `list()` "Enumerates every currently-live registered service name" and an entry is removed from
  "Host::stop() / dtor" (`registry.hpp` 34, 41). A lookup that has read the entry of a
  crashed host removes the file by its name (`registry.cpp` 133-134), also when the
  restarted host has published its own entry meanwhile (`Lookup`, `HostPublishes`,
  `Prune` in `Rendezvous`; `LookupReads`, `epx_host_run`, `LookupUnpublishes` in `CApi`); it runs and is not found until it publishes again.
- A description of several lines may contain a line `pid=`, and `lookup()` then removes
  the entry of a live host.

## Plan

Done: all modules above and their theorems. Left, in this order:

1. `Rendezvous` with overlapping instances and the nudge that reaches another
   instance's accept loop.
2. `expose` on a running host and the policy it shows in between (`Access`).
3. A transport module: descriptor reuse and the two closers.
