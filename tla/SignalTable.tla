----------------------------- MODULE SignalTable -----------------------------
(***************************************************************************)
(* Host::stop_on_signals (host.cpp:104-135, 1010-1015): a table of fixed   *)
(* size that threads fill and clear slot by slot with compare_exchange,    *)
(* and that a signal handler walks with plain loads, on any thread, while  *)
(* hosts are made, registered and destroyed.                               *)
(***************************************************************************)
EXTENDS Integers, FiniteSets

CONSTANTS Threads, Hosts,
          NoThread, NoHost,
          MaxSlots,        \* kMaxSignalHosts: 8
          MaxSignals,      \* bound: signals given to one stop_on_signals call
          MaxRegs,         \* bound: registrations of one host
          MaxPasses        \* bound: signals delivered

ASSUME SignalAssumption ==
  /\ IsFiniteSet(Threads)
  /\ NoThread \notin Threads /\ NoHost \notin Hosts
  /\ {MaxSlots, MaxSignals, MaxRegs, MaxPasses} \subseteq Nat
  /\ MaxSlots >= 1

VARIABLES hst,              \* a Host object: none, live, leaving (in ~Host()), freed
          stop_requested,   \* per host
          slots,            \* g_signal_hosts
          walk,             \* per thread: its register or unregister loop
          signal,           \* the signal handler: its thread, its slot, what it loaded
          armed,            \* std::signal has been called
          regs,             \* per host: registrations asked for
          full,             \* history: more were held or under way than slots
          asked, owed       \* history: hosts whose call returned, now and when the signal came

table == <<hst, stop_requested, slots, walk, signal, armed, regs, full, asked, owed>>

Slots == 1 .. MaxSlots
Rest == [op |-> "none", h |-> NoHost, slot |-> 1, left |-> 0]
NoSignal == [on |-> NoThread, passes |-> 0, slot |-> 1, loaded |-> NoHost]

TableInit ==
  /\ hst = [h \in Hosts |-> "none"]
  /\ stop_requested = [h \in Hosts |-> FALSE]
  /\ slots = [s \in Slots |-> NoHost]
  /\ walk = [t \in Threads |-> Rest]
  /\ signal = NoSignal /\ armed = FALSE
  /\ regs = [h \in Hosts |-> 0] /\ full = FALSE /\ asked = {} /\ owed = {}

\* A signal handler runs on top of what its thread is doing.
Running(t) == signal.on # t

\* A thread that may call, and a handle that the application may use: no other
\* thread is destroying or registering it.
MayCall(t) == Running(t) /\ walk[t].op = "none"
Usable(h) == hst[h] = "live" /\ \A t \in Threads : walk[t].h # h

---------------------------------------------------------------------------
(* The life of a Host.                                                     *)

Construct(h) ==
  /\ hst[h] = "none"
  /\ hst' = [hst EXCEPT ![h] = "live"]
  /\ UNCHANGED <<stop_requested, slots, walk, signal, armed, regs, full, asked, owed>>

request_stop(h) ==
  /\ Usable(h)
  /\ stop_requested' = [stop_requested EXCEPT ![h] = TRUE]
  /\ UNCHANGED <<hst, slots, walk, signal, armed, regs, full, asked, owed>>

\* ~Host() first takes the host out of the table.
DestructorBegins(t, h) ==
  /\ MayCall(t) /\ Usable(h)
  /\ hst' = [hst EXCEPT ![h] = "leaving"]
  /\ walk' = [walk EXCEPT ![t] = [op |-> "unregister", h |-> h, slot |-> 1, left |-> 0]]
  /\ UNCHANGED <<stop_requested, slots, signal, armed, regs, full, asked, owed>>

unregister_signal_host(t) ==
  /\ walk[t].op = "unregister" /\ Running(t) /\ walk[t].slot <= MaxSlots
  /\ slots' = [slots EXCEPT ![walk[t].slot] = IF @ = walk[t].h THEN NoHost ELSE @]
  /\ walk' = [walk EXCEPT ![t].slot = @ + 1]
  /\ UNCHANGED <<hst, stop_requested, signal, armed, regs, full, asked, owed>>

\* The rest of ~Host().
Destroy(t) ==
  /\ walk[t].op = "unregister" /\ Running(t) /\ walk[t].slot > MaxSlots
  /\ hst' = [hst EXCEPT ![walk[t].h] = "freed"]
  /\ regs' = [regs EXCEPT ![walk[t].h] = 0]
  /\ asked' = asked \ {walk[t].h}
  /\ walk' = [walk EXCEPT ![t] = Rest]
  /\ UNCHANGED <<stop_requested, slots, signal, armed, full, owed>>

---------------------------------------------------------------------------
(* stop_on_signals                                                         *)

\* Registrations that hold a slot or look for one.
Held(sl, w) == Cardinality({s \in Slots : sl[s] # NoHost})
                 + Cardinality({t \in Threads : w[t].op = "register"})

\* n calls for n signals, one after the other: the C API's loop.
StopOnSignals(t, h, n) ==
  /\ MayCall(t) /\ Usable(h)
  /\ n \in 1 .. MaxSignals /\ regs[h] + n <= MaxRegs
  /\ regs' = [regs EXCEPT ![h] = @ + n]
  /\ walk' = [walk EXCEPT ![t] = [op |-> "register", h |-> h, slot |-> 1, left |-> n]]
  /\ full' = (full \/ Held(slots, walk') > MaxSlots)
  /\ UNCHANGED <<hst, stop_requested, slots, signal, armed, asked, owed>>

\* A slot that is taken: on to the next one.
RegisterPasses(t) ==
  /\ walk[t].op = "register" /\ Running(t) /\ walk[t].slot <= MaxSlots
  /\ slots[walk[t].slot] # NoHost
  /\ walk' = [walk EXCEPT ![t].slot = @ + 1]
  /\ UNCHANGED <<hst, stop_requested, slots, signal, armed, regs, full, asked, owed>>

\* The walk is over, with a slot or without one: std::signal installs the
\* handler, and the next signal is registered.
RegisterEnds(t) ==
  /\ walk[t].op = "register" /\ Running(t)
  /\ \/ /\ walk[t].slot <= MaxSlots /\ slots[walk[t].slot] = NoHost
        /\ slots' = [slots EXCEPT ![walk[t].slot] = walk[t].h]
     \/ walk[t].slot > MaxSlots /\ UNCHANGED slots
  /\ armed' = TRUE
  /\ IF walk[t].left = 1
     THEN walk' = [walk EXCEPT ![t] = Rest] /\ asked' = asked \cup {walk[t].h}
     ELSE walk' = [walk EXCEPT ![t].slot = 1, ![t].left = @ - 1] /\ UNCHANGED asked
  /\ full' = (full \/ Held(slots', walk') > MaxSlots)
  /\ UNCHANGED <<hst, stop_requested, signal, regs, owed>>

---------------------------------------------------------------------------
(* epx_signal_trampoline                                                   *)

\* A signal is delivered to one of the threads.
Signal(t) ==
  /\ armed /\ signal.on = NoThread /\ signal.passes < MaxPasses
  /\ signal' = [on |-> t, passes |-> signal.passes + 1, slot |-> 1, loaded |-> NoHost]
  /\ owed' = asked
  /\ UNCHANGED <<hst, stop_requested, slots, walk, armed, regs, full, asked>>

NextSlot ==
  IF signal.slot = MaxSlots THEN [NoSignal EXCEPT !.passes = signal.passes]
                            ELSE [signal EXCEPT !.slot = @ + 1, !.loaded = NoHost]

\* Mutant: the handler takes an empty slot for the end of the table.
LoadToFirstGap ==
  /\ signal.on # NoThread /\ signal.loaded = NoHost
  /\ signal' = IF slots[signal.slot] = NoHost THEN [NoSignal EXCEPT !.passes = signal.passes]
               ELSE [signal EXCEPT !.loaded = slots[signal.slot]]
  /\ UNCHANGED <<hst, stop_requested, slots, walk, armed, regs, full, asked, owed>>

TrampolineLoad ==
  /\ signal.on # NoThread /\ signal.loaded = NoHost
  /\ signal' = IF slots[signal.slot] = NoHost THEN NextSlot
               ELSE [signal EXCEPT !.loaded = slots[signal.slot]]
  /\ UNCHANGED <<hst, stop_requested, slots, walk, armed, regs, full, asked, owed>>

\* h->request_stop().  If another thread has destroyed the host since the
\* load, the store goes to memory that is free or that another host has got
\* (or the program crashes, which ends it here too).
TrampolineRequest ==
  /\ signal.on # NoThread /\ signal.loaded # NoHost
  /\ IF hst[signal.loaded] = "freed"
     THEN \/ UNCHANGED stop_requested
          \/ \E g \in Hosts : /\ hst[g] = "live"
                              /\ stop_requested' = [stop_requested EXCEPT ![g] = TRUE]
     ELSE stop_requested' = [stop_requested EXCEPT ![signal.loaded] = TRUE]
  /\ signal' = NextSlot
  /\ UNCHANGED <<hst, slots, walk, armed, regs, full, asked, owed>>

---------------------------------------------------------------------------
TableNext ==
  \/ \E h \in Hosts : Construct(h) \/ request_stop(h)
  \/ \E t \in Threads, h \in Hosts :
       DestructorBegins(t, h) \/ \E n \in 1 .. MaxSignals : StopOnSignals(t, h, n)
  \/ \E t \in Threads :
       \/ unregister_signal_host(t) \/ Destroy(t)
       \/ RegisterPasses(t) \/ RegisterEnds(t) \/ Signal(t)
  \/ TrampolineLoad \/ TrampolineRequest

TableSpec == TableInit /\ [][TableNext]_table

---------------------------------------------------------------------------
(* Properties.                                                             *)

TableTypeOK ==
  /\ hst \in [Hosts -> {"none", "live", "leaving", "freed"}]
  /\ stop_requested \in [Hosts -> BOOLEAN]
  /\ slots \in [Slots -> Hosts \cup {NoHost}]
  /\ walk \in [Threads -> [op : {"none", "register", "unregister"}, h : Hosts \cup {NoHost},
                           slot : 1 .. MaxSlots + 1, left : Nat]]
  /\ signal \in [on : Threads \cup {NoThread}, passes : Nat, slot : Slots,
                 loaded : Hosts \cup {NoHost}]
  /\ armed \in BOOLEAN /\ regs \in [Hosts -> Nat] /\ full \in BOOLEAN
  /\ asked \in SUBSET Hosts /\ owed \in SUBSET Hosts

\* A host that is gone is not in the table (~Host() clears all of its slots,
\* host.cpp:122-127, 793), so that no later signal finds it.
NoneDangling ==
  \A s \in Slots : slots[s] # NoHost => hst[slots[s]] \in {"live", "leaving"}

\* After a signal (host.cpp:129-134) every live host that had called
\* stop_on_signals before it came has been asked to stop, although others
\* registered and left while the handler walked the table, unless at some
\* time more registrations were held or under way than there are slots; and
\* no slot dangles.
SignalStopsAll ==
  /\ signal.on = NoThread /\ ~full =>
       \A h \in owed : hst[h] = "live" => stop_requested[h]
  /\ NoneDangling
=============================================================================
