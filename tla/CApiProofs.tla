----------------------------- MODULE CApiProofs -----------------------------
(***************************************************************************)
(* Proofs about SignalTable and CApi, for every size of the table and      *)
(* every number of hosts, threads, registrations, signals, keys and calls. *)
(*                                                                         *)
(* The table never holds a host that is gone, and as long as it has never  *)
(* been full a signal reaches every host that had registered before it     *)
(* came.  In a program, the identity file settles on a key that somebody   *)
(* holds, an error stays with its thread, and every step is a step of the  *)
(* table or leaves it alone, so that what is proved of the table holds of  *)
(* the program.                                                            *)
(***************************************************************************)
EXTENDS CApi, FiniteSetTheorems, SequenceTheorems, WellFoundedInduction, TLAPS

---------------------------------------------------------------------------
(* The signal table.                                                       *)

\* The taken slots, and the registrations under way, from slot k on.
TakenFrom(k) == {s \in Slots : s >= k /\ slots[s] # NoHost}
SeekersFrom(k) == {t \in Threads : walk[t].op = "register" /\ walk[t].slot >= k}

\* A thread registers a host that lives.  One that unregisters has a host of
\* its own, which is on its way out, and has cleared all slots up to its own.
WalkInv ==
  /\ \A t \in Threads :
       /\ walk[t].op = "register" =>
            walk[t].h \in Hosts /\ hst[walk[t].h] = "live" /\ walk[t].left >= 1
       /\ walk[t].op = "unregister" =>
            /\ walk[t].h \in Hosts /\ hst[walk[t].h] = "leaving"
            /\ \A s \in Slots : s < walk[t].slot => slots[s] # walk[t].h
  /\ \A t, u \in Threads :
       walk[t].op = "unregister" /\ walk[u].op = "unregister" /\ walk[t].h = walk[u].h => t = u

\* Behind every slot there is room for all who look for one there: nobody
\* comes to the end of the table.
RoomInv ==
  ~full => \A k \in 1 .. MaxSlots + 1 :
             Cardinality(TakenFrom(k)) + Cardinality(SeekersFrom(k)) <= MaxSlots + 1 - k

\* A host whose call has returned is in the table.
AskedInv ==
  \A h \in asked : /\ hst[h] # "none"
                   /\ ~full /\ hst[h] = "live" => \E s \in Slots : slots[s] = h

\* Before the signal handler has asked a host to stop, it has a slot of that
\* host still before it.
Ahead(h, s) ==
  slots[s] = h /\ (s > signal.slot \/ (s = signal.slot /\ signal.loaded \in {NoHost, h}))
OwedInv ==
  \A h \in owed : /\ hst[h] # "none"
                  /\ ~full /\ hst[h] = "live" /\ ~stop_requested[h] =>
                       signal.on # NoThread /\ \E s \in Slots : Ahead(h, s)

TableInv == TableTypeOK /\ WalkInv /\ NoneDangling /\ RoomInv /\ AskedInv /\ OwedInv

-----------------------------------------------------------------------------
(* Counting.                                                               *)

\* Sets of slots and of threads are finite.
LEMMA FiniteParts ==
  ASSUME NEW T, T \subseteq Slots \/ T \subseteq Threads
  PROVE  IsFiniteSet(T) /\ Cardinality(T) \in Nat
<1>1. IsFiniteSet(Slots) /\ IsFiniteSet(Threads)
  BY FS_Interval, SignalAssumption DEF Slots
<1>2. QED
  BY <1>1, FS_Subset, FS_CardinalityType

\* A part has no more elements than the whole.
LEMMA Fewer ==
  ASSUME NEW S, NEW T, T \subseteq S, S \subseteq Slots \/ S \subseteq Threads
  PROVE  Cardinality(T) <= Cardinality(S) /\ Cardinality(S) \in Nat /\ Cardinality(T) \in Nat
  BY FiniteParts, FS_Subset

\* An element more counts for one.
LEMMA OneMore ==
  ASSUME NEW S, NEW x, x \notin S, S \subseteq Slots \/ S \subseteq Threads
  PROVE  Cardinality(S \cup {x}) = Cardinality(S) + 1
  BY FiniteParts, FS_AddElement

\* The parts of RoomInv count slots and threads.
LEMMA Parts ==
  ASSUME NEW k
  PROVE  /\ TakenFrom(k) \subseteq Slots /\ TakenFrom(k)' \subseteq Slots
         /\ SeekersFrom(k) \subseteq Threads /\ SeekersFrom(k)' \subseteq Threads
  BY DEF TakenFrom, SeekersFrom, Slots

\* Held counts the same as RoomInv does from the first slot on.
LEMMA HeldParts ==
  ASSUME TableTypeOK'
  PROVE  Held(slots', walk') = Cardinality(TakenFrom(1)') + Cardinality(SeekersFrom(1)')
<1>1. {s \in Slots : slots'[s] # NoHost} = TakenFrom(1)'
  BY SignalAssumption DEF TakenFrom, Slots
<1>2. {t \in Threads : walk'[t].op = "register"} = SeekersFrom(1)'
  BY SignalAssumption DEF SeekersFrom, TableTypeOK
<1>3. QED
  BY <1>1, <1>2 DEF Held

\* A step after which no more slots are taken, and nobody is further on.
LEMMA RoomFrame ==
  ASSUME TableTypeOK, TableTypeOK', RoomInv, full => full',
         \A s \in Slots : slots'[s] # NoHost => slots[s] # NoHost,
         \A t \in Threads : walk'[t].op = "register" =>
            walk[t].op = "register" /\ walk'[t].slot <= walk[t].slot
  PROVE  RoomInv'
<1>1. SUFFICES ASSUME ~full', NEW k \in 1 .. MaxSlots + 1
               PROVE  Cardinality(TakenFrom(k)') + Cardinality(SeekersFrom(k)') <= MaxSlots + 1 - k
  BY DEF RoomInv
<1>2. Cardinality(TakenFrom(k)) + Cardinality(SeekersFrom(k)) <= MaxSlots + 1 - k
  BY <1>1 DEF RoomInv
<1>3. TakenFrom(k)' \subseteq TakenFrom(k)
  BY DEF TakenFrom, Slots
<1>4. SeekersFrom(k)' \subseteq SeekersFrom(k)
  BY SignalAssumption DEF SeekersFrom, TableTypeOK
<1>5. QED
  BY <1>2, <1>3, <1>4, Fewer, Parts, SignalAssumption
-----------------------------------------------------------------------------
(* What a step leaves alone.                                               *)

\* A step that touches neither the table nor the signal handler, brings no
\* host to life that was asked about, and takes no request back.
LEMMA QuietFrame ==
  ASSUME TableTypeOK, TableTypeOK', NoneDangling, AskedInv, OwedInv, full => full',
         UNCHANGED <<slots, signal, owed>>, asked' \subseteq asked,
         \A h \in Hosts : /\ hst[h] # "none" => hst'[h] # "none"
                          /\ hst'[h] = "live" => hst[h] \in {"none", "live"}
                          /\ stop_requested[h] => stop_requested'[h],
         \A s \in Slots : slots[s] # NoHost => hst'[slots[s]] \in {"live", "leaving"}
  PROVE  NoneDangling' /\ AskedInv' /\ OwedInv'
<1>1. NoneDangling'
  BY DEF NoneDangling
<1>2. AskedInv'
  BY DEF AskedInv, TableTypeOK
<1>3. OwedInv'
  BY DEF OwedInv, Ahead, TableTypeOK
<1>4. QED
  BY <1>1, <1>2, <1>3

-----------------------------------------------------------------------------
(* The life of a Host.                                                     *)

\* A new host changes nothing for the others.
LEMMA ConstructStep ==
  ASSUME TableInv, NEW h \in Hosts, Construct(h)
  PROVE  TableInv'
<1> USE DEF TableInv
<1>1. TableTypeOK'
  BY DEF Construct, TableTypeOK
<1>2. WalkInv'
  BY DEF Construct, WalkInv, TableTypeOK
<1>3. RoomInv'
  BY <1>1, RoomFrame, SignalAssumption DEF Construct, TableTypeOK
<1>4. NoneDangling' /\ AskedInv' /\ OwedInv'
  BY <1>1, QuietFrame, SignalAssumption DEF Construct, NoneDangling, TableTypeOK
<1>5. QED
  BY <1>1, <1>2, <1>3, <1>4

\* A request to stop is never taken back.
LEMMA RequestStopStep ==
  ASSUME TableInv, NEW h \in Hosts, request_stop(h)
  PROVE  TableInv'
<1> USE DEF TableInv
<1>1. TableTypeOK'
  BY DEF request_stop, TableTypeOK
<1>2. WalkInv'
  BY DEF request_stop, WalkInv
<1>3. RoomInv'
  BY <1>1, RoomFrame, SignalAssumption DEF request_stop, TableTypeOK
<1>4. NoneDangling' /\ AskedInv' /\ OwedInv'
  BY <1>1, QuietFrame DEF request_stop, NoneDangling, TableTypeOK
<1>5. QED
  BY <1>1, <1>2, <1>3, <1>4

\* ~Host() begins for a host that no thread is at.
LEMMA DestructorStep ==
  ASSUME TableInv, NEW t \in Threads, NEW h \in Hosts, DestructorBegins(t, h)
  PROVE  TableInv'
<1> USE DEF TableInv
<1>1. TableTypeOK'
  BY SignalAssumption, SMTT(30) DEF DestructorBegins, TableTypeOK, Slots
<1>2. /\ walk'[t] = [op |-> "unregister", h |-> h, slot |-> 1, left |-> 0]
      /\ \A u \in Threads : u # t => walk'[u] = walk[u]
      /\ \A u \in Threads : walk[u].h # h
      /\ hst' = [hst EXCEPT ![h] = "leaving"] /\ hst[h] = "live" /\ slots' = slots
  BY DEF DestructorBegins, Usable, TableTypeOK
<1>3. WalkInv'
  <2>1. walk'[t].op = "unregister" /\ walk'[t].h = h /\ hst'[h] = "leaving"
    BY <1>2 DEF TableTypeOK
  <2>2. \A s \in Slots : ~(s < walk'[t].slot)
    BY <1>2 DEF Slots
  <2>3. \A u \in Threads : u # t /\ walk[u].op # "none" =>
          walk[u].h # h /\ hst'[walk[u].h] = hst[walk[u].h]
    BY <1>2 DEF WalkInv, TableTypeOK
  <2>4. QED
    BY <1>2, <2>1, <2>2, <2>3 DEF WalkInv
<1>4. RoomInv'
  BY <1>1, <1>2, RoomFrame, SignalAssumption DEF DestructorBegins, TableTypeOK
<1>5. NoneDangling' /\ AskedInv' /\ OwedInv'
  BY <1>1, <1>2, QuietFrame DEF DestructorBegins, NoneDangling, TableTypeOK
<1>6. QED
  BY <1>1, <1>3, <1>4, <1>5

\* Only slots of the host that leaves are cleared.
LEMMA UnregisterStep ==
  ASSUME TableInv, NEW t \in Threads, unregister_signal_host(t)
  PROVE  TableInv'
<1> USE DEF TableInv
<1> DEFINE s == walk[t].slot
<1>1. /\ walk[t].op = "unregister" /\ s \in Slots /\ walk[t].h \in Hosts
      /\ hst[walk[t].h] = "leaving"
  BY DEF unregister_signal_host, WalkInv, TableTypeOK, Slots
<1>2. /\ \A u \in Threads : u # t => walk'[u] = walk[u]
      /\ walk'[t] = [walk[t] EXCEPT !.slot = s + 1]
  BY DEF unregister_signal_host, TableTypeOK
<1>3. /\ \A r \in Slots : r # s => slots'[r] = slots[r]
      /\ slots'[s] = IF slots[s] = walk[t].h THEN NoHost ELSE slots[s]
  BY <1>1 DEF unregister_signal_host, TableTypeOK
<1>4. UNCHANGED <<hst, stop_requested, signal, armed, regs, full, asked, owed>>
  BY DEF unregister_signal_host
<1>5. TableTypeOK'
  <2>1. slots' \in [Slots -> Hosts \cup {NoHost}]
    BY <1>1 DEF unregister_signal_host, TableTypeOK
  <2>2. s + 1 \in 1 .. MaxSlots + 1
    BY <1>1, SignalAssumption DEF Slots
  <2>3. walk' \in [Threads -> [op : {"none", "register", "unregister"}, h : Hosts \cup {NoHost},
                               slot : 1 .. MaxSlots + 1, left : Nat]]
    BY <2>2 DEF unregister_signal_host, TableTypeOK
  <2>4. QED
    BY <1>4, <2>1, <2>3 DEF TableTypeOK
<1>6. WalkInv'
  <2>1. /\ walk'[t].op = "unregister" /\ walk'[t].h = walk[t].h /\ walk'[t].slot = s + 1
    BY <1>1, <1>2 DEF TableTypeOK
  <2>2. \A r \in Slots : r < s + 1 => slots'[r] # walk[t].h
    BY <1>1, <1>3, SignalAssumption DEF WalkInv, Slots
  <2>3. \A u \in Threads, r \in Slots : walk[u].op = "unregister" /\ slots'[r] = walk[u].h
           => slots[r] = walk[u].h
    BY <1>3, SignalAssumption DEF WalkInv
  <2>4. \A u \in Threads : walk'[u].op = walk[u].op /\ walk'[u].h = walk[u].h /\ walk'[u].left = walk[u].left
    BY <1>2 DEF TableTypeOK
  <2>5. \A u \in Threads : walk[u].op = "unregister" =>
          \A r \in Slots : r < walk'[u].slot => slots'[r] # walk[u].h
    BY <1>2, <2>1, <2>2, <2>3, ZenonT(30) DEF WalkInv
  <2>6. QED
    BY <1>4, <2>4, <2>5 DEF WalkInv
<1>7. RoomInv'
  BY <1>1, <1>2, <1>3, <1>4, <1>5, RoomFrame DEF TableTypeOK
<1>8. NoneDangling'
  BY <1>3, <1>4 DEF NoneDangling
<1>9. \A h \in Hosts, r \in Slots : hst[h] = "live" /\ slots[r] = h => slots'[r] = h
  BY <1>1, <1>3
<1>10. AskedInv'
  BY <1>4, <1>9 DEF AskedInv, TableTypeOK
<1>11. OwedInv'
  BY <1>4, <1>9 DEF OwedInv, Ahead, TableTypeOK
<1>12. QED
  BY <1>5, <1>6, <1>7, <1>8, <1>10, <1>11

\* A host is destroyed when no slot holds it any more.
LEMMA DestroyStep ==
  ASSUME TableInv, NEW t \in Threads, Destroy(t)
  PROVE  TableInv'
<1> USE DEF TableInv
<1> DEFINE h == walk[t].h
<1>1. /\ walk[t].op = "unregister" /\ h \in Hosts /\ hst[h] = "leaving"
      /\ \A s \in Slots : slots[s] # h
  <2>1. walk[t].op = "unregister" /\ walk[t].slot > MaxSlots /\ walk[t].slot \in 1 .. MaxSlots + 1
    BY DEF Destroy, TableTypeOK
  <2>2. \A s \in Slots : s < walk[t].slot
    BY <2>1, SignalAssumption DEF Slots
  <2>3. QED
    BY <2>1, <2>2 DEF WalkInv
<1>2. /\ \A u \in Threads : u # t => walk'[u] = walk[u]
      /\ walk'[t] = Rest
  BY DEF Destroy, TableTypeOK
<1>3. /\ hst' = [hst EXCEPT ![h] = "freed"] /\ asked' = asked \ {h}
      /\ UNCHANGED <<stop_requested, slots, signal, armed, full, owed>>
  BY DEF Destroy
<1>4. TableTypeOK'
  BY <1>1, SignalAssumption, SMTT(30) DEF Destroy, TableTypeOK, Rest, Slots
<1>5. WalkInv'
  <2>1. walk'[t].op = "none"
    BY <1>2 DEF Rest
  <2>2. \A u \in Threads : u # t /\ walk[u].op # "none" => hst'[walk[u].h] = hst[walk[u].h]
    BY <1>1, <1>3 DEF WalkInv, TableTypeOK
  <2>3. QED
    BY <1>2, <1>3, <2>1, <2>2 DEF WalkInv
<1>6. RoomInv'
  BY <1>2, <1>3, <1>4, RoomFrame DEF TableTypeOK, Rest
<1>7. NoneDangling' /\ AskedInv' /\ OwedInv'
  BY <1>1, <1>3, <1>4, QuietFrame DEF NoneDangling, TableTypeOK
<1>8. QED
  BY <1>4, <1>5, <1>6, <1>7
-----------------------------------------------------------------------------
(* Registration.                                                           *)

\* RoomInv speaks of every slot; from the first one on it is what full says.
LEMMA RoomFromFull ==
  ASSUME TableTypeOK', full' = (full \/ Held(slots', walk') > MaxSlots), ~full'
  PROVE  Cardinality(TakenFrom(1)') + Cardinality(SeekersFrom(1)') <= MaxSlots
<1>1. Cardinality(TakenFrom(1)') \in Nat /\ Cardinality(SeekersFrom(1)') \in Nat
  BY FiniteParts, Parts
<1>2. ~(Held(slots', walk') > MaxSlots)
  OBVIOUS
<1>3. QED
  BY <1>1, <1>2, HeldParts, SignalAssumption

\* A call that begins is counted from the first slot on only.
LEMMA StopOnSignalsStep ==
  ASSUME TableInv, NEW t \in Threads, NEW h \in Hosts, NEW n \in 1 .. MaxSignals,
         StopOnSignals(t, h, n)
  PROVE  TableInv'
<1> USE DEF TableInv
<1>1. /\ walk'[t] = [op |-> "register", h |-> h, slot |-> 1, left |-> n]
      /\ \A u \in Threads : u # t => walk'[u] = walk[u]
      /\ hst[h] = "live" /\ \A u \in Threads : walk[u].h # h
  BY DEF StopOnSignals, Usable, TableTypeOK
<1>2. /\ UNCHANGED <<hst, stop_requested, slots, signal, armed, asked, owed>>
      /\ full' = (full \/ Held(slots', walk') > MaxSlots)
  BY DEF StopOnSignals
<1>3. TableTypeOK'
  <2>1. n \in Nat /\ n >= 1 /\ 1 \in 1 .. MaxSlots + 1
    BY SignalAssumption
  <2>2. regs' \in [Hosts -> Nat]
    BY <2>1 DEF StopOnSignals, TableTypeOK
  <2>3. walk' \in [Threads -> [op : {"none", "register", "unregister"}, h : Hosts \cup {NoHost},
                               slot : 1 .. MaxSlots + 1, left : Nat]]
    BY <2>1 DEF StopOnSignals, TableTypeOK
  <2>4. QED
    BY <1>2, <2>2, <2>3 DEF TableTypeOK
<1>4. WalkInv'
  <2>1. walk'[t].op = "register" /\ walk'[t].h = h /\ walk'[t].left >= 1
    BY <1>1, SignalAssumption
  <2>2. QED
    BY <1>1, <1>2, <2>1 DEF WalkInv
<1>5. RoomInv'
  <2>1. SUFFICES ASSUME ~full', NEW k \in 1 .. MaxSlots + 1
                 PROVE  Cardinality(TakenFrom(k)') + Cardinality(SeekersFrom(k)') <= MaxSlots + 1 - k
    BY DEF RoomInv
  <2>2. CASE k = 1
    BY <1>2, <1>3, <2>1, <2>2, RoomFromFull, SignalAssumption
  <2>3. CASE k # 1
    <3>1. TakenFrom(k)' = TakenFrom(k)
      BY <1>2 DEF TakenFrom, Slots
    <3>2. SeekersFrom(k)' \subseteq SeekersFrom(k)
      BY <1>1, <2>3, SignalAssumption DEF SeekersFrom
    <3>3. Cardinality(TakenFrom(k)) + Cardinality(SeekersFrom(k)) <= MaxSlots + 1 - k
      BY <1>2, <2>1 DEF RoomInv
    <3>4. QED
      BY <3>1, <3>2, <3>3, Fewer, Parts, SignalAssumption
  <2>4. QED
    BY <2>2, <2>3
<1>6. NoneDangling' /\ AskedInv' /\ OwedInv'
  BY <1>2, <1>3, QuietFrame DEF NoneDangling, TableTypeOK
<1>7. QED
  BY <1>3, <1>4, <1>5, <1>6

\* Who finds a slot taken leaves it behind: one seeker more from the next slot
\* on, one taken slot less.
LEMMA PassesStep ==
  ASSUME TableInv, NEW t \in Threads, RegisterPasses(t)
  PROVE  TableInv'
<1> USE DEF TableInv
<1> DEFINE s == walk[t].slot
<1>1. walk[t].op = "register" /\ s \in Slots /\ slots[s] # NoHost
  BY DEF RegisterPasses, TableTypeOK, Slots
<1>2. /\ \A u \in Threads : u # t => walk'[u] = walk[u]
      /\ walk'[t] = [walk[t] EXCEPT !.slot = s + 1]
  BY DEF RegisterPasses, TableTypeOK
<1>3. UNCHANGED <<hst, stop_requested, slots, signal, armed, regs, full, asked, owed>>
  BY DEF RegisterPasses
<1>4. s + 1 \in 1 .. MaxSlots + 1 /\ s \in 1 .. MaxSlots + 1
  BY <1>1, SignalAssumption DEF Slots
<1>5. TableTypeOK'
  <2>1. walk' \in [Threads -> [op : {"none", "register", "unregister"}, h : Hosts \cup {NoHost},
                               slot : 1 .. MaxSlots + 1, left : Nat]]
    BY <1>4 DEF RegisterPasses, TableTypeOK
  <2>2. QED
    BY <1>3, <2>1 DEF TableTypeOK
<1>6. \A u \in Threads : walk'[u].op = walk[u].op /\ walk'[u].h = walk[u].h /\ walk'[u].left = walk[u].left
  BY <1>2 DEF TableTypeOK
<1>7. walk'[t].slot = s + 1
  BY <1>2 DEF TableTypeOK
<1>8. WalkInv'
  <2>1. \A u \in Threads : walk[u].op = "unregister" => walk'[u] = walk[u]
    BY <1>1, <1>2
  <2>2. QED
    BY <1>3, <1>6, <2>1 DEF WalkInv
<1>9. RoomInv'
  <2>1. SUFFICES ASSUME ~full', NEW k \in 1 .. MaxSlots + 1
                 PROVE  Cardinality(TakenFrom(k)') + Cardinality(SeekersFrom(k)') <= MaxSlots + 1 - k
    BY DEF RoomInv
  <2>2. \A j \in 1 .. MaxSlots + 1 :
          Cardinality(TakenFrom(j)) + Cardinality(SeekersFrom(j)) <= MaxSlots + 1 - j
    BY <1>3, <2>1 DEF RoomInv
  <2>3. TakenFrom(k)' = TakenFrom(k)
    BY <1>3 DEF TakenFrom, Slots
  <2>4. CASE k # s + 1
    <3>1. s + 1 >= k => s >= k
      BY <1>4, <2>4, SignalAssumption
    <3>2. \A u \in Threads : walk'[u].slot >= k => walk[u].slot >= k
      BY <1>2, <1>7, <3>1
    <3>3. SeekersFrom(k)' \subseteq SeekersFrom(k)
      BY <1>6, <3>2 DEF SeekersFrom
    <3>4. QED
      BY <2>2, <2>3, <3>3, Fewer, Parts, SignalAssumption
  <2>5. CASE k = s + 1
    <3>1. /\ s \notin TakenFrom(k) /\ TakenFrom(k) \cup {s} \subseteq TakenFrom(s)
      BY <1>1, <2>5, SignalAssumption DEF TakenFrom, Slots
    <3>2. SeekersFrom(k)' \subseteq SeekersFrom(s)
      BY <1>1, <1>2, <1>4, <2>5, SignalAssumption DEF SeekersFrom, TableTypeOK
    <3>3. Cardinality(TakenFrom(k)) + 1 <= Cardinality(TakenFrom(s))
      <4>1. Cardinality(TakenFrom(k) \cup {s}) = Cardinality(TakenFrom(k)) + 1
        BY <3>1, OneMore, Parts
      <4>2. Cardinality(TakenFrom(k) \cup {s}) <= Cardinality(TakenFrom(s))
        BY <3>1, Fewer, Parts
      <4>3. QED
        BY <4>1, <4>2
    <3>4. Cardinality(TakenFrom(s)) + Cardinality(SeekersFrom(s)) <= MaxSlots + 1 - s
      BY <1>4, <2>2
    <3>5. Cardinality(SeekersFrom(k)') <= Cardinality(SeekersFrom(s))
      BY <3>2, Fewer, Parts
    <3>6. /\ Cardinality(TakenFrom(k)) \in Nat /\ Cardinality(TakenFrom(s)) \in Nat
          /\ Cardinality(SeekersFrom(k)') \in Nat /\ Cardinality(SeekersFrom(s)) \in Nat
      BY FiniteParts, Parts
    <3>7. QED
      BY <1>4, <2>3, <2>5, <3>3, <3>4, <3>5, <3>6, SignalAssumption
  <2>6. QED
    BY <2>4, <2>5
<1>10. NoneDangling' /\ AskedInv' /\ OwedInv'
  BY <1>3, <1>5, QuietFrame DEF NoneDangling, TableTypeOK
<1>11. QED
  BY <1>5, <1>8, <1>9, <1>10
\* As long as the table was never full, who looks for a slot is in the table.
LEMMA SeekerInTable ==
  ASSUME TableTypeOK, RoomInv, ~full, NEW t \in Threads, walk[t].op = "register"
  PROVE  walk[t].slot \in Slots
<1> DEFINE e == MaxSlots + 1
<1>1. e \in 1 .. e /\ MaxSlots + 1 - e = 0
  BY SignalAssumption
<1>2. Cardinality(TakenFrom(e)) + Cardinality(SeekersFrom(e)) <= 0
  BY <1>1 DEF RoomInv
<1>3. Cardinality(TakenFrom(e)) \in Nat /\ Cardinality(SeekersFrom(e)) \in Nat
  BY FiniteParts, Parts
<1>4. ASSUME walk[t].slot >= e PROVE FALSE
  <2>1. {t} \subseteq SeekersFrom(e)
    BY <1>4 DEF SeekersFrom
  <2>2. Cardinality({t}) <= Cardinality(SeekersFrom(e))
    BY <2>1, Fewer, Parts
  <2>3. Cardinality({t}) = 1
    BY FS_Singleton
  <2>4. QED
    BY <1>2, <1>3, <2>2, <2>3
<1>5. walk[t].slot \in 1 .. e
  BY DEF TableTypeOK
<1>6. QED
  BY <1>4, <1>5, SignalAssumption DEF Slots

\* A registration that ends has turned a seeker into a taken slot.
LEMMA EndsStep ==
  ASSUME TableInv, NEW t \in Threads, RegisterEnds(t)
  PROVE  TableInv'
<1> USE DEF TableInv
<1> DEFINE s == walk[t].slot
           h == walk[t].h
<1>1. walk[t].op = "register" /\ h \in Hosts /\ hst[h] = "live" /\ walk[t].left \in Nat /\ walk[t].left >= 1
  BY DEF RegisterEnds, WalkInv, TableTypeOK
<1>2. /\ full' = (full \/ Held(slots', walk') > MaxSlots)
      /\ UNCHANGED <<hst, stop_requested, signal, regs, owed>> /\ armed' = TRUE
  BY DEF RegisterEnds
<1>3. \/ s \in Slots /\ slots[s] = NoHost /\ slots' = [slots EXCEPT ![s] = h]
      \/ s \notin Slots /\ slots' = slots
  BY SignalAssumption DEF RegisterEnds, TableTypeOK, Slots
<1>4. \/ walk' = [walk EXCEPT ![t] = Rest] /\ asked' = asked \cup {h}
      \/ walk[t].left # 1 /\ walk' = [walk EXCEPT ![t].slot = 1, ![t].left = @ - 1] /\ asked' = asked
  BY DEF RegisterEnds
<1>5. \A r \in Slots : slots'[r] \in {slots[r], h} /\ (slots[r] # NoHost => slots'[r] = slots[r])
  BY <1>3 DEF TableTypeOK
<1>6. \A u \in Threads : u # t => walk'[u] = walk[u]
  BY <1>4 DEF TableTypeOK
<1>7. /\ walk'[t].op \in {"none", "register"} /\ walk'[t].slot = 1
      /\ walk'[t].op = "register" => walk'[t].h = h /\ walk'[t].left >= 1
  BY <1>1, <1>4 DEF TableTypeOK, Rest
<1>8. TableTypeOK'
  <2>1. slots' \in [Slots -> Hosts \cup {NoHost}]
    BY <1>1, <1>3 DEF TableTypeOK
  <2>2. walk[t].left # 1 => walk[t].left - 1 \in Nat
    BY <1>1
  <2>3. 1 \in 1 .. MaxSlots + 1
    BY SignalAssumption
  <2>4. walk' \in [Threads -> [op : {"none", "register", "unregister"}, h : Hosts \cup {NoHost},
                               slot : 1 .. MaxSlots + 1, left : Nat]]
    BY <1>4, <2>2, <2>3 DEF TableTypeOK, Rest
  <2>5. asked' \in SUBSET Hosts
    BY <1>1, <1>4 DEF TableTypeOK
  <2>6. full' \in BOOLEAN
    BY <1>2
  <2>7. QED
    BY <1>2, <2>1, <2>4, <2>5, <2>6 DEF TableTypeOK
<1>9. WalkInv'
  <2>1. \A u \in Threads, r \in Slots : walk[u].op = "unregister" /\ slots[r] # walk[u].h
           => slots'[r] # walk[u].h
    BY <1>1, <1>5 DEF WalkInv
  <2>2. \A u \in Threads : walk'[u].op = "unregister" => u # t
    BY <1>7
  <2>3. QED
    BY <1>1, <1>2, <1>6, <1>7, <2>1, <2>2 DEF WalkInv
<1>10. NoneDangling'
  BY <1>1, <1>2, <1>5 DEF NoneDangling
<1>11. ~full' => ~full
  BY <1>2
<1>12. ~full' => s \in Slots /\ slots[s] = NoHost /\ slots' = [slots EXCEPT ![s] = h]
  BY <1>1, <1>3, <1>11, SeekerInTable
<1>13. RoomInv'
  <2>1. SUFFICES ASSUME ~full', NEW k \in 1 .. MaxSlots + 1
                 PROVE  Cardinality(TakenFrom(k)') + Cardinality(SeekersFrom(k)') <= MaxSlots + 1 - k
    BY DEF RoomInv
  <2>2. CASE k = 1
    BY <1>2, <1>8, <2>1, <2>2, RoomFromFull, SignalAssumption
  <2>3. CASE k # 1
    <3>1. Cardinality(TakenFrom(k)) + Cardinality(SeekersFrom(k)) <= MaxSlots + 1 - k
      BY <1>11, <2>1 DEF RoomInv
    <3>2. /\ Cardinality(TakenFrom(k)) \in Nat /\ Cardinality(TakenFrom(k)') \in Nat
          /\ Cardinality(SeekersFrom(k)) \in Nat /\ Cardinality(SeekersFrom(k)') \in Nat
      BY FiniteParts, Parts
    <3>3. t \notin SeekersFrom(k)'
      BY <1>7, <2>3 DEF SeekersFrom
    <3>4. SeekersFrom(k)' \subseteq SeekersFrom(k)
      BY <1>6, <3>3 DEF SeekersFrom
    <3>5. s \in 1 .. MaxSlots
      BY <1>12, <2>1 DEF Slots
    <3>6. CASE s < k
      <4>1. \A r \in Slots : r >= k => slots'[r] = slots[r]
        BY <1>12, <2>1, <3>5, <3>6, SignalAssumption DEF TableTypeOK, Slots
      <4>2. TakenFrom(k)' \subseteq TakenFrom(k)
        BY <4>1 DEF TakenFrom
      <4>3. QED
        BY <3>1, <3>4, <4>2, Fewer, Parts, SignalAssumption
    <3>7. CASE s >= k
      <4>1. TakenFrom(k)' \subseteq TakenFrom(k) \cup {s} /\ TakenFrom(k) \cup {s} \subseteq Slots
        BY <1>12, <2>1 DEF TakenFrom, TableTypeOK
      <4>2. s \notin TakenFrom(k)
        BY <1>12, <2>1 DEF TakenFrom
      <4>3. Cardinality(TakenFrom(k)') <= Cardinality(TakenFrom(k)) + 1
        <5>1. Cardinality(TakenFrom(k) \cup {s}) = Cardinality(TakenFrom(k)) + 1
          BY <4>2, OneMore, Parts
        <5>2. QED
          BY <4>1, <5>1, Fewer
      <4>4. SeekersFrom(k)' \cup {t} \subseteq SeekersFrom(k)
        BY <1>1, <3>4, <3>7 DEF SeekersFrom
      <4>5. Cardinality(SeekersFrom(k)') + 1 <= Cardinality(SeekersFrom(k))
        <5>1. Cardinality(SeekersFrom(k)' \cup {t}) = Cardinality(SeekersFrom(k)') + 1
          BY <3>3, OneMore, Parts
        <5>2. Cardinality(SeekersFrom(k)' \cup {t}) <= Cardinality(SeekersFrom(k))
          BY <4>4, Fewer, Parts
        <5>3. QED
          BY <5>1, <5>2
      <4>6. QED
        BY <3>1, <3>2, <4>3, <4>5, SignalAssumption
    <3>8. QED
      BY <3>5, <3>6, <3>7, SignalAssumption
  <2>4. QED
    BY <2>2, <2>3
<1>14. AskedInv'
  <2>1. ~full' => slots'[s] = h /\ s \in Slots
    BY <1>12 DEF TableTypeOK
  <2>2. \A g \in asked' : g = h \/ g \in asked
    BY <1>4
  <2>3. \A g \in asked, r \in Slots : slots[r] = g => slots'[r] = g
    BY <1>5, SignalAssumption DEF TableTypeOK
  <2>4. QED
    BY <1>1, <1>2, <1>11, <2>1, <2>2, <2>3 DEF AskedInv
<1>15. OwedInv'
  <2>1. \A g \in owed, r \in Slots : slots[r] = g => slots'[r] = g
    BY <1>5, SignalAssumption DEF TableTypeOK
  <2>2. QED
    BY <1>2, <1>11, <2>1 DEF OwedInv, Ahead
<1>16. QED
  BY <1>8, <1>9, <1>10, <1>13, <1>14, <1>15
-----------------------------------------------------------------------------
(* The signal handler.                                                     *)

\* A step of the handler leaves hosts, slots and threads alone.
LEMMA HandlerFrame ==
  ASSUME TableInv, TableTypeOK', UNCHANGED <<hst, slots, walk, regs, full, asked>>
  PROVE  WalkInv' /\ NoneDangling' /\ RoomInv' /\ AskedInv'
<1> USE DEF TableInv
<1>1. WalkInv' /\ NoneDangling' /\ AskedInv'
  BY DEF WalkInv, NoneDangling, AskedInv
<1>2. RoomInv'
  BY RoomFrame, SignalAssumption DEF TableTypeOK
<1>3. QED
  BY <1>1, <1>2

\* When a signal comes, every host that registered has a slot before it.
LEMMA SignalStep ==
  ASSUME TableInv, NEW t \in Threads, Signal(t)
  PROVE  TableInv'
<1> USE DEF TableInv
<1>1. /\ signal' = [on |-> t, passes |-> signal.passes + 1, slot |-> 1, loaded |-> NoHost]
      /\ owed' = asked /\ UNCHANGED <<hst, stop_requested, slots, walk, armed, regs, full, asked>>
  BY DEF Signal
<1>2. signal'.on = t /\ signal'.slot = 1 /\ signal'.loaded = NoHost /\ t # NoThread
  BY <1>1, SignalAssumption
<1>3. TableTypeOK'
  <2>1. signal.passes + 1 \in Nat /\ 1 \in Slots
    BY SignalAssumption DEF TableTypeOK, Slots
  <2>2. QED
    BY <1>1, <2>1 DEF TableTypeOK
<1>4. OwedInv'
  <2>1. \A s \in Slots : s > 1 \/ s = 1
    BY SignalAssumption DEF Slots
  <2>2. QED
    BY <1>1, <1>2, <2>1 DEF OwedInv, AskedInv, Ahead
<1>5. QED
  BY <1>1, <1>3, <1>4, HandlerFrame

\* The handler moves on: what was ahead of it and not at its slot still is.
LEMMA NextSlotFacts ==
  ASSUME TableTypeOK
  PROVE  /\ NextSlot \in [on : Threads \cup {NoThread}, passes : Nat, slot : Slots,
                           loaded : Hosts \cup {NoHost}]
         /\ NextSlot.loaded = NoHost
         /\ \A s \in Slots : s > signal.slot =>
              NextSlot.on = signal.on /\ (s > NextSlot.slot \/ s = NextSlot.slot)
<1>1. signal.slot \in 1 .. MaxSlots /\ 1 \in Slots
  BY SignalAssumption DEF TableTypeOK, Slots
<1>2. CASE signal.slot = MaxSlots
  <2>1. NextSlot = [on |-> NoThread, passes |-> signal.passes, slot |-> 1, loaded |-> NoHost]
    BY <1>2 DEF NextSlot, NoSignal
  <2>2. \A s \in Slots : ~(s > signal.slot)
    BY <1>2, SignalAssumption DEF Slots
  <2>3. QED
    BY <1>1, <2>1, <2>2 DEF TableTypeOK
<1>3. CASE signal.slot # MaxSlots
  <2>1. NextSlot = [signal EXCEPT !.slot = signal.slot + 1, !.loaded = NoHost]
    BY <1>3 DEF NextSlot
  <2>2. signal.slot + 1 \in Slots
    BY <1>1, <1>3, SignalAssumption DEF Slots
  <2>3. NextSlot.on = signal.on /\ NextSlot.slot = signal.slot + 1 /\ NextSlot.loaded = NoHost
    BY <2>1 DEF TableTypeOK
  <2>4. \A s \in Slots : s > signal.slot => s > signal.slot + 1 \/ s = signal.slot + 1
    BY <1>1, SignalAssumption DEF Slots
  <2>5. QED
    BY <2>1, <2>2, <2>3, <2>4 DEF TableTypeOK
<1>4. QED
  BY <1>2, <1>3

\* A load at an empty slot passes over no host, and one that finds a host
\* keeps it.
LEMMA LoadStep ==
  ASSUME TableInv, TrampolineLoad
  PROVE  TableInv'
<1> USE DEF TableInv
<1>1. /\ signal.on # NoThread /\ signal.loaded = NoHost
      /\ UNCHANGED <<hst, stop_requested, slots, walk, armed, regs, full, asked, owed>>
  BY DEF TrampolineLoad
<1>2. signal.slot \in Slots
  BY DEF TableTypeOK
<1>3. CASE slots[signal.slot] = NoHost
  <2>1. signal' = NextSlot
    BY <1>3 DEF TrampolineLoad
  <2>2. TableTypeOK'
    BY <1>1, <2>1, NextSlotFacts DEF TableTypeOK
  <2>3. \A h \in Hosts, s \in Slots : Ahead(h, s) => s > signal.slot
    BY <1>3, SignalAssumption DEF Ahead
  <2>4. \A h \in Hosts, s \in Slots : Ahead(h, s) => signal'.on # NoThread /\ Ahead(h, s)'
    BY <1>1, <2>1, <2>3, NextSlotFacts DEF Ahead
  <2>5. OwedInv'
    BY <1>1, <2>4 DEF OwedInv, TableTypeOK
  <2>6. QED
    BY <1>1, <2>2, <2>5, HandlerFrame
<1>4. CASE slots[signal.slot] # NoHost
  <2>1. signal' = [signal EXCEPT !.loaded = slots[signal.slot]]
    BY <1>4 DEF TrampolineLoad
  <2>2. TableTypeOK'
    BY <1>1, <1>2, <2>1 DEF TableTypeOK
  <2>3. signal'.on = signal.on /\ signal'.slot = signal.slot /\ signal'.loaded = slots[signal.slot]
    BY <2>1 DEF TableTypeOK
  <2>4. \A h \in Hosts, s \in Slots : Ahead(h, s) => Ahead(h, s)'
    BY <1>1, <2>3 DEF Ahead
  <2>5. OwedInv'
    BY <1>1, <2>3, <2>4 DEF OwedInv, TableTypeOK
  <2>6. QED
    BY <1>1, <2>2, <2>5, HandlerFrame
<1>5. QED
  BY <1>3, <1>4

\* A request reaches the host that was loaded, if that host still lives.
LEMMA RequestStep ==
  ASSUME TableInv, TrampolineRequest
  PROVE  TableInv'
<1> USE DEF TableInv
<1>1. /\ signal.on # NoThread /\ signal.loaded \in Hosts /\ signal' = NextSlot
      /\ UNCHANGED <<hst, slots, walk, armed, regs, full, asked, owed>>
  BY DEF TrampolineRequest, TableTypeOK
<1>2. stop_requested' \in [Hosts -> BOOLEAN] /\ \A h \in Hosts : stop_requested[h] => stop_requested'[h]
  BY DEF TrampolineRequest, TableTypeOK
<1>3. hst[signal.loaded] = "live" => stop_requested'[signal.loaded]
  BY <1>1 DEF TrampolineRequest, TableTypeOK
<1>4. TableTypeOK'
  BY <1>1, <1>2, NextSlotFacts DEF TableTypeOK
<1>5. \A h \in Hosts, s \in Slots : Ahead(h, s) =>
         h = signal.loaded \/ (signal'.on # NoThread /\ Ahead(h, s)')
  <2>1. SUFFICES ASSUME NEW h \in Hosts, NEW s \in Slots, Ahead(h, s), h # signal.loaded
                 PROVE  signal'.on # NoThread /\ Ahead(h, s)'
    OBVIOUS
  <2>2. s > signal.slot /\ slots[s] = h
    BY <1>1, <2>1, SignalAssumption DEF Ahead
  <2>3. QED
    BY <1>1, <2>2, NextSlotFacts DEF Ahead
<1>6. OwedInv'
  BY <1>1, <1>2, <1>3, <1>5 DEF OwedInv, TableTypeOK
<1>7. QED
  BY <1>1, <1>4, <1>6, HandlerFrame

-----------------------------------------------------------------------------
(* The theorems.                                                           *)

\* The empty table satisfies the invariant.
LEMMA InitInv == TableInit => TableInv
<1> SUFFICES ASSUME TableInit PROVE TableInv
  OBVIOUS
<1>1. 1 \in 1 .. MaxSlots + 1 /\ 1 \in Slots
  BY SignalAssumption DEF Slots
<1>2. TableTypeOK
  BY <1>1 DEF TableInit, TableTypeOK, Rest, NoSignal
<1>3. WalkInv /\ NoneDangling /\ AskedInv /\ OwedInv
  BY DEF TableInit, WalkInv, NoneDangling, AskedInv, OwedInv, Rest
<1>4. RoomInv
  <2>1. \A k \in 1 .. MaxSlots + 1 : TakenFrom(k) = {} /\ SeekersFrom(k) = {}
    BY DEF TableInit, TakenFrom, SeekersFrom, Rest
  <2>2. Cardinality({}) = 0
    BY FS_EmptySet
  <2>3. QED
    BY <2>1, <2>2, SignalAssumption DEF RoomInv
<1>5. QED
  BY <1>2, <1>3, <1>4 DEF TableInv

\* Every step of the table, and every step of a program that leaves it alone,
\* keeps the invariant.
LEMMA StepInv == TableInv /\ [TableNext]_table => TableInv'
<1>1. CASE UNCHANGED table
  BY <1>1 DEF table, TableInv, TableTypeOK, WalkInv, NoneDangling, RoomInv, TakenFrom,
             SeekersFrom, AskedInv, OwedInv, Ahead
<1>2. ASSUME TableInv, TableNext PROVE TableInv'
  BY <1>2, ConstructStep, RequestStopStep, DestructorStep, UnregisterStep, DestroyStep,
     StopOnSignalsStep, PassesStep, EndsStep, SignalStep, LoadStep, RequestStep DEF TableNext
<1>3. QED
  BY <1>1, <1>2

\* What the handler has passed has been asked to stop.
LEMMA InvImplies == TableInv => SignalStopsAll
<1> SUFFICES ASSUME TableInv PROVE SignalStopsAll
  OBVIOUS
<1>1. NoneDangling
  BY DEF TableInv
<1>2. signal.on = NoThread /\ ~full => \A h \in owed : hst[h] = "live" => stop_requested[h]
  BY DEF TableInv, OwedInv
<1>3. QED
  BY <1>1, <1>2 DEF SignalStopsAll

\* The table, its walkers and the handler stay well typed: no walk leaves the
\* table by more than one slot, and the handler never loads from outside it.
THEOREM TableTypes == TableSpec => []TableTypeOK
<1>1. TableInv => TableTypeOK
  BY DEF TableInv
<1>2. QED
  BY <1>1, InitInv, StepInv, PTL DEF TableSpec

\* A signal (host.cpp:129-134) reaches every live host that had registered
\* before it, however registrations and destructions interleave with the
\* handler's walk, as long as the table was never over-booked; and no slot
\* ever holds a host that is gone.
THEOREM SignalsReachAll == TableSpec => []SignalStopsAll
  BY InitInv, StepInv, InvImplies, PTL DEF TableSpec

---------------------------------------------------------------------------
(* The program.                                                            *)

\* The messages, which are the names of calls.
Messages == {"no error", "any", "identity", "create", "expose", "run", "describe", "list", "credential"}

KeySet == {Key(n) : n \in Nat}
States == {Idle} \cup [op : {"open", "rename"}, key : KeySet]
                 \cup [op : {"write"}, key : KeySet, file : Nat]

ProgramTypes ==
  /\ at \in [Threads -> States]
  /\ last \in [Threads -> [call : Messages, status : Statuses]]
  /\ last_error \in [Threads -> Messages]
  /\ ids \in [Threads -> KeySet \cup {NoKey}]
  /\ inode \in Seq(KeySet \cup {Empty})
  /\ keyFile \in 0 .. Len(inode) /\ tmpFile \in 0 .. Len(inode)
  /\ keys \in [generated : Nat, overlapped : BOOLEAN, failed : BOOLEAN]

\* A thread that failed last finds its own message.
ErrorInv == \A t \in Threads : last[t].status # "EPX_OK" => last_error[t] = last[t].call

\* An inode that nobody has written has a creator about to write it; a
\* written one holds the key of a creator about to rename, or an identity.
Owned(f) ==
  IF inode[f] = Empty THEN \E t \in Threads : at[t].op = "write" /\ at[t].file = f
  ELSE \E t \in Threads : \/ at[t].op = "rename" /\ at[t].key = inode[f]
                          \/ ids[t] = inode[f]

\* The key file was there from the start.
Untouched ==
  /\ keyFile = 1 /\ tmpFile = 0 /\ inode = << Key(0) >>
  /\ \A t \in Threads : ~Creating(t) /\ ids[t] \in {NoKey, Key(0)}

FileInv ==
  /\ keyFile # 0 => keyFile # tmpFile
  /\ \A t \in Threads :
       /\ at[t].op = "write" => at[t].file \in 1 .. Len(inode)
       /\ Creating(t) => ids[t] = NoKey
       /\ at[t].op \in {"write", "rename"} => tmpFile # 0 \/ keyFile # 0
       /\ ids[t] # NoKey => keyFile # 0
  /\ ~keys.failed =>
       /\ Untouched \/ \A f \in {keyFile, tmpFile} \ {0} : Owned(f)
       /\ keys.generated >= 1 => keyFile # 0 \/ \E t \in Threads : Creating(t)
       /\ keys.generated > 1 => keys.overlapped

ProgramInv == ProgramTypes /\ ErrorInv /\ FileInv

-----------------------------------------------------------------------------
(* Threads and their errors.                                               *)

\* A key is neither the mark of a missing one nor that of an empty file.
LEMMA KeysAreKeys == NoKey # Empty /\ \A k \in KeySet : k # NoKey /\ k # Empty
<1>1. \A n \in Nat : Len(Key(n)) = 2
  BY DEF Key
<1>2. Len(NoKey) = 1 /\ Len(Empty) = 1
  BY DEF NoKey, Empty
<1>3. NoKey # Empty
  BY DEF NoKey, Empty
<1>4. QED
  BY <1>1, <1>2, <1>3 DEF KeySet

\* guarded() sets the status and, if it is a failure, the message of its own
\* thread only.
LEMMA GuardedStep ==
  ASSUME ProgramTypes, ErrorInv, NEW t \in Threads, NEW call \in Messages,
         NEW status \in Statuses, guarded(t, call, status)
  PROVE  /\ last' \in [Threads -> [call : Messages, status : Statuses]]
         /\ last_error' \in [Threads -> Messages]
         /\ ErrorInv'
<1>1. last' \in [Threads -> [call : Messages, status : Statuses]]
  <2>1. [call |-> IF status = "EPX_OK" THEN "any" ELSE call, status |-> status]
          \in [call : Messages, status : Statuses]
    BY DEF Messages
  <2>2. QED
    BY <2>1 DEF ProgramTypes, guarded
<1>2. last_error' \in [Threads -> Messages]
  BY DEF ProgramTypes, guarded
<1>3. ASSUME NEW u \in Threads, last'[u].status # "EPX_OK"
      PROVE  last_error'[u] = last'[u].call
  <2>1. CASE u = t
    BY <1>3, <2>1 DEF ProgramTypes, guarded
  <2>2. CASE u # t
    BY <1>3, <2>2 DEF ProgramTypes, guarded, ErrorInv
  <2>3. QED
    BY <2>1, <2>2
<1>4. QED
  BY <1>1, <1>2, <1>3 DEF ErrorInv

\* A call that has no status leaves both alone.
LEMMA UnguardedStep ==
  ASSUME ProgramTypes, ErrorInv, unguarded
  PROVE  /\ last' \in [Threads -> [call : Messages, status : Statuses]]
         /\ last_error' \in [Threads -> Messages]
         /\ ErrorInv'
  BY DEF ProgramTypes, ErrorInv, unguarded

-----------------------------------------------------------------------------
(* The key file.                                                           *)

\* What a creator may be at.
LEMMA AtCases ==
  ASSUME ProgramTypes, NEW t \in Threads
  PROVE  \/ at[t] = Idle /\ ~Creating(t)
         \/ at[t].op \in {"open", "rename"} /\ at[t].key \in KeySet
         \/ at[t].op = "write" /\ at[t].key \in KeySet /\ at[t].file \in Nat
<1>1. at[t] \in States
  BY DEF ProgramTypes
<1>2. QED
  BY <1>1 DEF States, Idle, Creating

\* A call that creates no identity.
LEMMA OtherCalls ==
  ASSUME ProgramInv, UNCHANGED <<at, ids, keyVars>>,
         \/ unguarded
         \/ \E t \in Threads, call \in Messages, status \in Statuses : guarded(t, call, status)
  PROVE  ProgramInv'
<1>1. UNCHANGED <<at, ids, keyFile, tmpFile, inode, keys>>
  BY DEF keyVars
<1>2. FileInv'
  BY <1>1 DEF ProgramInv, FileInv, Owned, Untouched, Creating
<1>3. QED
  BY <1>1, <1>2, GuardedStep, UnguardedStep DEF ProgramInv, ProgramTypes

\* The key is loaded, or a creation begins.
LEMMA LoadOrCreate ==
  ASSUME ProgramInv, NEW t \in Threads, epx_identity_load_or_create(t)
  PROVE  ProgramInv'
<1>1. /\ ProgramTypes /\ ErrorInv /\ FileInv
      /\ at[t] = Idle /\ ids[t] = NoKey /\ UNCHANGED <<keyFile, tmpFile, inode>>
  BY DEF ProgramInv, epx_identity_load_or_create, Calls
<1>2. CASE keyFile # 0 /\ inode[keyFile] # Empty
  <2>1. ids' = [ids EXCEPT ![t] = inode[keyFile]] /\ UNCHANGED <<at, keys>>
    BY <1>2 DEF epx_identity_load_or_create
  <2>2. inode[keyFile] \in KeySet
    BY <1>1, <1>2 DEF ProgramTypes
  <2>3. ProgramTypes' /\ ErrorInv'
    <3>1. guarded(t, "identity", "EPX_OK")
      BY <1>2 DEF epx_identity_load_or_create
    <3>2. "EPX_OK" \in Statuses /\ "identity" \in Messages
      BY DEF Statuses, Messages
    <3>3. /\ last' \in [Threads -> [call : Messages, status : Statuses]]
          /\ last_error' \in [Threads -> Messages] /\ ErrorInv'
      BY <1>1, <3>1, <3>2, GuardedStep
    <3>4. QED
      BY <1>1, <2>1, <2>2, <3>3 DEF ProgramTypes
  <2>4. \A f \in {keyFile, tmpFile} \ {0} : Owned(f) => Owned(f)'
    <3>1. \A f \in {keyFile, tmpFile} \ {0} : inode[f] # NoKey
      BY <1>1, KeysAreKeys DEF ProgramTypes
    <3>2. \A u \in Threads : ids[u] # NoKey => ids'[u] = ids[u]
      BY <1>1, <2>1 DEF ProgramTypes
    <3>3. QED
      BY <1>1, <2>1, <3>1, <3>2 DEF Owned
  <2>5. ~Creating(t)
    BY <1>1 DEF Creating, Idle
  <2>6. Untouched => Untouched'
    BY <1>1, <2>1 DEF Untouched, ProgramTypes, Creating
  <2>7. FileInv'
    BY <1>1, <1>2, <2>1, <2>4, <2>5, <2>6 DEF FileInv, ProgramTypes, Creating
  <2>8. QED
    BY <2>3, <2>7 DEF ProgramInv
<1>3. CASE ~(keyFile # 0 /\ inode[keyFile] # Empty)
  <2>1. /\ keys' = [keys EXCEPT !.generated = @ + 1,
                                !.overlapped = @ \/ \E u \in Threads : Creating(u)]
        /\ at' = [at EXCEPT ![t] = [op |-> "open", key |-> Key(keys.generated + 1)]]
        /\ unguarded /\ UNCHANGED ids
    BY <1>3 DEF epx_identity_load_or_create
  <2>2. Key(keys.generated + 1) \in KeySet
    BY <1>1 DEF ProgramTypes, KeySet
  <2>3. keys' \in [generated : Nat, overlapped : BOOLEAN, failed : BOOLEAN]
        /\ keys'.failed = keys.failed /\ keys'.generated = keys.generated + 1
        /\ keys'.overlapped = (keys.overlapped \/ \E u \in Threads : Creating(u))
    <3>1. PICK b \in BOOLEAN : b = (keys.overlapped \/ \E u \in Threads : Creating(u))
      OBVIOUS
    <3>2. keys' = [keys EXCEPT !.generated = @ + 1, !.overlapped = b]
      BY <2>1, <3>1
    <3>3. keys \in [generated : Nat, overlapped : BOOLEAN, failed : BOOLEAN]
      BY <1>1 DEF ProgramTypes
    <3>4. keys' \in [generated : Nat, overlapped : BOOLEAN, failed : BOOLEAN]
      <4>1. keys' = [generated |-> keys.generated + 1, overlapped |-> b, failed |-> keys.failed]
        BY <3>2, <3>3
      <4>2. keys.generated + 1 \in Nat /\ keys.failed \in BOOLEAN /\ b \in BOOLEAN
        BY <3>1, <3>3
      <4>3. QED
        BY <4>1, <4>2
    <3>5. keys'.failed = keys.failed /\ keys'.generated = keys.generated + 1
      BY <3>2, <3>3
    <3>6. keys'.overlapped = b
      BY <3>2, <3>3
    <3>7. QED
      BY <3>1, <3>4, <3>5, <3>6
  <2>4. at' \in [Threads -> States]
    <3>1. [op |-> "open", key |-> Key(keys.generated + 1)] \in States
      BY <2>2 DEF States
    <3>2. QED
      BY <1>1, <2>1, <3>1 DEF ProgramTypes
  <2>5. ProgramTypes' /\ ErrorInv'
    BY <1>1, <2>1, <2>3, <2>4, UnguardedStep DEF ProgramTypes
  <2>6. at[t].op = "idle" /\ at'[t].op = "open" /\ Creating(t)'
    BY <1>1, <2>1 DEF ProgramTypes, Idle, Creating
  <2>7. \A u \in Threads \ {t} : at'[u] = at[u]
    BY <1>1, <2>1 DEF ProgramTypes
  <2>8. \A f \in Nat : Owned(f) => Owned(f)'
    BY <1>1, <2>1, <2>6, <2>7 DEF Owned
  <2>9. ~Untouched
    BY <1>3, KeysAreKeys DEF Untouched, KeySet
  <2>10. ~keys.failed /\ keys.generated >= 1 => \E u \in Threads : Creating(u)
    BY <1>1, <1>3, <2>9 DEF FileInv, ProgramTypes, Owned, Creating
  <2>11. FileInv'
    <3>1. \A u \in Threads :
            /\ at'[u].op = "write" => at'[u].file \in 1 .. Len(inode')
            /\ Creating(u)' => ids'[u] = NoKey
            /\ at'[u].op \in {"write", "rename"} => tmpFile' # 0 \/ keyFile' # 0
            /\ ids'[u] # NoKey => keyFile' # 0
      BY <1>1, <2>1, <2>6, <2>7 DEF FileInv, Creating
    <3>2. ~keys'.failed => \A f \in {keyFile', tmpFile'} \ {0} : Owned(f)'
      BY <1>1, <2>3, <2>8, <2>9 DEF FileInv, ProgramTypes
    <3>3. ~keys'.failed /\ keys'.generated > 1 => keys'.overlapped
      BY <1>1, <2>3, <2>10 DEF ProgramTypes
    <3>4. QED
      BY <1>1, <2>6, <3>1, <3>2, <3>3 DEF FileInv
  <2>12. QED
    BY <2>5, <2>11 DEF ProgramInv
<1>4. QED
  BY <1>2, <1>3

\* The tmp file is made or truncated: its creator is about to write it.
LEMMA OpenStep ==
  ASSUME ProgramInv, NEW t \in Threads, KeyOpen(t)
  PROVE  ProgramInv'
<1>1. /\ ProgramTypes /\ ErrorInv /\ FileInv
      /\ at[t].op = "open" /\ UNCHANGED <<ids, keyFile, keys>> /\ unguarded
  BY DEF ProgramInv, KeyOpen
<1>2. /\ at' = [at EXCEPT ![t] = [op |-> "write", key |-> at[t].key, file |-> tmpFile']]
      /\ \/ /\ tmpFile = 0 /\ inode' = Append(inode, Empty) /\ tmpFile' = Len(inode) + 1
         \/ /\ tmpFile # 0 /\ inode' = [inode EXCEPT ![tmpFile] = Empty] /\ tmpFile' = tmpFile
  BY DEF KeyOpen
<1>3. /\ inode' \in Seq(KeySet \cup {Empty}) /\ Len(inode') >= Len(inode)
      /\ tmpFile' \in 1 .. Len(inode') /\ inode'[tmpFile'] = Empty
      /\ keyFile # 0 => tmpFile' # keyFile /\ inode'[keyFile] = inode[keyFile]
      /\ Len(inode') \in Nat /\ Len(inode) \in Nat
  <2>1. inode \in Seq(KeySet \cup {Empty}) /\ Len(inode) \in Nat
    BY <1>1 DEF ProgramTypes
  <2>2. keyFile \in 0 .. Len(inode) /\ tmpFile \in 0 .. Len(inode)
        /\ (keyFile # 0 => keyFile # tmpFile)
    BY <1>1 DEF ProgramTypes, FileInv
  <2>3. CASE tmpFile = 0 /\ inode' = Append(inode, Empty) /\ tmpFile' = Len(inode) + 1
    <3>1. /\ inode' \in Seq(KeySet \cup {Empty}) /\ Len(inode') = Len(inode) + 1
          /\ inode'[Len(inode) + 1] = Empty
          /\ \A f \in 1 .. Len(inode) : inode'[f] = inode[f]
      BY <2>1, <2>3
    <3>2. QED
      BY <2>1, <2>2, <2>3, <3>1
  <2>4. CASE tmpFile # 0 /\ inode' = [inode EXCEPT ![tmpFile] = Empty] /\ tmpFile' = tmpFile
    <3>1. /\ inode' \in Seq(KeySet \cup {Empty}) /\ Len(inode') = Len(inode)
          /\ \A f \in 1 .. Len(inode) : inode'[f] = IF f = tmpFile THEN Empty ELSE inode[f]
      BY <2>1, <2>2, <2>4
    <3>2. QED
      BY <2>1, <2>2, <2>4, <3>1
  <2>5. QED
    BY <1>2, <2>3, <2>4
<1>4. at[t].key \in KeySet
  BY <1>1, AtCases DEF Idle
<1>5. at' \in [Threads -> States]
  <2>1. [op |-> "write", key |-> at[t].key, file |-> tmpFile'] \in States
    BY <1>3, <1>4 DEF States
  <2>2. QED
    BY <1>1, <1>2, <2>1 DEF ProgramTypes
<1>6. ProgramTypes' /\ ErrorInv'
  BY <1>1, <1>3, <1>5, UnguardedStep DEF ProgramTypes
<1>7. /\ at'[t].op = "write" /\ at'[t].file = tmpFile' /\ Creating(t)'
      /\ \A u \in Threads \ {t} : at'[u] = at[u]
  BY <1>1, <1>2 DEF ProgramTypes, Creating
<1>8. ~keys.failed => \A f \in {keyFile', tmpFile'} \ {0} : Owned(f)'
  <2>1. Owned(tmpFile)'
    BY <1>3, <1>7 DEF Owned
  <2>2. ~keys.failed /\ keyFile # 0 => Owned(keyFile)
    BY <1>1 DEF FileInv, Untouched, Creating
  <2>3. keyFile # 0 /\ Owned(keyFile) => Owned(keyFile)'
    BY <1>1, <1>3, <1>7 DEF Owned
  <2>4. QED
    BY <1>1, <2>1, <2>2, <2>3
<1>9. \A u \in Threads :
        /\ at'[u].op = "write" => at'[u].file \in 1 .. Len(inode')
        /\ Creating(u)' => ids'[u] = NoKey
        /\ at'[u].op \in {"write", "rename"} => tmpFile' # 0 \/ keyFile' # 0
        /\ ids'[u] # NoKey => keyFile' # 0
  BY <1>1, <1>3, <1>7 DEF FileInv, Creating
<1>10. FileInv'
  BY <1>1, <1>3, <1>7, <1>8, <1>9 DEF FileInv
<1>11. QED
  BY <1>6, <1>10 DEF ProgramInv

\* A creator writes the inode that it has opened, whatever name that has now.
LEMMA WriteStep ==
  ASSUME ProgramInv, NEW t \in Threads, KeyWrite(t)
  PROVE  ProgramInv'
<1>1. /\ ProgramTypes /\ ErrorInv /\ FileInv /\ unguarded
      /\ at[t].op = "write" /\ UNCHANGED <<ids, keyFile, tmpFile, keys>>
      /\ inode' = [inode EXCEPT ![at[t].file] = at[t].key]
      /\ at' = [at EXCEPT ![t] = [op |-> "rename", key |-> at[t].key]]
  BY DEF ProgramInv, KeyWrite
<1>2. at[t].key \in KeySet /\ at[t].file \in 1 .. Len(inode)
  BY <1>1, AtCases DEF Idle, FileInv
<1>3. inode' \in Seq(KeySet \cup {Empty}) /\ Len(inode') = Len(inode)
  BY <1>1, <1>2 DEF ProgramTypes
<1>4. /\ inode'[at[t].file] = at[t].key
      /\ \A f \in 1 .. Len(inode) : f # at[t].file => inode'[f] = inode[f]
  BY <1>1, <1>2 DEF ProgramTypes
<1>5. at' \in [Threads -> States]
  <2>1. [op |-> "rename", key |-> at[t].key] \in States
    BY <1>2 DEF States
  <2>2. QED
    BY <1>1, <2>1 DEF ProgramTypes
<1>6. ProgramTypes' /\ ErrorInv'
  BY <1>1, <1>3, <1>5, UnguardedStep DEF ProgramTypes
<1>7. /\ at'[t].op = "rename" /\ at'[t].key = at[t].key /\ Creating(t)' /\ Creating(t)
      /\ \A u \in Threads \ {t} : at'[u] = at[u]
  BY <1>1 DEF ProgramTypes, Creating
<1>8. \A f \in 1 .. Len(inode) : Owned(f) => Owned(f)'
  <2>1. ASSUME NEW f \in 1 .. Len(inode), Owned(f), f = at[t].file PROVE Owned(f)'
    BY <1>2, <1>4, <1>7, <2>1, KeysAreKeys DEF Owned
  <2>2. ASSUME NEW f \in 1 .. Len(inode), Owned(f), f # at[t].file PROVE Owned(f)'
    BY <1>1, <1>4, <1>7, <2>2 DEF Owned
  <2>3. QED
    BY <2>1, <2>2
<1>9. ~keys.failed => \A f \in {keyFile', tmpFile'} \ {0} : Owned(f)'
  <2>1. ~Untouched
    BY <1>7 DEF Untouched
  <2>2. \A f \in {keyFile, tmpFile} \ {0} : f \in 1 .. Len(inode)
    BY <1>1 DEF ProgramTypes
  <2>3. QED
    BY <1>1, <1>8, <2>1, <2>2 DEF FileInv
<1>10. \A u \in Threads :
        /\ at'[u].op = "write" => at'[u].file \in 1 .. Len(inode')
        /\ Creating(u)' => ids'[u] = NoKey
        /\ at'[u].op \in {"write", "rename"} => tmpFile' # 0 \/ keyFile' # 0
        /\ ids'[u] # NoKey => keyFile' # 0
  BY <1>1, <1>3, <1>7 DEF FileInv, Creating
<1>11. FileInv'
  BY <1>1, <1>7, <1>9, <1>10 DEF FileInv
<1>12. QED
  BY <1>6, <1>11 DEF ProgramInv

\* A creator that fails leaves its tmp file behind.
LEMMA FailStep ==
  ASSUME ProgramInv, NEW t \in Threads, KeyWriteFails(t)
  PROVE  ProgramInv'
<1>1. /\ ProgramTypes /\ ErrorInv /\ FileInv /\ guarded(t, "identity", "EPX_ERR_INTERNAL")
      /\ UNCHANGED <<ids, keyFile, tmpFile, inode>>
      /\ at' = [at EXCEPT ![t] = Idle] /\ keys' = [keys EXCEPT !.failed = TRUE]
  BY DEF ProgramInv, KeyWriteFails
<1>2. keys' \in [generated : Nat, overlapped : BOOLEAN, failed : BOOLEAN] /\ keys'.failed
  BY <1>1 DEF ProgramTypes
<1>3. at' \in [Threads -> States]
  BY <1>1 DEF ProgramTypes, States
<1>4. ProgramTypes' /\ ErrorInv'
  <2>1. "EPX_ERR_INTERNAL" \in Statuses /\ "identity" \in Messages
    BY DEF Statuses, Messages
  <2>2. /\ last' \in [Threads -> [call : Messages, status : Statuses]]
        /\ last_error' \in [Threads -> Messages] /\ ErrorInv'
    BY <1>1, <2>1, GuardedStep
  <2>3. QED
    BY <1>1, <1>2, <1>3, <2>2 DEF ProgramTypes
<1>5. at'[t].op = "idle" /\ \A u \in Threads \ {t} : at'[u] = at[u]
  BY <1>1 DEF ProgramTypes, Idle
<1>6. FileInv'
  BY <1>1, <1>2, <1>5 DEF FileInv, Creating
<1>7. QED
  BY <1>4, <1>6 DEF ProgramInv

\* The tmp file becomes the key file, unless another creator has renamed it.
LEMMA RenameStep ==
  ASSUME ProgramInv, NEW t \in Threads, KeyRename(t)
  PROVE  ProgramInv'
<1>1. /\ ProgramTypes /\ ErrorInv /\ FileInv /\ guarded(t, "identity", "EPX_OK")
      /\ at[t].op = "rename" /\ UNCHANGED <<inode, keys>> /\ tmpFile' = 0
      /\ keyFile' = (IF tmpFile = 0 THEN keyFile ELSE tmpFile)
      /\ ids' = [ids EXCEPT ![t] = at[t].key] /\ at' = [at EXCEPT ![t] = Idle]
  BY DEF ProgramInv, KeyRename
<1>2. at[t].key \in KeySet
  BY <1>1, AtCases DEF Idle
<1>3. keyFile' \in 1 .. Len(inode) /\ keyFile' \in {keyFile, tmpFile} \ {0}
  BY <1>1 DEF ProgramTypes, FileInv
<1>4. ProgramTypes' /\ ErrorInv'
  <2>1. "EPX_OK" \in Statuses /\ "identity" \in Messages
    BY DEF Statuses, Messages
  <2>2. /\ last' \in [Threads -> [call : Messages, status : Statuses]]
        /\ last_error' \in [Threads -> Messages] /\ ErrorInv'
    BY <1>1, <2>1, GuardedStep
  <2>3. at' \in [Threads -> States] /\ ids' \in [Threads -> KeySet \cup {NoKey}]
    BY <1>1, <1>2 DEF ProgramTypes, States
  <2>4. QED
    BY <1>1, <1>3, <2>2, <2>3 DEF ProgramTypes
<1>5. /\ at'[t].op = "idle" /\ ids'[t] = at[t].key
      /\ \A u \in Threads \ {t} : at'[u] = at[u] /\ ids'[u] = ids[u]
  BY <1>1 DEF ProgramTypes, Idle
<1>6. ids[t] = NoKey /\ Creating(t)
  BY <1>1 DEF FileInv, Creating
<1>7. \A f \in {keyFile, tmpFile} \ {0} : Owned(f) => Owned(f)'
  <2>1. \A f \in {keyFile, tmpFile} \ {0} : inode[f] # NoKey
    BY <1>1, KeysAreKeys DEF ProgramTypes
  <2>2. QED
    BY <1>1, <1>5, <1>6, <2>1 DEF Owned
<1>8. ~keys.failed => Owned(keyFile)'
  <2>1. ~Untouched
    BY <1>6 DEF Untouched
  <2>2. ~keys.failed => \A f \in {keyFile, tmpFile} \ {0} : Owned(f)'
    BY <1>1, <1>7, <2>1 DEF FileInv
  <2>3. \A f : f = keyFile' => (Owned(f)' <=> Owned(keyFile)')
    BY DEF Owned
  <2>4. QED
    BY <1>3, <2>2, <2>3
<1>9. FileInv'
  <2>1. \A u \in Threads :
          /\ at'[u].op = "write" => at'[u].file \in 1 .. Len(inode')
          /\ Creating(u)' => ids'[u] = NoKey
          /\ keyFile' # 0
    BY <1>1, <1>3, <1>5 DEF FileInv, Creating
  <2>2. QED
    BY <1>1, <1>3, <1>8, <2>1 DEF FileInv
<1>10. QED
  BY <1>4, <1>9 DEF ProgramInv

-----------------------------------------------------------------------------
(* The program.                                                            *)

\* The other calls of a thread, and what they do to its last error.
LEMMA CallStep ==
  ASSUME ProgramInv, NEW t \in Threads,
         \/ Walks(t) \/ HostDestroyed(t) \/ SignalComes(t)
         \/ epx_list_services(t) \/ LookupUnpublishes(t) \/ LookedUp(t)
         \/ \E p \in Peers, s \in Scopes, e \in Expiries : epx_make_credential(t, p, s, e)
         \/ \E h \in Hosts :
              \/ epx_host_create(t, h) \/ epx_host_stop(t, h) \/ epx_host_request_stop(t, h)
              \/ epx_host_wait_until_stopped(t, h) \/ epx_host_free(t, h) \/ epx_describe(t, h)
              \/ LookupReads(t, h)
              \/ \E k \in EndpointKind, n \in Names :
                   epx_host_expose(t, h, k, n) \/ expose_stream_or_topic(t, h, k, n)
              \/ \E d \in Descriptions : epx_host_set_description(t, h, d)
              \/ \E b \in BOOLEAN : epx_host_run(t, h, b)
              \/ \E c \in made : epx_host_add_credential(t, h, c)
              \/ \E n \in 1 .. MaxSignals : epx_host_stop_on_signals(t, h, n)
  PROVE  ProgramInv'
<1> DEFINE Guarded == \/ guarded(t, "list", "EPX_OK") \/ guarded(t, "credential", "EPX_OK")
                      \/ guarded(t, "create", "EPX_OK")
                      \/ guarded(t, "describe", "EPX_OK") \/ guarded(t, "describe", "EPX_ERR_NOT_FOUND")
                      \/ guarded(t, "expose", "EPX_OK")
                      \/ guarded(t, "expose", "EPX_ERR_INVALID_ARGUMENT")
                      \/ guarded(t, "run", "EPX_OK") \/ guarded(t, "run", "EPX_ERR_INTERNAL")
<1>1. CASE \/ Walks(t) \/ HostDestroyed(t) \/ SignalComes(t) \/ epx_list_services(t)
           \/ LookupUnpublishes(t) \/ LookedUp(t)
           \/ \E p \in Peers, s \in Scopes, e \in Expiries : epx_make_credential(t, p, s, e)
  <2>1. UNCHANGED <<at, ids, keyVars>>
    BY <1>1 DEF Walks, HostDestroyed, SignalComes, epx_list_services, LooksUp,
       LookupUnpublishes, LookedUp, epx_make_credential, SameProgram
  <2>2. unguarded \/ Guarded
    BY <1>1 DEF Walks, HostDestroyed, SignalComes, epx_list_services, LooksUp,
       LookupUnpublishes, LookedUp, epx_make_credential, SameProgram
  <2>3. QED
    BY <2>1, <2>2, OtherCalls DEF Messages, Statuses
<1>2. ASSUME NEW h \in Hosts,
             \/ epx_host_create(t, h) \/ epx_host_stop(t, h) \/ epx_host_request_stop(t, h)
             \/ epx_host_wait_until_stopped(t, h) \/ epx_host_free(t, h) \/ epx_describe(t, h)
             \/ LookupReads(t, h)
             \/ \E n \in 1 .. MaxSignals : epx_host_stop_on_signals(t, h, n)
      PROVE  ProgramInv'
  <2>1. UNCHANGED <<at, ids, keyVars>>
    BY <1>2 DEF epx_host_create, epx_host_stop, epx_host_request_stop, epx_host_wait_until_stopped,
       epx_host_free, epx_describe, LooksUp, LookupReads, epx_host_stop_on_signals, SameProgram, Becomes, Stopped
  <2>2. unguarded \/ Guarded
    BY <1>2 DEF epx_host_create, epx_host_stop, epx_host_request_stop, epx_host_wait_until_stopped,
       epx_host_free, epx_describe, LooksUp, LookupReads, epx_host_stop_on_signals, SameProgram, Stopped
  <2>3. QED
    BY <2>1, <2>2, OtherCalls DEF Messages, Statuses
<1>3. ASSUME NEW h \in Hosts,
             \/ \E k \in EndpointKind, n \in Names :
                  epx_host_expose(t, h, k, n) \/ expose_stream_or_topic(t, h, k, n)
             \/ \E d \in Descriptions : epx_host_set_description(t, h, d)
             \/ \E b \in BOOLEAN : epx_host_run(t, h, b)
             \/ \E c \in made : epx_host_add_credential(t, h, c)
      PROVE  ProgramInv'
  <2>1. UNCHANGED <<at, ids, keyVars>>
    BY <1>3 DEF epx_host_expose, expose_stream_or_topic, Expose, epx_host_set_description,
       epx_host_run, epx_host_add_credential, Becomes
  <2>2. unguarded \/ Guarded
    BY <1>3 DEF epx_host_expose, expose_stream_or_topic, Expose, epx_host_set_description,
       epx_host_run, epx_host_add_credential
  <2>3. QED
    BY <2>1, <2>2, OtherCalls DEF Messages, Statuses
<1>4. QED
  BY <1>1, <1>2, <1>3

\* Every step of the program keeps the invariant.
LEMMA ProgramStep == ProgramInv /\ [Next]_vars => ProgramInv'
<1> SUFFICES ASSUME ProgramInv, [Next]_vars PROVE ProgramInv'
  OBVIOUS
<1>1. CASE UNCHANGED vars
  BY <1>1, OtherCalls DEF vars, unguarded
<1>2. CASE Next
  <2>1. ASSUME NEW t \in Threads, epx_identity_load_or_create(t) \/ KeyOpen(t) \/ KeyWrite(t)
                                   \/ KeyWriteFails(t) \/ KeyRename(t)
        PROVE  ProgramInv'
    BY <2>1, LoadOrCreate, OpenStep, WriteStep, FailStep, RenameStep
  <2>2. ASSUME NEW c \in made, NEW n \in 0 .. Len(make_credential(c)), SaveCredential(c, n)
        PROVE  ProgramInv'
    BY <2>2, OtherCalls DEF SaveCredential
  <2>3. ASSUME epx_signal_trampoline PROVE ProgramInv'
    BY <2>3, OtherCalls DEF epx_signal_trampoline, SameProgram
  <2>4. QED
    BY <1>2, <2>1, <2>2, <2>3, CallStep DEF Next
<1>3. QED
  BY <1>1, <1>2

\* So does the first state.
LEMMA ProgramInit == Init => ProgramInv
<1> SUFFICES ASSUME Init PROVE ProgramInv
  OBVIOUS
<1>1. Key(0) \in KeySet /\ Idle \in States
  BY DEF KeySet, States
<1>2. ProgramTypes /\ ErrorInv
  <2>1. /\ at \in [Threads -> States] /\ ids \in [Threads -> KeySet \cup {NoKey}]
        /\ keys \in [generated : Nat, overlapped : BOOLEAN, failed : BOOLEAN]
    BY <1>1 DEF Init
  <2>2. /\ last \in [Threads -> [call : Messages, status : Statuses]]
        /\ last_error \in [Threads -> Messages] /\ ErrorInv
    BY DEF Init, ErrorInv, Messages, Statuses
  <2>3. inode \in Seq(KeySet \cup {Empty}) /\ keyFile \in 0 .. Len(inode) /\ tmpFile \in 0 .. Len(inode)
    <3>1. /\ tmpFile = 0
          /\ (keyFile = 0 /\ inode = << >>) \/ (keyFile = 1 /\ inode = << Key(0) >>)
      BY DEF Init
    <3>2. CASE inode = << >>
      BY <3>1, <3>2
    <3>3. CASE inode = << Key(0) >>
      BY <1>1, <3>1, <3>3
    <3>4. QED
      BY <3>1, <3>2, <3>3
  <2>4. QED
    BY <2>1, <2>2, <2>3 DEF ProgramTypes
<1>3. \A t \in Threads : at[t].op = "idle" /\ ids[t] \in {NoKey, Key(0)}
  BY DEF Init, Idle
<1>4. \/ keyFile = 0 /\ \A t \in Threads : ids[t] = NoKey
      \/ keyFile = 1 /\ inode = << Key(0) >>
  BY CApiAssumption DEF Init
<1>5. FileInv
  <2>1. tmpFile = 0 /\ keys.generated = 0 /\ \A t \in Threads : ~Creating(t)
    BY <1>3 DEF Init, Creating
  <2>2. Untouched \/ keyFile = 0
    BY <1>3, <1>4, <2>1 DEF Untouched
  <2>3. QED
    BY <1>3, <1>4, <2>1, <2>2 DEF FileInv
<1>6. QED
  BY <1>2, <1>5 DEF ProgramInv

\* Every step of the program is a step of the signal table or leaves it alone.
LEMMA TableStep == [Next]_vars => [TableNext]_table
<1> SUFFICES ASSUME [Next]_vars PROVE [TableNext]_table
  OBVIOUS
<1>1. CASE UNCHANGED vars
  BY <1>1 DEF vars
<1>2. ASSUME NEW t \in Threads,
             \/ epx_identity_load_or_create(t) \/ KeyOpen(t) \/ KeyWrite(t)
             \/ KeyWriteFails(t) \/ KeyRename(t) \/ epx_list_services(t)
             \/ LookupUnpublishes(t) \/ LookedUp(t)
             \/ \E p \in Peers, s \in Scopes, e \in Expiries : epx_make_credential(t, p, s, e)
      PROVE  UNCHANGED table
  BY <1>2, Zenon DEF epx_identity_load_or_create, KeyOpen, KeyWrite, KeyWriteFails, KeyRename,
     epx_list_services, LooksUp, LookupUnpublishes, LookedUp, epx_make_credential
<1>3. ASSUME NEW t \in Threads, NEW h \in Hosts,
             \/ epx_host_stop(t, h) \/ epx_host_wait_until_stopped(t, h) \/ epx_describe(t, h)
             \/ LookupReads(t, h)
             \/ \E k \in EndpointKind, n \in Names :
                  epx_host_expose(t, h, k, n) \/ expose_stream_or_topic(t, h, k, n)
             \/ \E d \in Descriptions : epx_host_set_description(t, h, d)
             \/ \E b \in BOOLEAN : epx_host_run(t, h, b)
             \/ \E c \in made : epx_host_add_credential(t, h, c)
      PROVE  UNCHANGED table
  BY <1>3, Zenon DEF epx_host_stop, epx_host_wait_until_stopped, epx_describe, LooksUp, LookupReads, Stopped,
     epx_host_expose, expose_stream_or_topic, Expose, epx_host_set_description, epx_host_run,
     epx_host_add_credential
<1>4. ASSUME NEW t \in Threads, Walks(t) \/ HostDestroyed(t) \/ SignalComes(t)
      PROVE  TableNext
  BY <1>4, Zenon DEF Walks, HostDestroyed, SignalComes, TableNext
<1>5. ASSUME NEW t \in Threads, NEW h \in Hosts,
             \/ epx_host_create(t, h) \/ epx_host_request_stop(t, h) \/ epx_host_free(t, h)
             \/ \E n \in 1 .. MaxSignals : epx_host_stop_on_signals(t, h, n)
      PROVE  TableNext
  BY <1>5, Zenon DEF epx_host_create, epx_host_request_stop, epx_host_free,
     epx_host_stop_on_signals, TableNext
<1>6. ASSUME NEW c \in made, NEW n \in 0 .. Len(make_credential(c)), SaveCredential(c, n)
      PROVE  UNCHANGED table
  BY <1>6, Zenon DEF SaveCredential
<1>7. ASSUME epx_signal_trampoline PROVE TableNext
  BY <1>7, Zenon DEF epx_signal_trampoline, TableNext
<1>8. QED
  BY <1>1, <1>2, <1>3, <1>4, <1>5, <1>6, <1>7 DEF Next

-----------------------------------------------------------------------------
(* Texts.                                                                  *)

\* A set of numbers has a least one.
LEMMA Least ==
  ASSUME NEW S, S \subseteq Nat, S # {}
  PROVE  \E m \in S : \A k \in S : m <= k
<1>1. IsWellFoundedOn({ss \in Nat \X Nat : ss[1] < ss[2]}, Nat)
  BY NatLessThanWellFounded DEF OpToRel
<1>2. \E m \in S : \A k \in S : <<k, m>> \notin {ss \in Nat \X Nat : ss[1] < ss[2]}
  BY <1>1, WFMin
<1>3. PICK m \in S : \A k \in S : <<k, m>> \notin {ss \in Nat \X Nat : ss[1] < ss[2]}
  BY <1>2
<1>4. ASSUME NEW k \in S PROVE m <= k
  <2>1. k \in Nat /\ m \in Nat  OBVIOUS
  <2>2. ~(<<k, m>>[1] < <<k, m>>[2])  BY <1>3, <2>1
  <2>3. QED  BY <2>1, <2>2
<1>5. QED  BY <1>4

\* Induction, with the set of numbers that have the property.
LEMMA Induction ==
  ASSUME NEW S, 0 \in S, \A n \in Nat : n \in S => n + 1 \in S
  PROVE  Nat \subseteq S
<1>1. SUFFICES ASSUME Nat \ S # {} PROVE FALSE  OBVIOUS
<1>2. PICK m \in Nat \ S : \A k \in Nat \ S : m <= k  BY Least, <1>1
<1>3. QED  BY <1>2

\* b is where the string from a ends.
Ends(s, sep, a, b) ==
  /\ b \in a .. Len(s) + 1
  /\ b = Len(s) + 1 \/ s[b] = sep
  /\ \A i \in a .. b - 1 : s[i] # sep

\* There is one end only.
LEMMA EndIs ==
  ASSUME NEW T, NEW s \in Seq(T), NEW sep, NEW a \in 1 .. Len(s), NEW b, Ends(s, sep, a, b)
  PROVE  End(s, sep, a) = b
<1>1. ASSUME NEW c, Ends(s, sep, a, c)  PROVE c = b
  <2>1. b \in Int /\ c \in Int /\ Len(s) \in Nat  BY <1>1 DEF Ends
  <2>2. ~(c < b)  BY <1>1, <2>1 DEF Ends
  <2>3. ~(b < c)  BY <1>1, <2>1 DEF Ends
  <2>4. QED  BY <2>1, <2>2, <2>3
<1>2. QED  BY <1>1 DEF End, Ends

\* A string that begins ends somewhere.
LEMMA EndExists ==
  ASSUME NEW T, NEW s \in Seq(T), NEW sep, NEW a \in 1 .. Len(s)
  PROVE  Ends(s, sep, a, End(s, sep, a))
<1> DEFINE S == {b \in a .. Len(s) + 1 : b = Len(s) + 1 \/ s[b] = sep}
<1>0. Len(s) \in Nat  OBVIOUS
<1>1. S \subseteq Nat /\ Len(s) + 1 \in S  BY <1>0
<1>2. PICK b \in S : \A k \in S : b <= k  BY <1>1, Least
<1>3. Ends(s, sep, a, b)  BY <1>0, <1>2 DEF Ends
<1>4. QED  BY <1>3, EndIs

\* The parts of a concatenation.
LEMMA Cat ==
  ASSUME NEW T, NEW s \in Seq(T), NEW t \in Seq(T)
  PROVE  /\ s \o t \in Seq(T) /\ Len(s \o t) = Len(s) + Len(t) /\ Len(s) \in Nat /\ Len(t) \in Nat
         /\ \A i \in 1 .. Len(s) : (s \o t)[i] = s[i]
         /\ \A i \in 1 .. Len(t) : (s \o t)[Len(s) + i] = t[i]
  OBVIOUS

\* What SubSeq cuts out.
LEMMA Cut ==
  ASSUME NEW T, NEW s \in Seq(T), NEW U, NEW t \in Seq(U), NEW m \in Nat, m + Len(t) <= Len(s),
         \A i \in 1 .. Len(t) : s[m + i] = t[i]
  PROVE  SubSeq(s, m + 1, m + Len(t)) = t
<1>0. PICK n \in Nat : n = Len(t)  OBVIOUS
<1>1. m + 1 \in 1 .. Len(s) + 1 /\ m + n \in m + 1 - 1 .. Len(s)  BY <1>0
<1> DEFINE q == SubSeq(s, m + 1, m + n)
<1>2. /\ q \in Seq(T) /\ Len(q) = IF m + 1 <= m + n THEN m + n - (m + 1) + 1 ELSE 0
      /\ \A i \in 1 .. m + n - (m + 1) + 1 : q[i] = s[m + 1 + i - 1]
  BY <1>1, SubSeqProperties
<1>3. Len(q) = n  BY <1>2
<1>4. ASSUME NEW i \in 1 .. n PROVE q[i] = t[i]
  <2>1. i \in 1 .. m + n - (m + 1) + 1 /\ m + 1 + i - 1 = m + i  BY <1>0
  <2>2. q[i] = s[m + i]  BY <1>2, <2>1
  <2>3. QED  BY <2>2, <1>0
<1> HIDE DEF q
<1>5. \A i \in 1 .. Len(q) : q[i] = t[i]  BY <1>3, <1>4
<1>6. q \in Seq(T \cup U) /\ t \in Seq(T \cup U)  BY <1>2
<1>8. q = t  BY <1>0, <1>3, <1>5, <1>6, SeqEqual
<1>9. QED  BY <1>0, <1>8 DEF q

\* The tokens of a part.
LEMMA PartTokens ==
  ASSUME NEW T, NEW s \in Seq(T), NEW m \in Nat, NEW n \in Nat, 1 <= m, n <= Len(s)
  PROVE  SubSeq(s, m, n) \in Seq(T)
  OBVIOUS

\* The same part of two texts that agree there.
LEMMA SamePart ==
  ASSUME NEW T, NEW s \in Seq(T), NEW t \in Seq(T), NEW a \in Nat, NEW b \in Nat, 1 <= a, a <= b + 1,
         b <= Len(s), b <= Len(t), \A i \in a .. b : s[i] = t[i]
  PROVE  SubSeq(s, a, b) = SubSeq(t, a, b)
<1>1. SubSeq(s, a, b) = [i \in 1 .. b - a + 1 |-> s[a + i - 1]]  OBVIOUS
<1>2. SubSeq(t, a, b) = [i \in 1 .. b - a + 1 |-> t[a + i - 1]]  OBVIOUS
<1>3. ASSUME NEW i \in 1 .. b - a + 1 PROVE s[a + i - 1] = t[a + i - 1]
  <2>1. a + i - 1 \in a .. b  OBVIOUS
  <2>2. QED  BY <2>1
<1>4. QED  BY <1>1, <1>2, <1>3

\* A text of whole lines.
Whole(T, text) == text \in Seq(T) /\ (text = << >> \/ text[Len(text)] = NL)

\* A text of one line, of tokens of T.
Plain(T, val) == val \in Seq(T) /\ \A i \in 1 .. Len(val) : val[i] # NL

\* A text to which a line has been written.
Extended(text, front, l) == text = front \o (l \o << NL >>)

\* A line at the end of a text of whole lines: the lines before it stay.
LEMMA LineAdded ==
  ASSUME NEW T, NL \in T, NEW front, Whole(T, front), NEW l, Plain(T, l),
         NEW text, Extended(text, front, l)
  PROVE  /\ Whole(T, text)
         /\ Starts(text, NL) = Starts(front, NL) \cup {Len(front) + 1}
         /\ Getline(text, NL, Len(front) + 1) = l
         /\ \A a \in Starts(front, NL) : Getline(text, NL, a) = Getline(front, NL, a)
<1>f. front \in Seq(T) /\ (front = << >> \/ front[Len(front)] = NL)  BY DEF Whole
<1>l. l \in Seq(T) /\ \A i \in 1 .. Len(l) : l[i] # NL  BY DEF Plain
<1>0. PICK n \in Nat, m \in Nat : n = Len(front) /\ m = Len(l)  BY <1>f, <1>l
<1>1. /\ text \in Seq(T) /\ Len(text) = n + m + 1
      /\ \A i \in 1 .. n : text[i] = front[i]
      /\ \A i \in 1 .. m : text[n + i] = l[i]
      /\ text[n + m + 1] = NL
  <2>1. << NL >> \in Seq(T) /\ Len(<< NL >>) = 1 /\ << NL >>[1] = NL  OBVIOUS
  <2>2. PICK r \in Seq(T) : r = l \o << NL >>  BY <1>l, <2>1, Cat
  <2>3. /\ Len(r) = m + 1 /\ \A i \in 1 .. m : r[i] = l[i]
        /\ r[m + 1] = NL  BY <1>0, <1>l, <2>1, <2>2
  <2>4. text = front \o r  BY <2>2 DEF Extended
  <2>5. /\ text \in Seq(T) /\ Len(text) = n + (m + 1)
        /\ \A i \in 1 .. n : text[i] = front[i]
        /\ \A i \in 1 .. m + 1 : text[n + i] = r[i]
    <3>1. /\ text \in Seq(T) /\ Len(text) = Len(front) + Len(r)
          /\ \A i \in 1 .. Len(front) : text[i] = front[i]
          /\ \A i \in 1 .. Len(r) : text[Len(front) + i] = r[i]
      BY <1>f, <2>4, Cat
    <3>2. QED  BY <1>0, <2>3, <3>1
  <2>6. \A i \in 1 .. m : text[n + i] = l[i]
    <3>1. \A i \in 1 .. m : i \in 1 .. m + 1  OBVIOUS
    <3>2. QED  BY <2>3, <2>5, <3>1
  <2>7. m + 1 \in 1 .. m + 1 /\ n + (m + 1) = n + m + 1  OBVIOUS
  <2>8. text[n + m + 1] = NL  BY <2>3, <2>5, <2>7
  <2>9. QED  BY <2>5, <2>6, <2>7, <2>8
<1>2. n = 0 \/ front[n] = NL  BY <1>0, <1>f
<1>3. Starts(text, NL) = Starts(front, NL) \cup {n + 1}
  <2>1. ASSUME NEW a \in 1 .. n PROVE (a = 1 \/ text[a - 1] = NL) <=> (a = 1 \/ front[a - 1] = NL)
    <3>1. a = 1 \/ a - 1 \in 1 .. n  OBVIOUS
    <3>2. QED  BY <1>1, <3>1
  <2>2. n + 1 = 1 \/ text[(n + 1) - 1] = NL
    <3>1. n = 0 \/ (n \in 1 .. n /\ (n + 1) - 1 = n)  OBVIOUS
    <3>2. QED  BY <1>1, <1>2, <3>1
  <2>3. ASSUME NEW a \in n + 2 .. n + m + 1 PROVE a # 1 /\ text[a - 1] # NL
    <3>1. PICK i \in 1 .. m : a - 1 = n + i
      <4>1. (a - 1) - n \in 1 .. m /\ a - 1 = n + ((a - 1) - n)  OBVIOUS
      <4>2. QED  BY <4>1
    <3>2. text[n + i] = l[i] /\ l[i] # NL  BY <1>0, <1>l, <1>1
    <3>3. QED  BY <3>1, <3>2
  <2>4. Starts(front, NL) = {a \in 1 .. n : a = 1 \/ front[a - 1] = NL}  BY <1>0 DEF Starts
  <2>5. Starts(text, NL) = {a \in 1 .. n + m + 1 : a = 1 \/ text[a - 1] = NL}  BY <1>1 DEF Starts
  <2>6. \A a : a \in 1 .. n + m + 1 <=> a \in 1 .. n \/ a = n + 1 \/ a \in n + 2 .. n + m + 1  OBVIOUS
  <2>7. QED  BY <2>1, <2>2, <2>3, <2>4, <2>5, <2>6
<1>4. Getline(text, NL, n + 1) = l
  <2>1. Ends(text, NL, n + 1, n + m + 1)
    <3>1. ASSUME NEW i \in n + 1 .. (n + m + 1) - 1 PROVE text[i] # NL
      <4>1. i - n \in 1 .. m /\ i = n + (i - n)  OBVIOUS
      <4>2. PICK j \in 1 .. m : i = n + j  BY <4>1
      <4>3. QED  BY <1>0, <1>l, <1>1, <4>2
    <3>2. n + m + 1 \in n + 1 .. Len(text) + 1 /\ text[n + m + 1] = NL  BY <1>1
    <3>3. QED  BY <3>1, <3>2 DEF Ends
  <2>2. n + 1 \in 1 .. Len(text)  BY <1>1
  <2>3. End(text, NL, n + 1) = n + m + 1  BY <1>1, <2>1, <2>2, EndIs
  <2>4. SubSeq(text, n + 1, n + Len(l)) = l
    <3>1. n + Len(l) <= Len(text) /\ \A i \in 1 .. Len(l) : text[n + i] = l[i]  BY <1>0, <1>1
    <3>2. text \in Seq(T)  BY <1>1
    <3>3. QED  BY <1>l, <3>1, <3>2, Cut
  <2>5. n + Len(l) = (n + m + 1) - 1  BY <1>0
  <2>6. QED  BY <2>3, <2>4, <2>5 DEF Getline
<1>5. ASSUME NEW a \in Starts(front, NL) PROVE Getline(text, NL, a) = Getline(front, NL, a)
  <2>1. a \in 1 .. n /\ a \in 1 .. Len(front) /\ n # 0 /\ front[n] = NL  BY <1>0, <1>2 DEF Starts
  <2>2. PICK b : b = End(front, NL, a) /\ Ends(front, NL, a, b)  BY <1>f, <2>1, EndExists
  <2>3. b \in a .. n  BY <1>0, <2>1, <2>2 DEF Ends
  <2>4. Ends(text, NL, a, b)
    <3>1. b \in 1 .. n /\ \A i \in a .. b - 1 : i \in 1 .. n  BY <2>1, <2>3
    <3>2. front[b] = NL /\ \A i \in a .. b - 1 : front[i] # NL  BY <1>0, <2>2, <2>3 DEF Ends
    <3>3. text[b] = NL /\ \A i \in a .. b - 1 : text[i] # NL  BY <1>1, <3>1, <3>2
    <3>4. b \in a .. Len(text) + 1  BY <1>1, <2>1, <2>3
    <3>5. QED  BY <3>3, <3>4 DEF Ends
  <2>5. a \in 1 .. Len(text)  BY <1>1, <2>1
  <2>6. End(text, NL, a) = b  BY <1>1, <2>4, <2>5, EndIs
  <2>7. /\ a \in Nat /\ b - 1 \in Nat /\ 1 <= a /\ a <= (b - 1) + 1 /\ b - 1 <= Len(text) /\ b - 1 <= Len(front)
        /\ \A i \in a .. b - 1 : text[i] = front[i]
    <3>1. a \in Nat /\ b - 1 \in Nat /\ 1 <= a /\ a <= (b - 1) + 1 /\ b - 1 <= n  BY <2>1, <2>3
    <3>2. n <= Len(text) /\ n = Len(front) /\ Len(text) \in Nat  BY <1>0, <1>1
    <3>3. \A i \in a .. b - 1 : i \in 1 .. n  BY <2>1, <2>3
    <3>4. \A i \in a .. b - 1 : text[i] = front[i]  BY <1>1, <3>3
    <3>5. QED  BY <3>1, <3>2, <3>4
  <2>8. SubSeq(text, a, b - 1) = SubSeq(front, a, b - 1)  BY <1>f, <1>1, <2>7, SamePart
  <2>9. QED  BY <2>2, <2>6, <2>8 DEF Getline
<1>6. Whole(T, text)  BY <1>1 DEF Whole
<1>7. QED  BY <1>0, <1>3, <1>4, <1>5, <1>6

\* An item between separators, and a text that does not end with one.
Item(s, sep) == s # << >> /\ \A i \in 1 .. Len(s) : s[i] # sep
Closed(s, sep) == s # << >> /\ s[Len(s)] # sep

\* An item alone.
LEMMA OneItem ==
  ASSUME NEW T, NEW sep, NEW item \in Seq(T), Item(item, sep)
  PROVE  split(item, sep) = {item} /\ Closed(item, sep)
<1> USE DEF Item
<1>0. PICK n \in Nat : n = Len(item) /\ n > 0  OBVIOUS
<1>1. Starts(item, sep) = {1}
  <2>1. ASSUME NEW a \in 1 .. n, a # 1 PROVE item[a - 1] # sep
    <3>1. a - 1 \in 1 .. n  BY <2>1
    <3>2. QED  BY <1>0, <3>1
  <2>2. QED  BY <1>0, <2>1 DEF Starts
<1>2. Ends(item, sep, 1, n + 1)  BY <1>0 DEF Ends
<1>3. End(item, sep, 1) = n + 1  BY <1>0, <1>2, EndIs
<1>4. SubSeq(item, 1, n) = item  BY <1>0
<1>5. Getline(item, sep, 1) = item
  <2>1. (n + 1) - 1 = n  OBVIOUS
  <2>2. QED  BY <1>3, <1>4, <2>1 DEF Getline
<1>6. Closed(item, sep)  BY <1>0 DEF Closed
<1>7. QED  BY <1>1, <1>5, <1>6 DEF split

\* s, a token, and t.
Glued(x, s, c, t) ==
  /\ Len(x) = Len(s) + 1 + Len(t)
  /\ \A i \in 1 .. Len(s) : x[i] = s[i]
  /\ x[Len(s) + 1] = c
  /\ \A i \in 1 .. Len(t) : x[Len(s) + 1 + i] = t[i]

\* What it is to be put together in this way.
LEMMA Glue ==
  ASSUME NEW T, NEW s \in Seq(T), NEW c \in T, NEW t \in Seq(T)
  PROVE  s \o << c >> \o t \in Seq(T) /\ Glued(s \o << c >> \o t, s, c, t)
<1>0. PICK n \in Nat, m \in Nat : n = Len(s) /\ m = Len(t)  OBVIOUS
<1>1. << c >> \in Seq(T) /\ Len(<< c >>) = 1 /\ << c >>[1] = c  OBVIOUS
<1>2. PICK r \in Seq(T) : r = s \o << c >>  BY <1>1, Cat
<1>3. Len(r) = n + 1 /\ (\A i \in 1 .. n : r[i] = s[i]) /\ r[n + 1] = c  BY <1>0, <1>1, <1>2
<1>4. PICK x \in Seq(T) : x = r \o t  BY Cat
<1>5. /\ Len(x) = (n + 1) + m
      /\ \A i \in 1 .. n + 1 : x[i] = r[i]
      /\ \A i \in 1 .. m : x[(n + 1) + i] = t[i]
  <2>1. /\ Len(x) = Len(r) + Len(t) /\ \A i \in 1 .. Len(r) : x[i] = r[i]
        /\ \A i \in 1 .. Len(t) : x[Len(r) + i] = t[i]
    BY <1>4, Cat, SMTT(30)
  <2>2. QED  BY <1>0, <1>3, <2>1
<1>6. (\A i \in 1 .. n : i \in 1 .. n + 1) /\ n + 1 \in 1 .. n + 1  OBVIOUS
<1>7. (\A i \in 1 .. n : x[i] = s[i]) /\ x[n + 1] = c  BY <1>3, <1>5, <1>6
<1>8. Glued(x, s, c, t)  BY <1>0, <1>5, <1>7 DEF Glued
<1>9. QED  BY <1>2, <1>4, <1>8

\* An item behind others.
LEMMA ItemAdded ==
  ASSUME NEW T, NEW sep \in T, NEW front \in Seq(T), Closed(front, sep),
         NEW item \in Seq(T), Item(item, sep), NEW text \in Seq(T), Glued(text, front, sep, item)
  PROVE  Closed(text, sep) /\ split(text, sep) = split(front, sep) \cup {item}
<1>9. /\ front # << >> /\ front[Len(front)] # sep
      /\ item # << >> /\ \A i \in 1 .. Len(item) : item[i] # sep
  BY DEF Closed, Item
<1>0. PICK n \in Nat, m \in Nat : n = Len(front) /\ m = Len(item) /\ n > 0 /\ m > 0  BY <1>9
<1>1. /\ text \in Seq(T) /\ Len(text) = n + 1 + m
      /\ \A i \in 1 .. n : text[i] = front[i]
      /\ text[n + 1] = sep
      /\ \A i \in 1 .. m : text[n + 1 + i] = item[i]
  BY <1>0 DEF Glued
<1>2. Closed(text, sep)
  <2>1. m \in 1 .. m  BY <1>0
  <2>2. QED  BY <1>0, <1>1, <1>9, <2>1 DEF Closed
<1>3. Starts(text, sep) = Starts(front, sep) \cup {n + 2}
  <2>1. ASSUME NEW a \in 1 .. n PROVE (a = 1 \/ text[a - 1] = sep) <=> (a = 1 \/ front[a - 1] = sep)
    <3>1. a = 1 \/ a - 1 \in 1 .. n  OBVIOUS
    <3>2. QED  BY <1>1, <3>1
  <2>2. n + 1 # 1 /\ text[(n + 1) - 1] # sep
    <3>1. n \in 1 .. n /\ (n + 1) - 1 = n  BY <1>0
    <3>2. QED  BY <1>0, <1>1, <1>9, <3>1
  <2>3. text[(n + 2) - 1] = sep  BY <1>1
  <2>4. ASSUME NEW a \in n + 3 .. n + 1 + m PROVE a # 1 /\ text[a - 1] # sep
    <3>1. a - (n + 2) \in 1 .. m /\ a - 1 = n + 1 + (a - (n + 2)) /\ a # 1  OBVIOUS
    <3>2. PICK j \in 1 .. m : a - 1 = n + 1 + j  BY <3>1
    <3>3. text[a - 1] = item[j] /\ item[j] # sep  BY <1>0, <1>1, <1>9, <3>2
    <3>4. QED  BY <3>1, <3>3
  <2>5. n + 2 \in 1 .. n + 1 + m  BY <1>0
  <2>6. \A a \in 1 .. n + 1 + m : a \in 1 .. n \/ a = n + 1 \/ a = n + 2 \/ a \in n + 3 .. n + 1 + m
    OBVIOUS
  <2>7. \A a \in 1 .. n : a \in 1 .. n + 1 + m  OBVIOUS
  <2>8. Starts(front, sep) = {a \in 1 .. n : a = 1 \/ front[a - 1] = sep}  BY <1>0 DEF Starts
  <2>9. Starts(text, sep) = {a \in 1 .. n + 1 + m : a = 1 \/ text[a - 1] = sep}  BY <1>1 DEF Starts
  <2>10. QED  BY <2>1, <2>2, <2>3, <2>4, <2>5, <2>6, <2>7, <2>8, <2>9
<1>4. Getline(text, sep, n + 2) = item
  <2>1. Ends(text, sep, n + 2, n + 2 + m)
    <3>1. ASSUME NEW i \in n + 2 .. (n + 2 + m) - 1 PROVE text[i] # sep
      <4>1. i - (n + 1) \in 1 .. m /\ i = n + 1 + (i - (n + 1))  OBVIOUS
      <4>2. PICK j \in 1 .. m : i = n + 1 + j  BY <4>1
      <4>3. text[i] = item[j] /\ item[j] # sep  BY <1>0, <1>1, <1>9, <4>2
      <4>4. QED  BY <4>3
    <3>2. n + 2 + m = Len(text) + 1 /\ n + 2 + m \in n + 2 .. Len(text) + 1
      <4>1. PICK k \in Nat : k = Len(text) /\ k = n + 1 + m  BY <1>1
      <4>2. QED  BY <4>1
    <3>3. QED  BY <3>1, <3>2 DEF Ends
  <2>2. n + 2 \in 1 .. Len(text)  BY <1>0, <1>1
  <2>3. End(text, sep, n + 2) = n + 2 + m  BY <1>1, <2>1, <2>2, EndIs
  <2>4. SubSeq(text, (n + 1) + 1, (n + 1) + Len(item)) = item
    <3>1. (n + 1) + Len(item) <= Len(text) /\ \A i \in 1 .. Len(item) : text[(n + 1) + i] = item[i]
      BY <1>0, <1>1
    <3>2. text \in Seq(T) /\ n + 1 \in Nat  BY <1>1
    <3>3. QED  BY <3>1, <3>2, Cut
  <2>5. (n + 1) + 1 = n + 2 /\ (n + 1) + Len(item) = (n + 2 + m) - 1  BY <1>0
  <2>6. QED  BY <2>3, <2>4, <2>5 DEF Getline
<1>5. ASSUME NEW a \in Starts(front, sep) PROVE Getline(text, sep, a) = Getline(front, sep, a)
  <2>1. a \in 1 .. n /\ a \in 1 .. Len(front)  BY <1>0 DEF Starts
  <2>2. PICK b : b = End(front, sep, a) /\ Ends(front, sep, a, b)  BY <2>1, EndExists
  <2>3. b \in a .. n + 1  BY <1>0, <2>1, <2>2 DEF Ends
  <2>4. Ends(text, sep, a, b)
    <3>1. (\A i \in a .. b - 1 : i \in 1 .. n) /\ (b = n + 1 \/ b \in 1 .. n)  BY <2>1, <2>3
    <3>2. (b = n + 1 \/ front[b] = sep) /\ \A i \in a .. b - 1 : front[i] # sep  BY <1>0, <2>2 DEF Ends
    <3>3. text[b] = sep  BY <1>1, <3>1, <3>2
    <3>4. \A i \in a .. b - 1 : text[i] # sep  BY <1>1, <3>1, <3>2
    <3>5. b \in a .. Len(text) + 1  BY <1>1, <2>1, <2>3
    <3>6. QED  BY <3>3, <3>4, <3>5 DEF Ends
  <2>5. a \in 1 .. Len(text)  BY <1>1, <2>1
  <2>6. End(text, sep, a) = b  BY <1>1, <2>4, <2>5, EndIs
  <2>7. /\ a \in Nat /\ b - 1 \in Nat /\ 1 <= a /\ a <= (b - 1) + 1 /\ b - 1 <= Len(text) /\ b - 1 <= Len(front)
        /\ \A i \in a .. b - 1 : text[i] = front[i]
    <3>1. a \in Nat /\ b - 1 \in Nat /\ 1 <= a /\ a <= (b - 1) + 1 /\ b - 1 <= n  BY <2>1, <2>3
    <3>2. n <= Len(text) /\ n = Len(front) /\ Len(text) \in Nat  BY <1>0, <1>1
    <3>3. \A i \in a .. b - 1 : i \in 1 .. n  BY <2>1, <2>3
    <3>4. \A i \in a .. b - 1 : text[i] = front[i]  BY <1>1, <3>3
    <3>5. QED  BY <3>1, <3>2, <3>4
  <2>8. SubSeq(text, a, b - 1) = SubSeq(front, a, b - 1)  BY <1>1, <2>7, SamePart
  <2>9. QED  BY <2>2, <2>6, <2>8 DEF Getline
<1>6. {Getline(text, sep, a) : a \in Starts(text, sep)} = {Getline(front, sep, a) : a \in Starts(front, sep)} \cup {item}
  BY <1>3, <1>4, <1>5
<1>7. QED  BY <1>2, <1>6, <1>9 DEF split

\* What join computes: out[n] is the text after n items.
Outs(v, sep, out, k) ==
  out = [n \in 0 .. k |-> IF n = 0 THEN << >>
                          ELSE IF n = 1 THEN v[1] ELSE out[n - 1] \o << sep >> \o v[n]]

\* The recursive function of join is defined for every number of items.
LEMMA JoinComputes ==
  ASSUME NEW v, Len(v) \in Nat, NEW sep
  PROVE  \E out : Outs(v, sep, out, Len(v)) /\ join(v, sep) = out[Len(v)]
<1> DEFINE S == {k \in Nat : \E out : Outs(v, sep, out, k)}
<1>1. 0 \in S
  <2>1. Outs(v, sep, [n \in 0 .. 0 |-> << >>], 0)  BY DEF Outs
  <2>2. QED  BY <2>1
<1>2. ASSUME NEW k \in Nat, k \in S PROVE k + 1 \in S
  <2>1. PICK f : Outs(v, sep, f, k)  BY <1>2
  <2> DEFINE newest == IF k = 0 THEN v[1] ELSE f[k] \o << sep >> \o v[k + 1]
             g == [n \in 0 .. k + 1 |-> IF n = k + 1 THEN newest ELSE f[n]]
  <2>2. ASSUME NEW n \in 0 .. k + 1
        PROVE  g[n] = IF n = 0 THEN << >> ELSE IF n = 1 THEN v[1] ELSE g[n - 1] \o << sep >> \o v[n]
    <3>1. CASE n = k + 1
      <4>1. g[n] = newest  BY <3>1
      <4>2. CASE k = 0  BY <3>1, <4>1, <4>2
      <4>3. CASE k # 0
        <5>1. n - 1 = k /\ k \in 0 .. k + 1 /\ k # k + 1 /\ n # 0 /\ n # 1  BY <3>1, <4>3
        <5>2. g[n - 1] = f[k]  BY <5>1
        <5>3. QED  BY <3>1, <4>1, <4>3, <5>1, <5>2
      <4>4. QED  BY <4>2, <4>3
    <3>2. CASE n # k + 1
      <4>1. n \in 0 .. k /\ g[n] = f[n]  BY <3>2
      <4>2. f[n] = IF n = 0 THEN << >> ELSE IF n = 1 THEN v[1] ELSE f[n - 1] \o << sep >> \o v[n]
        BY <2>1, <4>1 DEF Outs
      <4>3. n # 0 => n - 1 \in 0 .. k + 1 /\ n - 1 # k + 1  BY <4>1
      <4>4. n # 0 => g[n - 1] = f[n - 1]  BY <4>3
      <4>5. QED  BY <4>1, <4>2, <4>4
    <3>3. QED  BY <3>1, <3>2
  <2>3. Outs(v, sep, g, k + 1)
    <3>1. g = [n \in 0 .. k + 1 |-> g[n]]  OBVIOUS
    <3> HIDE DEF g
    <3>2. QED  BY <2>2, <3>1 DEF Outs
  <2>4. QED  BY <2>3
<1>3. Len(v) \in S
  <2> HIDE DEF S
  <2>1. QED  BY <1>1, <1>2, Induction
<1>4. PICK g : Outs(v, sep, g, Len(v))  BY <1>3
<1>5. QED  BY <1>4 DEF join, Outs

\* split() gives back the items that join() has put together, if they are
\* not empty and have no separator in them.
LEMMA JoinSplit ==
  ASSUME NEW T, NEW sep, NEW v \in Seq(Seq(T)),
         \A i \in 1 .. Len(v) : Item(v[i], sep)
  PROVE  /\ join(v, sep) \in Seq(T \cup {sep})
         /\ split(join(v, sep), sep) = {v[i] : i \in 1 .. Len(v)}
<1>u. PICK U : U = T \cup {sep}  OBVIOUS
<1>0. Len(v) \in Nat /\ \A i \in 1 .. Len(v) : v[i] \in Seq(U)
  <2>1. \A i \in 1 .. Len(v) : v[i] \in Seq(T)  OBVIOUS
  <2>2. QED  BY <2>1, <1>u
<1>9. sep \in U  BY <1>u
<1>1. PICK out : Outs(v, sep, out, Len(v)) /\ join(v, sep) = out[Len(v)]  BY <1>0, JoinComputes
<1> DEFINE Good(k) == /\ out[k] \in Seq(U) /\ split(out[k], sep) = {v[i] : i \in 1 .. k}
                      /\ k > 0 => Closed(out[k], sep)
           S == {k \in Nat : k <= Len(v) => Good(k)}
<1>2. 0 \in S
  <2>1. out[0] = << >>  BY <1>0, <1>1 DEF Outs
  <2>2. split(<< >>, sep) = {}  BY DEF split, Starts
  <2>3. {v[i] : i \in 1 .. 0} = {} /\ << >> \in Seq(U)  OBVIOUS
  <2>4. Good(0)  BY <2>1, <2>2, <2>3
  <2> HIDE DEF Good
  <2>5. QED  BY <2>4
<1>3. ASSUME NEW k \in Nat, k \in S PROVE k + 1 \in S
  <2>1. SUFFICES ASSUME k + 1 <= Len(v) PROVE Good(k + 1)  OBVIOUS
  <2>2. Good(k)  BY <1>0, <1>3, <2>1
  <2>3. k + 1 \in 1 .. Len(v) /\ k + 1 \in 0 .. Len(v) /\ k + 1 # 0 /\ (k + 1) - 1 = k  BY <1>0, <2>1
  <2>4. v[k + 1] \in Seq(U) /\ Item(v[k + 1], sep)
    BY <1>0, <2>3
  <2>5. {v[i] : i \in 1 .. k + 1} = {v[i] : i \in 1 .. k} \cup {v[k + 1]}
    <3>1. \A i : i \in 1 .. k + 1 <=> i \in 1 .. k \/ i = k + 1  OBVIOUS
    <3>2. QED  BY <3>1
  <2>6. CASE k = 0
    <3>1. out[k + 1] = v[k + 1]  BY <1>1, <2>3, <2>6 DEF Outs
    <3>2. split(v[k + 1], sep) = {v[k + 1]} /\ Closed(v[k + 1], sep)  BY <2>4, OneItem
    <3>3. {v[i] : i \in 1 .. k} = {}  BY <2>6
    <3>4. QED  BY <2>4, <2>5, <3>1, <3>2, <3>3
  <2>7. CASE k # 0
    <3>0. k + 1 # 1  BY <2>7
    <3>1. out[k + 1] = out[k] \o << sep >> \o v[k + 1]  BY <1>1, <2>3, <3>0 DEF Outs
    <3>2. PICK f \in Seq(U) : /\ f = out[k] /\ Closed(f, sep)
                              /\ split(f, sep) = {v[i] : i \in 1 .. k}
      BY <2>2, <2>7
    <3>3. PICK w \in Seq(U) : w = v[k + 1] /\ Item(w, sep)  BY <2>4
    <3>4. PICK x : x = out[k + 1]  OBVIOUS
    <3>5. x = f \o << sep >> \o w  BY <3>1, <3>2, <3>3, <3>4
    <3>6. x \in Seq(U) /\ Glued(x, f, sep, w)  BY <1>9, <3>5, Glue
    <3>7. Closed(x, sep) /\ split(x, sep) = split(f, sep) \cup {w}
      BY <1>9, <3>2, <3>3, <3>6, ItemAdded
    <3>8. QED  BY <2>5, <3>2, <3>3, <3>4, <3>6, <3>7
  <2>8. QED  BY <2>6, <2>7
<1>4. Len(v) \in S
  <2> HIDE DEF S
  <2>1. QED  BY <1>0, <1>2, <1>3, Induction
<1>5. Good(Len(v))
  <2>1. Len(v) <= Len(v)  BY <1>0
  <2> HIDE DEF Good
  <2>2. QED  BY <1>4, <2>1
<1>6. QED  BY <1>1, <1>5, <1>u

---------------------------------------------------------------------------
\* The name of a field.
Named(T, k) == Word(k) \in T /\ EQ \in T /\ NL \in T /\ Word(k) # EQ /\ Word(k) # NL /\ EQ # NL

\* The line of a field.
LEMMA FieldLine ==
  ASSUME NEW T, NEW k, Named(T, k), NEW val, Plain(T, val)
  PROVE  LET l == << Word(k), EQ >> \o val IN
         /\ Plain(T, l) /\ Equals(l) = 2
         /\ SubSeq(l, 1, Equals(l) - 1) = << Word(k) >>
         /\ SubSeq(l, Equals(l) + 1, Len(l)) = val
<1>0. PICK n \in Nat : n = Len(val)  BY DEF Plain
<1>1. PICK w \in T, e \in T : w = Word(k) /\ e = EQ /\ w # e /\ w # NL /\ e # NL  BY DEF Named
<1>2. PICK h \in Seq(T) : h = << w, e >> /\ Len(h) = 2 /\ h[1] = w /\ h[2] = e
  <2>1. << w, e >> \in Seq(T) /\ Len(<< w, e >>) = 2 /\ << w, e >>[1] = w /\ << w, e >>[2] = e
    OBVIOUS
  <2>2. QED  BY <2>1
<1>3. val \in Seq(T) /\ \A i \in 1 .. n : val[i] # NL  BY <1>0 DEF Plain
<1>4. PICK l \in Seq(T) : l = h \o val  BY <1>2, <1>3, Cat
<1>5. /\ Len(l) = Len(h) + Len(val)
      /\ \A i \in 1 .. Len(h) : l[i] = h[i]
      /\ \A i \in 1 .. Len(val) : l[Len(h) + i] = val[i]
  BY <1>2, <1>3, <1>4, Cat
<1>6. Len(l) = 2 + n /\ l[1] = w /\ l[2] = e /\ \A i \in 1 .. n : l[2 + i] = val[i]
  BY <1>0, <1>2, <1>5
<1>7. Plain(T, l)
  <2>1. ASSUME NEW i \in 1 .. 2 + n PROVE l[i] # NL
    <3>1. CASE i = 1  BY <1>1, <1>6, <3>1
    <3>2. CASE i = 2  BY <1>1, <1>6, <3>2
    <3>3. CASE i > 2
      <4>1. i - 2 \in 1 .. n /\ i = 2 + (i - 2)  BY <3>3
      <4>2. PICK j \in 1 .. n : i = 2 + j  BY <4>1
      <4>3. QED  BY <1>3, <1>6, <4>2
    <3>4. i = 1 \/ i = 2 \/ i > 2  OBVIOUS
    <3>5. QED  BY <3>1, <3>2, <3>3, <3>4
  <2>2. QED  BY <1>6, <2>1 DEF Plain
<1>8. Equals(l) = 2
  <2>1. PICK I : I = {i \in 1 .. Len(l) : l[i] = EQ}  OBVIOUS
  <2>2. 2 \in I /\ 1 \notin I /\ I \subseteq 1 .. Len(l)  BY <1>1, <1>6, <2>1
  <2>3. \A i \in I : i \in Nat /\ 2 <= i  BY <1>6, <2>2
  <2>4. Min(I) = 2
    <3>1. \A x \in I : (\A y \in I : x <= y) => x = 2  BY <2>2, <2>3
    <3>2. QED  BY <2>2, <2>3, <3>1, Zenon DEF Min
  <2>5. QED  BY <2>1, <2>2, <2>4 DEF Equals, SelectInSeq
<1>9. SubSeq(l, 1, 1) = << w >>
  <2>1. SubSeq(l, 1, 1) = [i \in 1 .. 1 |-> l[1 + i - 1]]  BY <1>6
  <2>2. << w >> = [i \in 1 .. 1 |-> w]  OBVIOUS
  <2>3. \A i \in 1 .. 1 : l[1 + i - 1] = w  BY <1>6
  <2>4. QED  BY <2>1, <2>2, <2>3
<1>10. SubSeq(l, 3, Len(l)) = val
  <2>1. 2 + Len(val) <= Len(l) /\ \A i \in 1 .. Len(val) : l[2 + i] = val[i]  BY <1>0, <1>6
  <2>2. SubSeq(l, 2 + 1, 2 + Len(val)) = val  BY <1>3, <2>1, Cut
  <2>3. 2 + 1 = 3 /\ 2 + Len(val) = Len(l)  BY <1>0, <1>6
  <2>4. QED  BY <2>2, <2>3
<1>11. /\ Plain(T, l) /\ Equals(l) = 2
       /\ SubSeq(l, 1, Equals(l) - 1) = << Word(k) >>
       /\ SubSeq(l, Equals(l) + 1, Len(l)) = val
  <2>1. Equals(l) - 1 = 1 /\ Equals(l) + 1 = 3  BY <1>8
  <2>2. QED  BY <1>1, <1>7, <1>8, <1>9, <1>10, <2>1
<1>12. l = << Word(k), EQ >> \o val  BY <1>1, <1>2, <1>4
<1>13. QED  BY <1>11, <1>12

\* A field at the end of a text: its value is read, and the fields before it
\* are read as before.
WithField(text, front, k, val) == text = front \o Line(k, val)

\* The text with a field more has the fields of before and this one.
LEMMA FieldAdded ==
  ASSUME NEW T, NEW front, Whole(T, front), NEW k, Named(T, k), NEW val, Plain(T, val),
         NEW text, WithField(text, front, k, val)
  PROVE  /\ Whole(T, text)
         /\ Fields(text, k) = Fields(front, k) \cup {Len(front) + 1}
         /\ \A key : key # k => Fields(text, key) = Fields(front, key)
         /\ FieldValue(text, Len(front) + 1) = val
         /\ \A a \in Starts(front, NL) : FieldValue(text, a) = FieldValue(front, a)
<1>1. PICK l : l = << Word(k), EQ >> \o val  OBVIOUS
<1>2. /\ Plain(T, l) /\ Equals(l) = 2
      /\ SubSeq(l, 1, Equals(l) - 1) = << Word(k) >>
      /\ SubSeq(l, Equals(l) + 1, Len(l)) = val
  BY <1>1, FieldLine
<1>3. Extended(text, front, l)  BY <1>1 DEF Line, Extended, WithField
<1>4. NL \in T  BY DEF Named
<1>5. PICK p : p = Len(front) + 1  OBVIOUS
<1>6. /\ Whole(T, text)
      /\ Starts(text, NL) = Starts(front, NL) \cup {p}
      /\ Getline(text, NL, p) = l
      /\ \A a \in Starts(front, NL) : Getline(text, NL, a) = Getline(front, NL, a)
  BY <1>2, <1>3, <1>4, <1>5, LineAdded
<1>7. \A key : << Word(k) >> = << Word(key) >> <=> k = key  BY DEF Word
<1>8. ASSUME NEW key
      PROVE  Fields(text, key) = Fields(front, key) \cup {a \in {p} : key = k}
  <2>1. ASSUME NEW a \in Starts(front, NL) PROVE a \in Fields(text, key) <=> a \in Fields(front, key)
    BY <1>6 DEF Fields
  <2>2. p \in Fields(text, key) <=> key = k  BY <1>2, <1>6, <1>7 DEF Fields
  <2>3. Fields(text, key) \subseteq Starts(front, NL) \cup {p} /\ Fields(front, key) \subseteq Starts(front, NL)
    BY <1>6 DEF Fields
  <2>4. p \notin Starts(front, NL)
    <3>1. Len(front) \in Nat  BY DEF Whole
    <3>2. QED  BY <1>5, <3>1 DEF Starts
  <2>5. QED  BY <2>1, <2>2, <2>3, <2>4
<1>9. FieldValue(text, p) = val  BY <1>2, <1>6 DEF FieldValue
<1>10. \A a \in Starts(front, NL) : FieldValue(text, a) = FieldValue(front, a)  BY <1>6 DEF FieldValue
<1>11. Fields(text, k) = Fields(front, k) \cup {p}  BY <1>8
<1>12. \A key : key # k => Fields(text, key) = Fields(front, key)  BY <1>8
<1>13. QED  BY <1>5, <1>6, <1>9, <1>10, <1>11, <1>12

\* A text of whole lines with one field for each key of K, with the values f.
Knows(T, text, K, f) ==
  /\ Whole(T, text)
  /\ \A key \in K : \E a \in Starts(text, NL) : Fields(text, key) = {a} /\ FieldValue(text, a) = f[key]
  /\ \A key : key \notin K => Fields(text, key) = {}

\* A field with a new key is known, and the others still are.
LEMMA KnowsMore ==
  ASSUME NEW T, NEW front, NEW K, NEW f, Knows(T, front, K, f), NEW k, Named(T, k), k \notin K,
         Plain(T, f[k]), NEW text, WithField(text, front, k, f[k])
  PROVE  Knows(T, text, K \cup {k}, f)
<1>1. /\ Whole(T, front)
      /\ \A key \in K : \E a \in Starts(front, NL) :
           Fields(front, key) = {a} /\ FieldValue(front, a) = f[key]
      /\ \A key : key \notin K => Fields(front, key) = {}
  BY DEF Knows
<1>2. /\ Whole(T, text)
      /\ Fields(text, k) = Fields(front, k) \cup {Len(front) + 1}
      /\ \A key : key # k => Fields(text, key) = Fields(front, key)
      /\ FieldValue(text, Len(front) + 1) = f[k]
      /\ \A a \in Starts(front, NL) : FieldValue(text, a) = FieldValue(front, a)
  BY <1>1, FieldAdded
<1>3. \A key : Fields(text, key) \subseteq Starts(text, NL)  BY DEF Fields
<1>4. ASSUME NEW key \in K
      PROVE  \E a \in Starts(text, NL) : Fields(text, key) = {a} /\ FieldValue(text, a) = f[key]
  <2>1. key # k  OBVIOUS
  <2>2. PICK a \in Starts(front, NL) : Fields(front, key) = {a} /\ FieldValue(front, a) = f[key]
    BY <1>1
  <2>3. Fields(text, key) = {a} /\ FieldValue(text, a) = f[key]  BY <1>2, <2>1, <2>2
  <2>4. QED  BY <1>3, <2>3
<1>5. \E a \in Starts(text, NL) : Fields(text, k) = {a} /\ FieldValue(text, a) = f[k]
  <2>1. Fields(text, k) = {Len(front) + 1}  BY <1>1, <1>2
  <2>2. QED  BY <1>2, <1>3, <2>1
<1>6. QED  BY <1>1, <1>2, <1>4, <1>5 DEF Knows

\* Value reads a known field, and every line of it has the value.
LEMMA Known ==
  ASSUME NEW T, NEW text, NEW K, NEW f, Knows(T, text, K, f), NEW key \in K
  PROVE  /\ Fields(text, key) # {} /\ \A a \in Fields(text, key) : FieldValue(text, a) = f[key]
         /\ Value(text, key) = f[key]
<1>1. PICK a \in Starts(text, NL) : Fields(text, key) = {a} /\ FieldValue(text, a) = f[key]  BY DEF Knows
<1>2. a \in Int  BY DEF Starts
<1>3. Max({a}) = a  BY <1>2 DEF Max
<1>4. QED  BY <1>1, <1>3 DEF Value

\* A first line without a field.
LEMMA Header ==
  ASSUME NEW T, NEW w, w \in T, NL \in T, w # NL, w # EQ, NEW f, NEW text, text = << w, NL >>
  PROVE  /\ Knows(T, text, {}, f) /\ 1 \in Starts(text, NL) /\ Getline(text, NL, 1) = << w >>
<1>1. PICK l : l = << w >>  OBVIOUS
<1>2. l \in Seq(T) /\ Len(l) = 1 /\ l[1] = w  BY <1>1
<1>3. Plain(T, l)  BY <1>2 DEF Plain
<1>4. << >> \in Seq(T) /\ Len(<< >>) = 0  OBVIOUS
<1>5. Whole(T, << >>)  BY <1>4 DEF Whole
<1>6. Extended(text, << >>, l)
  <2>1. text = << w >> \o << NL >>  OBVIOUS
  <2>2. text \in Seq(T)  OBVIOUS
  <2>3. text = << >> \o text  BY <2>2
  <2>4. QED  BY <1>1, <2>1, <2>3 DEF Extended
<1>7. Starts(<< >>, NL) = {}  BY <1>4 DEF Starts
<1>8. /\ Whole(T, text) /\ Starts(text, NL) = {1} /\ Getline(text, NL, 1) = l
  <2>1. Len(<< >>) + 1 = 1  BY <1>4
  <2>2. /\ Whole(T, text)
        /\ Starts(text, NL) = Starts(<< >>, NL) \cup {Len(<< >>) + 1}
        /\ Getline(text, NL, Len(<< >>) + 1) = l
    BY <1>3, <1>5, <1>6, LineAdded
  <2>3. QED  BY <1>7, <2>1, <2>2
<1>9. Equals(l) = 0
  <2>1. {i \in 1 .. Len(l) : l[i] = EQ} = {}  BY <1>2
  <2>2. QED  BY <2>1 DEF Equals, SelectInSeq
<1>10. \A key : Fields(text, key) = {}  BY <1>8, <1>9 DEF Fields
<1>11. QED  BY <1>1, <1>8, <1>10 DEF Knows

\* The first line stays when fields are written behind it.
LEMMA HeaderKept ==
  ASSUME NEW T, NEW front, Whole(T, front), NEW k, Named(T, k), NEW val, Plain(T, val),
         NEW text, WithField(text, front, k, val), 1 \in Starts(front, NL)
  PROVE  1 \in Starts(text, NL) /\ Getline(text, NL, 1) = Getline(front, NL, 1)
<1>1. PICK l : l = << Word(k), EQ >> \o val  OBVIOUS
<1>2. Plain(T, l)  BY <1>1, FieldLine
<1>3. Extended(text, front, l)  BY <1>1 DEF Line, Extended, WithField
<1>4. NL \in T  BY DEF Named
<1>5. QED  BY <1>2, <1>3, <1>4, LineAdded

\* The fields of a registry entry.
EntryKeys == {"version", "service", "address", "pubkey", "pid", "endpoints", "description"}
EntryText(f) ==
  Line("version", f["version"]) \o Line("service", f["service"]) \o Line("address", f["address"])
    \o Line("pubkey", f["pubkey"]) \o Line("pid", f["pid"])
    \o Line("endpoints", f["endpoints"]) \o Line("description", f["description"])

\* An empty text has no field.
LEMMA NothingKnown ==
  ASSUME NEW T, NEW f
  PROVE  Knows(T, << >>, {}, f)
<1>1. << >> \in Seq(T) /\ Len(<< >>) = 0  OBVIOUS
<1>2. Starts(<< >>, NL) = {}  BY <1>1 DEF Starts
<1>3. QED  BY <1>1, <1>2 DEF Knows, Whole, Fields

\* A field written to an empty text.
LEMMA FirstField ==
  ASSUME NEW T, NEW k, Named(T, k), NEW val, Plain(T, val)
  PROVE  WithField(Line(k, val), << >>, k, val)
<1>1. PICK l : l = << Word(k), EQ >> \o val  OBVIOUS
<1>2. l \in Seq(T) /\ << NL >> \in Seq(T)  BY <1>1, FieldLine DEF Plain, Named
<1>3. PICK r \in Seq(T) : r = l \o << NL >>  BY <1>2, Cat
<1>4. Line(k, val) = r  BY <1>1, <1>3 DEF Line
<1>5. r = << >> \o r  OBVIOUS
<1>6. QED  BY <1>4, <1>5 DEF WithField

\* The fields of an entry are known, whatever their values of one line are.
LEMMA EntryKnown ==
  ASSUME NEW T, NEW f, \A k \in EntryKeys : Named(T, k) /\ Plain(T, f[k])
  PROVE  Knows(T, EntryText(f), EntryKeys, f)
<1>k. /\ "version" \in EntryKeys /\ "service" \in EntryKeys /\ "address" \in EntryKeys /\ "pubkey" \in EntryKeys
      /\ "pid" \in EntryKeys /\ "endpoints" \in EntryKeys /\ "description" \in EntryKeys
  BY DEF EntryKeys
<1>1. PICK t1 : t1 = Line("version", f["version"])  OBVIOUS
<1>2. PICK t2 : t2 = t1 \o Line("service", f["service"])  OBVIOUS
<1>3. PICK t3 : t3 = t2 \o Line("address", f["address"])  OBVIOUS
<1>4. PICK t4 : t4 = t3 \o Line("pubkey", f["pubkey"])  OBVIOUS
<1>5. PICK t5 : t5 = t4 \o Line("pid", f["pid"])  OBVIOUS
<1>6. PICK t6 : t6 = t5 \o Line("endpoints", f["endpoints"])  OBVIOUS
<1>7. PICK t7 : t7 = t6 \o Line("description", f["description"])  OBVIOUS
<1>8. EntryText(f) = t7  BY <1>1, <1>2, <1>3, <1>4, <1>5, <1>6, <1>7 DEF EntryText
<1>11. Knows(T, t1, {} \cup {"version"}, f)
  <2>1. WithField(t1, << >>, "version", f["version"])  BY <1>k, <1>1, FirstField
  <2>2. QED  BY <1>k, <2>1, NothingKnown, KnowsMore
<1>12. Knows(T, t2, ({} \cup {"version"}) \cup {"service"}, f)
  <2>1. WithField(t2, t1, "service", f["service"])  BY <1>2 DEF WithField
  <2>2. QED  BY <1>k, <1>11, <2>1, KnowsMore
<1>13. Knows(T, t3, {"version", "service"} \cup {"address"}, f)
  <2>0. Knows(T, t2, {"version", "service"}, f)
    <3>1. ({} \cup {"version"}) \cup {"service"} = {"version", "service"}  OBVIOUS
    <3>2. QED  BY <1>12, <3>1
  <2>1. WithField(t3, t2, "address", f["address"])  BY <1>3 DEF WithField
  <2>2. QED  BY <1>k, <2>0, <2>1, KnowsMore
<1>14. Knows(T, t4, {"version", "service", "address"} \cup {"pubkey"}, f)
  <2>0. Knows(T, t3, {"version", "service", "address"}, f)
    <3>1. {"version", "service"} \cup {"address"} = {"version", "service", "address"}  OBVIOUS
    <3>2. QED  BY <1>13, <3>1
  <2>1. WithField(t4, t3, "pubkey", f["pubkey"])  BY <1>4 DEF WithField
  <2>2. QED  BY <1>k, <2>0, <2>1, KnowsMore
<1>15. Knows(T, t5, {"version", "service", "address", "pubkey"} \cup {"pid"}, f)
  <2>0. Knows(T, t4, {"version", "service", "address", "pubkey"}, f)
    <3>1. {"version", "service", "address"} \cup {"pubkey"} = {"version", "service", "address", "pubkey"}  OBVIOUS
    <3>2. QED  BY <1>14, <3>1
  <2>1. WithField(t5, t4, "pid", f["pid"])  BY <1>5 DEF WithField
  <2>2. QED  BY <1>k, <2>0, <2>1, KnowsMore
<1>16. Knows(T, t6, {"version", "service", "address", "pubkey", "pid"} \cup {"endpoints"}, f)
  <2>0. Knows(T, t5, {"version", "service", "address", "pubkey", "pid"}, f)
    <3>1. {"version", "service", "address", "pubkey"} \cup {"pid"}
            = {"version", "service", "address", "pubkey", "pid"}  OBVIOUS
    <3>2. QED  BY <1>15, <3>1
  <2>1. WithField(t6, t5, "endpoints", f["endpoints"])  BY <1>6 DEF WithField
  <2>2. QED  BY <1>k, <2>0, <2>1, KnowsMore
<1>17. Knows(T, t7, (EntryKeys \ {"description"}) \cup {"description"}, f)
  <2>0. Knows(T, t6, EntryKeys \ {"description"}, f)
    <3>1. {"version", "service", "address", "pubkey", "pid"} \cup {"endpoints"} = EntryKeys \ {"description"}
      BY DEF EntryKeys
    <3>2. QED  BY <1>16, <3>1
  <2>1. WithField(t7, t6, "description", f["description"])  BY <1>7 DEF WithField
  <2>2. QED  BY <1>k, <2>0, <2>1, KnowsMore
<1>18. (EntryKeys \ {"description"}) \cup {"description"} = EntryKeys  BY <1>k
<1>19. QED  BY <1>8, <1>17, <1>18

\* What lookup finds in the entry of a process that is alive.
LEMMA EntryFound ==
  ASSUME NEW T, NEW f, NEW text, Knows(T, text, EntryKeys, f), NEW key, NEW pid \in LivePids,
         f["version"] = << Word("1") >>, f["pubkey"] = << key >>, Len(key) = 2, f["pid"] = << pid >>
  PROVE  lookup(text) = [found |-> TRUE, stale |-> FALSE, key |-> << key >>, pid |-> pid,
                         endpoints |-> split(f["endpoints"], <<",">>), description |-> f["description"]]
<1>1. /\ "version" \in EntryKeys /\ "pubkey" \in EntryKeys /\ "pid" \in EntryKeys
      /\ "endpoints" \in EntryKeys /\ "description" \in EntryKeys
  BY DEF EntryKeys
<1>0. \A x \in EntryKeys : /\ \A a \in Fields(text, x) : FieldValue(text, a) = f[x]
                           /\ Value(text, x) = f[x]
  BY Known
<1>2. \A a \in Fields(text, "version") : IsNumber(FieldValue(text, a))
  <2>1. \A a \in Fields(text, "version") : FieldValue(text, a) = f["version"]  BY <1>0, <1>1, Zenon
  <2>2. IsNumber(<< Word("1") >>)
    <3>1. Word("1") \in Numbers  BY TextAssumption
    <3>2. QED  BY <3>1 DEF IsNumber
  <2>3. QED  BY <2>1, <2>2
<1>3. \A a \in Fields(text, "pid") : IsNumber(FieldValue(text, a))
  <2>1. \A a \in Fields(text, "pid") : FieldValue(text, a) = f["pid"]  BY <1>0, <1>1, Zenon
  <2>2. IsNumber(<< pid >>)  BY TextAssumption DEF IsNumber
  <2>3. QED  BY <2>1, <2>2
<1>4. \A a \in Fields(text, "pubkey") : IsKey(FieldValue(text, a))
  <2>1. \A a \in Fields(text, "pubkey") : FieldValue(text, a) = f["pubkey"]  BY <1>0, <1>1, Zenon
  <2>2. IsKey(<< key >>)  BY DEF IsKey
  <2>3. QED  BY <2>1, <2>2
<1>5. Value(text, "pid") = << pid >> /\ Value(text, "pubkey") = << key >>  BY <1>0, <1>1
<1>6. Value(text, "endpoints") = f["endpoints"] /\ Value(text, "description") = f["description"]  BY <1>0, <1>1
<1>7. << pid >> # << >> /\ << pid >>[1] = pid  OBVIOUS
<1>8. QED  BY <1>2, <1>3, <1>4, <1>5, <1>6, <1>7 DEF lookup

\* "name:kind" is cut where it was put together, also if the name has a ':'.
LEMMA EndpointRead ==
  ASSUME NEW T, NEW name \in Seq(T), NEW k \in EndpointKind
  PROVE  Endpoint(name \o << Word(":"), kind_to_string(k) >>) = [name |-> name, kind |-> k]
<1>1. PICK U : U = T \cup {Word(":"), kind_to_string(k)}  OBVIOUS
<1>2. PICK c \in U : c = Word(":")  BY <1>1
<1>3. PICK d \in U : d = kind_to_string(k)  BY <1>1
<1>4. d # c  BY <1>2, <1>3 DEF kind_to_string, EndpointKind, Word
<1>5. PICK r \in Seq(U) : r = << c, d >> /\ Len(r) = 2 /\ r[1] = c /\ r[2] = d
  <2>1. << c, d >> \in Seq(U) /\ Len(<< c, d >>) = 2 /\ << c, d >>[1] = c /\ << c, d >>[2] = d  OBVIOUS
  <2>2. QED  BY <2>1
<1>6. name \in Seq(U)  BY <1>1
<1>7. PICK n \in Nat : n = Len(name)  OBVIOUS
<1>8. PICK ep \in Seq(U) : ep = name \o r  BY <1>5, <1>6, Cat
<1>9. /\ Len(ep) = Len(name) + Len(r)
      /\ \A i \in 1 .. Len(name) : ep[i] = name[i]
      /\ \A i \in 1 .. Len(r) : ep[Len(name) + i] = r[i]
  BY <1>5, <1>6, <1>8, Cat
<1>10. Len(ep) = n + 2 /\ ep[n + 1] = c /\ ep[n + 2] = d /\ \A i \in 1 .. n : ep[i] = name[i]
  BY <1>5, <1>7, <1>9
<1>11. SelectLastInSeq(ep, LAMBDA x : x = <<":">>) = n + 1
  <2>1. PICK I : I = {i \in 1 .. Len(ep) : ep[i] = <<":">>}  OBVIOUS
  <2>2. <<":">> = c  BY <1>2 DEF Word
  <2>3. n + 1 \in I /\ n + 2 \notin I /\ I \subseteq 1 .. n + 2  BY <1>4, <1>10, <2>1, <2>2
  <2>4. \A i \in I : i \in Nat /\ i <= n + 1  BY <2>3
  <2>5. Max(I) = n + 1
    <3>1. \A x \in I : (\A y \in I : y <= x) => x = n + 1  BY <2>3, <2>4
    <3>2. \A y \in I : n + 1 >= y  BY <2>4
    <3>3. \A x \in I : (\A y \in I : x >= y) => x = n + 1  BY <2>3, <2>4
    <3>4. QED  BY <2>3, <3>2, <3>3, Zenon DEF Max
  <2>6. QED  BY <2>1, <2>3, <2>5 DEF SelectLastInSeq
<1>12. SubSeq(ep, 1, (n + 1) - 1) = name
  <2>1. 0 + Len(name) <= Len(ep) /\ \A i \in 1 .. Len(name) : ep[0 + i] = name[i]  BY <1>7, <1>10
  <2>2. SubSeq(ep, 0 + 1, 0 + Len(name)) = name  BY <2>1, Cut
  <2>3. 0 + 1 = 1 /\ 0 + Len(name) = (n + 1) - 1  BY <1>7
  <2>4. QED  BY <2>2, <2>3
<1>13. SubSeq(ep, (n + 1) + 1, Len(ep)) = << d >>
  <2>1. PICK q \in Seq(U) : q = << d >> /\ Len(q) = 1 /\ q[1] = d
    <3>1. << d >> \in Seq(U) /\ Len(<< d >>) = 1 /\ << d >>[1] = d  OBVIOUS
    <3>2. QED  BY <3>1
  <2>2. (n + 1) + Len(q) <= Len(ep) /\ \A i \in 1 .. Len(q) : ep[(n + 1) + i] = q[i]
    <3>1. (n + 1) + Len(q) <= Len(ep)  BY <1>10, <2>1
    <3>2. ASSUME NEW i \in 1 .. Len(q) PROVE ep[(n + 1) + i] = q[i]
      <4>1. i = 1 /\ (n + 1) + i = n + 2  BY <2>1
      <4>2. QED  BY <1>10, <2>1, <4>1
    <3>3. QED  BY <3>1, <3>2
  <2>3. n + 1 \in Nat  OBVIOUS
  <2>4. SubSeq(ep, (n + 1) + 1, (n + 1) + Len(q)) = q  BY <2>2, <2>3, Cut
  <2>5. (n + 1) + Len(q) = Len(ep)  BY <1>10, <2>1
  <2>6. QED  BY <2>1, <2>4, <2>5
<1>14. {x \in EndpointKind : << d >> = << kind_to_string(x) >>} = {k}
  <2>1. \A x \in EndpointKind : kind_to_string(x) = kind_to_string(k) => x = k
    BY DEF kind_to_string, EndpointKind
  <2>2. QED  BY <1>3, <2>1
<1>15. (CHOOSE x \in {k} : TRUE) = k  OBVIOUS
<1>16. Endpoint(ep) = [name |-> name, kind |-> k]
  <2>1. n + 1 # 0 /\ {k} # {}  OBVIOUS
  <2>2. QED  BY <1>11, <1>12, <1>13, <1>14, <1>15, <2>1 DEF Endpoint
<1>17. QED  BY <1>2, <1>3, <1>5, <1>8, <1>16

\* SetToSeq lists every element.
LEMMA Listed ==
  ASSUME NEW S, IsFiniteSet(S)
  PROVE  /\ SetToSeq(S) \in Seq(S) /\ Len(SetToSeq(S)) \in Nat /\ DOMAIN SetToSeq(S) = 1 .. Len(SetToSeq(S))
         /\ \A x \in S : \E i \in 1 .. Len(SetToSeq(S)) : SetToSeq(S)[i] = x
<1>1. PICK n \in Nat : n = Cardinality(S)  BY FS_CardinalityType
<1>2. \E g \in [1 .. n -> S] : IsInjective(g)
  BY <1>1, FS_CardinalityType DEF ExistsBijection, Bijection, Injection
<1>3. PICK q : q = SetToSeq(S) /\ q \in [1 .. n -> S] /\ IsInjective(q)
  BY <1>1, <1>2 DEF SetToSeq
<1>4. q \in Injection(1 .. n, S)  BY <1>3 DEF Injection
<1>5. Cardinality(1 .. n) = n  BY FS_Interval
<1>6. q \in Surjection(1 .. n, S)  BY <1>1, <1>4, <1>5, FS_Injection
<1>7. q \in Seq(S) /\ Len(q) = n /\ DOMAIN q = 1 .. n  BY <1>3
<1>8. QED  BY <1>3, <1>6, <1>7 DEF Surjection

\* The text that publish_registry makes of a host's key, endpoints and
\* description, and the items in it.
EndpointItem(handlers, n) == n \o << Word(":"), kind_to_string(handlers[n]) >>
Items(handlers) ==
  LET names == SetToSeq(DOMAIN handlers) IN [i \in DOMAIN names |-> EndpointItem(handlers, names[i])]
EntryFields(key, handlers, description) ==
  [version |-> << Word("1") >>, service |-> << Word("s") >>, address |-> << Word("sock") >>,
   pubkey |-> << key >>, pid |-> << Self >>, endpoints |-> join(Items(handlers), Word(",")),
   description |-> description]

\* publish_registry writes these fields.
LEMMA PublishedText ==
  ASSUME NEW h
  PROVE  publish_registry(h) = EntryText(EntryFields(host[h].key, host[h].handlers, host[h].description))
  BY DEF publish_registry, publish, EntryText, EntryFields, Items, EndpointItem, Word


\* Two tokens.
LEMMA Pair ==
  ASSUME NEW T, NEW c \in T, NEW d \in T
  PROVE  << c, d >> \in Seq(T) /\ Len(<< c, d >>) = 2 /\ << c, d >>[1] = c /\ << c, d >>[2] = d
  OBVIOUS

\* No token of a text is c.
Without(text, c) == \A i \in 1 .. Len(text) : text[i] # c

\* A text without a separator and two tokens behind it make an item.
LEMMA PairBehind ==
  ASSUME NEW T, NEW n \in Seq(T), NEW c \in T, NEW d \in T, NEW s, c # s, d # s, Without(n, s)
  PROVE  n \o << c, d >> \in Seq(T) /\ Item(n \o << c, d >>, s)
<1>6. PICK r \in Seq(T) : r = << c, d >> /\ Len(r) = 2 /\ r[1] = c /\ r[2] = d
  <2>1. << c, d >> \in Seq(T) /\ Len(<< c, d >>) = 2 /\ << c, d >>[1] = c /\ << c, d >>[2] = d  BY Pair
  <2>2. QED  BY <2>1
<1>9. /\ n \o r \in Seq(T) /\ Len(n \o r) = Len(n) + Len(r) /\ Len(n) \in Nat
      /\ \A i \in 1 .. Len(n) : (n \o r)[i] = n[i]
      /\ \A i \in 1 .. Len(r) : (n \o r)[Len(n) + i] = r[i]
  BY Cat
<1>10. Item(n \o r, s)
  <2>1. PICK m \in Nat, x \in Seq(T) : m = Len(n) /\ x = n \o r  BY <1>9
  <2>2. Len(x) = m + 2 /\ x[m + 1] = c /\ x[m + 2] = d /\ \A i \in 1 .. m : x[i] = n[i]  BY <1>6, <1>9, <2>1
  <2>3. ASSUME NEW i \in 1 .. m + 2 PROVE x[i] # s
    <3>1. i \in 1 .. m \/ i = m + 1 \/ i = m + 2  OBVIOUS
    <3>2. QED  BY <2>1, <2>2, <3>1 DEF Without
  <2>4. x # << >>  BY <2>2
  <2>5. Item(x, s)  BY <2>2, <2>3, <2>4 DEF Item
  <2>6. QED  BY <2>1, <2>5
<1>11. QED  BY <1>6, <1>9, <1>10

\* The tokens include those of the kinds.
KindsIn(T) == \A k \in EndpointKind : kind_to_string(k) \in T

\* "name:kind" has no separator, and is read as it was written.
LEMMA ItemRead ==
  ASSUME NEW T, Word(":") \in T, NEW n \in Seq(T), Without(n, Word(",")), NEW k \in EndpointKind, KindsIn(T)
  PROVE  LET item == n \o << Word(":"), kind_to_string(k) >> IN
         /\ item \in Seq(T) /\ Item(item, Word(","))
         /\ Endpoint(item) = [name |-> n, kind |-> k]
<1>1. PICK c \in T : c = Word(":")  OBVIOUS
<1>3. PICK d \in T : d = kind_to_string(k)  BY DEF KindsIn
<1>4. PICK s : s = Word(",")  OBVIOUS
<1>5. c # s /\ d # s  BY <1>1, <1>3, <1>4 DEF kind_to_string, EndpointKind, Word
<1>6. n \o << c, d >> \in Seq(T) /\ Item(n \o << c, d >>, s)  BY <1>4, <1>5, PairBehind
<1>7. Endpoint(n \o << c, d >>) = [name |-> n, kind |-> k]  BY <1>1, <1>3, EndpointRead
<1>8. QED  BY <1>1, <1>3, <1>4, <1>6, <1>7
\* Endpoints whose names an entry can carry.
Exposed(T, handlers) ==
  /\ IsFiniteSet(DOMAIN handlers)
  /\ \A n \in DOMAIN handlers : n \in Seq(T) /\ Without(n, Word(",")) /\ handlers[n] \in EndpointKind

\* What describe tells of an endpoint.
EndpointOf(handlers, n) == [name |-> n, kind |-> handlers[n]]

\* The same of the endpoint of a host.
LEMMA EndpointItemRead ==
  ASSUME NEW T, Word(":") \in T, KindsIn(T), NEW handlers, Exposed(T, handlers), NEW n \in DOMAIN handlers
  PROVE  /\ EndpointItem(handlers, n) \in Seq(T) /\ Item(EndpointItem(handlers, n), Word(","))
         /\ Endpoint(EndpointItem(handlers, n)) = EndpointOf(handlers, n)
<1>1. PICK k \in EndpointKind : k = handlers[n]  BY DEF Exposed
<1>2. n \in Seq(T) /\ Without(n, Word(","))  BY DEF Exposed
<1>3. PICK item : item = n \o << Word(":"), kind_to_string(k) >>  OBVIOUS
<1>4. item \in Seq(T) /\ Item(item, Word(",")) /\ Endpoint(item) = [name |-> n, kind |-> k]
  BY <1>2, <1>3, ItemRead
<1>5. item = EndpointItem(handlers, n)  BY <1>1, <1>3 DEF EndpointItem
<1>6. QED  BY <1>1, <1>4, <1>5 DEF EndpointOf

\* All endpoints of a host are read from the line that lists them, and no
\* others.
LEMMA ItemsRead ==
  ASSUME NEW T, Word(":") \in T, KindsIn(T), NEW handlers, Exposed(T, handlers)
  PROVE  /\ join(Items(handlers), Word(",")) \in Seq(T \cup {Word(",")})
         /\ {Endpoint(ep) : ep \in split(join(Items(handlers), Word(",")), Word(","))}
              = {EndpointOf(handlers, n) : n \in DOMAIN handlers}
<1>1. PICK N : N = DOMAIN handlers /\ IsFiniteSet(N)  BY DEF Exposed
<1>2. PICK q \in Seq(N) : /\ q = SetToSeq(N) /\ Len(q) \in Nat /\ DOMAIN q = 1 .. Len(q)
                          /\ \A x \in N : \E i \in 1 .. Len(q) : q[i] = x
  BY <1>1, Listed
<1>3. PICK v : v = Items(handlers)  OBVIOUS
<1>4. v = [i \in 1 .. Len(q) |-> EndpointItem(handlers, q[i])]  BY <1>1, <1>2, <1>3 DEF Items
<1>5. \A n \in N : /\ EndpointItem(handlers, n) \in Seq(T) /\ Item(EndpointItem(handlers, n), Word(","))
                   /\ Endpoint(EndpointItem(handlers, n)) = EndpointOf(handlers, n)
  BY <1>1, EndpointItemRead
<1>6. \A i \in 1 .. Len(q) : q[i] \in N  BY <1>2
<1>7. v \in Seq(Seq(T)) /\ Len(v) = Len(q)
  <2>1. \A i \in 1 .. Len(q) : EndpointItem(handlers, q[i]) \in Seq(T)  BY <1>5, <1>6
  <2>2. v \in [1 .. Len(q) -> Seq(T)]  BY <1>4, <2>1
  <2>3. QED  BY <1>2, <2>2
<1>8. \A i \in 1 .. Len(v) : Item(v[i], Word(","))  BY <1>4, <1>5, <1>6, <1>7
<1>9. /\ join(v, Word(",")) \in Seq(T \cup {Word(",")})
      /\ split(join(v, Word(",")), Word(",")) = {v[i] : i \in 1 .. Len(v)}
  BY <1>7, <1>8, JoinSplit
<1>10. {v[i] : i \in 1 .. Len(v)} = {EndpointItem(handlers, n) : n \in N}
  <2>1. \A i \in 1 .. Len(v) : q[i] \in N /\ v[i] = EndpointItem(handlers, q[i])  BY <1>4, <1>6, <1>7
  <2>2. \A n \in N : \E i \in 1 .. Len(v) : v[i] = EndpointItem(handlers, n)  BY <1>2, <1>4, <1>7
  <2>3. QED  BY <2>1, <2>2
<1>11. {Endpoint(ep) : ep \in {EndpointItem(handlers, n) : n \in N}} = {EndpointOf(handlers, n) : n \in N}
  BY <1>5
<1>12. QED  BY <1>1, <1>3, <1>9, <1>10, <1>11

\* A sequence of tokens.
IsText(x) == x \in Seq(ToSet(x))

\* A text is a sequence over every set that has its tokens.
LEMMA Wider ==
  ASSUME NEW x, IsText(x), NEW T, ToSet(x) \subseteq T
  PROVE  x \in Seq(T)
  BY DEF IsText

\* What it is to hold a token.
LEMMA OneLineIs ==
  ASSUME NEW x, IsText(x), NEW c
  PROVE  /\ c \in ToSet(x) <=> Contains(x, c)
         /\ Without(x, c) <=> ~Contains(x, c)
<1>1. DOMAIN x = 1 .. Len(x)  BY DEF IsText
<1>2. ToSet(x) = {x[i] : i \in 1 .. Len(x)}  BY <1>1 DEF ToSet
<1>3. QED  BY <1>2 DEF Without, Contains

\* No word of an entry is a line break, and no key of it is a "=".
LEMMA KindTokens ==
  /\ \A k \in EndpointKind : kind_to_string(k) # NL
  /\ \A w \in EntryKeys : Word(w) # NL /\ Word(w) # EQ
  /\ EQ # NL /\ Word("1") # NL /\ Word("s") # NL /\ Word("sock") # NL /\ Word(":") # NL
  /\ Word(",") # NL /\ Self # NL
  BY DEF kind_to_string, EndpointKind, NL, EQ, Word, EntryKeys, Self

\* A token that is no line break is a text of one line.
LEMMA One ==
  ASSUME NEW T, NEW c \in T, c # NL
  PROVE  Plain(T, << c >>)
<1>1. << c >> \in Seq(T) /\ Len(<< c >>) = 1 /\ << c >>[1] = c  OBVIOUS
<1>2. QED  BY <1>1 DEF Plain

\* The endpoints and the description of a host, as texts of one line.
Presentable(handlers, description) ==
  /\ IsFiniteSet(DOMAIN handlers)
  /\ \A n \in DOMAIN handlers :
       IsText(n) /\ handlers[n] \in EndpointKind /\ OneLine(n) /\ ~Contains(n, Word(","))
  /\ IsText(description) /\ OneLine(description)

\* The tokens of names of one line.
LEMMA PresentableTokens ==
  ASSUME NEW handlers, NEW description, Presentable(handlers, description)
  PROVE  \E T : NL \notin T /\ Word(":") \in T /\ KindsIn(T) /\ Exposed(T, handlers)
<1>1. PICK N : N = UNION {ToSet(n) : n \in DOMAIN handlers}  OBVIOUS
<1>2. PICK T : T = N \cup {Word(":")} \cup {kind_to_string(k) : k \in EndpointKind}  OBVIOUS
<1>3. NL \notin N
  <2>1. \A n \in DOMAIN handlers : NL \notin ToSet(n)  BY OneLineIs DEF Presentable, OneLine
  <2>2. QED  BY <1>1, <2>1
<1>4. NL \notin T  BY <1>2, <1>3, KindTokens
<1>5. Word(":") \in T /\ KindsIn(T)  BY <1>2 DEF KindsIn
<1>6. Exposed(T, handlers)
  <2>1. ASSUME NEW n \in DOMAIN handlers PROVE n \in Seq(T) /\ Without(n, Word(","))
    <3>1. ToSet(n) \subseteq T  BY <1>1, <1>2
    <3>2. QED  BY <3>1, Wider, OneLineIs DEF Presentable
  <2>2. QED  BY <2>1 DEF Presentable, Exposed
<1>7. QED  BY <1>4, <1>5, <1>6

\* What describe tells of a host.
Told(key, handlers, description) ==
  [description |-> description, pid |-> Self, key |-> << key >>,
   endpoints |-> {EndpointOf(handlers, n) : n \in DOMAIN handlers}]

\* lookup finds the entry of a host, and describe tells from it what the
\* host has exposed (registry.cpp:58-80, 166-188).
LEMMA EntryRead ==
  ASSUME NEW key, Len(key) = 2, NEW handlers, NEW description, Presentable(handlers, description),
         NEW text, text = EntryText(EntryFields(key, handlers, description))
  PROVE  /\ lookup(text).found /\ ~lookup(text).stale
         /\ describe(lookup(text)) = Told(key, handlers, description)
<1>1. PICK S : NL \notin S /\ Word(":") \in S /\ KindsIn(S) /\ Exposed(S, handlers)  BY PresentableTokens
<1>2. PICK eps : eps = join(Items(handlers), Word(","))  OBVIOUS
<1>3. /\ eps \in Seq(S \cup {Word(",")})
      /\ {Endpoint(ep) : ep \in split(eps, Word(","))} = {EndpointOf(handlers, n) : n \in DOMAIN handlers}
  BY <1>1, <1>2, ItemsRead
<1>4. PICK T : T = S \cup {Word(",")} \cup {Word(w) : w \in EntryKeys \cup {"1", "s", "sock"}}
                     \cup {EQ, NL, key, Self} \cup ToSet(description)
  OBVIOUS
<1>5. PICK f : f = EntryFields(key, handlers, description)  OBVIOUS
<1>6. /\ f["version"] = << Word("1") >> /\ f["service"] = << Word("s") >> /\ f["address"] = << Word("sock") >>
      /\ f["pubkey"] = << key >> /\ f["pid"] = << Self >> /\ f["endpoints"] = eps /\ f["description"] = description
  BY <1>2, <1>5 DEF EntryFields
<1>7. key # NL
  <2>1. Len(NL) = 1  BY DEF NL
  <2>2. QED  BY <2>1
<1>8. ASSUME NEW k \in EntryKeys PROVE Named(T, k)
  <2>1. Word(k) \in T /\ EQ \in T /\ NL \in T  BY <1>4
  <2>2. QED  BY <2>1, KindTokens DEF Named
<1>9. /\ Plain(T, f["version"]) /\ Plain(T, f["service"]) /\ Plain(T, f["address"])
      /\ Plain(T, f["pubkey"]) /\ Plain(T, f["pid"])
  <2>1. Word("1") \in T /\ Word("s") \in T /\ Word("sock") \in T /\ key \in T /\ Self \in T  BY <1>4
  <2>2. QED  BY <1>6, <1>7, <2>1, KindTokens, One
<1>10. Plain(T, f["endpoints"])
  <2>1. PICK U : U = S \cup {Word(",")}  OBVIOUS
  <2>2. NL \notin U /\ U \subseteq T  BY <1>1, <1>4, <2>1, KindTokens
  <2>3. eps \in Seq(U)  BY <1>3, <2>1
  <2>4. \A i \in 1 .. Len(eps) : eps[i] # NL  BY <2>2, <2>3
  <2>5. eps \in Seq(T)  BY <2>2, <2>3
  <2>6. QED  BY <1>6, <2>4, <2>5 DEF Plain
<1>11. Plain(T, f["description"])
  <2>1. description \in Seq(T)
    <3>1. ToSet(description) \subseteq T  BY <1>4
    <3>2. QED  BY <3>1, Wider DEF Presentable
  <2>2. Without(description, NL)  BY OneLineIs DEF Presentable, OneLine
  <2>3. QED  BY <1>6, <2>1, <2>2 DEF Plain, Without
<1>12. \A k \in EntryKeys : Named(T, k) /\ Plain(T, f[k])  BY <1>8, <1>9, <1>10, <1>11 DEF EntryKeys
<1>13. Knows(T, text, EntryKeys, f)  BY <1>5, <1>12, EntryKnown
<1>14. Self \in LivePids  BY CApiAssumption
<1>15. lookup(text) = [found |-> TRUE, stale |-> FALSE, key |-> << key >>, pid |-> Self,
                       endpoints |-> split(eps, <<",">>), description |-> description]
  <2>1. f["version"] = << Word("1") >> /\ f["pubkey"] = << key >> /\ f["pid"] = << Self >>  BY <1>6
  <2>2. lookup(text) = [found |-> TRUE, stale |-> FALSE, key |-> << key >>, pid |-> Self,
                        endpoints |-> split(f["endpoints"], <<",">>), description |-> f["description"]]
    BY <2>1, <1>13, <1>14, EntryFound, ZenonT(40)
  <2>3. QED  BY <1>6, <2>2
<1>16. split(eps, <<",">>) = split(eps, Word(","))  BY DEF Word
<1>17. PICK r, sp : r = lookup(text) /\ sp = split(eps, Word(","))  OBVIOUS
<1>18. /\ r.found /\ ~r.stale /\ r.key = << key >> /\ r.pid = Self
       /\ r.endpoints = sp /\ r.description = description
  <2>1. PICK k1 : k1 = << key >>  OBVIOUS
  <2>2. r = [found |-> TRUE, stale |-> FALSE, key |-> k1, pid |-> Self, endpoints |-> sp,
             description |-> description]
    BY <1>15, <1>16, <1>17, <2>1
  <2>3. r.found = TRUE /\ r.stale = FALSE  BY <2>2, Zenon
  <2>4. r.key = k1 /\ r.pid = Self /\ r.endpoints = sp /\ r.description = description  BY <2>2
  <2>5. QED  BY <2>1, <2>3, <2>4
<1>19. describe(r) = [description |-> description, pid |-> Self, key |-> << key >>,
                      endpoints |-> {Endpoint(ep) : ep \in sp}]
  BY <1>18 DEF describe
<1>20. {Endpoint(ep) : ep \in sp} = {EndpointOf(handlers, n) : n \in DOMAIN handlers}  BY <1>3, <1>17
<1>21. describe(r) = Told(key, handlers, description)  BY <1>19, <1>20 DEF Told
<1>22. QED  BY <1>17, <1>18, <1>21

\* The value of a field is a part of the text.
LEMMA ValueTokens ==
  ASSUME NEW T, NEW text \in Seq(T), NEW key
  PROVE  Value(text, key) \in Seq(T)
<1>1. CASE Fields(text, key) = {}  BY <1>1 DEF Value
<1>2. CASE Fields(text, key) # {}
  <2>0. PICK n \in Nat : n = Len(text)  OBVIOUS
  <2>1. PICK F : F = Fields(text, key) /\ F # {} /\ F \subseteq 1 .. n
    BY <1>2, <2>0 DEF Fields, Starts
  <2>2. PICK a \in F : \A b \in F : a >= b
    <3>1. PICK S : S = {n - b : b \in F}  OBVIOUS
    <3>2. S \subseteq Nat /\ S # {}  BY <2>1, <3>1
    <3>3. PICK m \in S : \A k \in S : m <= k  BY <3>2, Least
    <3>4. PICK a \in F : m = n - a  BY <3>1, <3>3
    <3>5. ASSUME NEW b \in F PROVE a >= b
      <4>1. n - b \in S  BY <3>1
      <4>2. n - a <= n - b  BY <3>3, <3>4, <4>1
      <4>3. QED  BY <2>1, <4>2
    <3>6. QED  BY <3>5
  <2>3. PICK c : c = Max(F) /\ c \in F
    <3>1. \E x \in F : \A y \in F : x >= y  BY <2>2
    <3>2. Max(F) \in F  BY <3>1, Zenon DEF Max
    <3>3. QED  BY <3>2
  <2>4. c \in 1 .. Len(text)  BY <2>0, <2>1, <2>3
  <2>5. PICK e : e = End(text, NL, c) /\ Ends(text, NL, c, e)  BY <2>4, EndExists
  <2>6. e - 1 \in Nat /\ e - 1 <= n /\ c \in Nat /\ 1 <= c  BY <2>0, <2>4, <2>5 DEF Ends
  <2>7. PICK l \in Seq(T) : l = Getline(text, NL, c)  BY <2>0, <2>5, <2>6, PartTokens DEF Getline
  <2>8. PICK j \in 1 .. Len(l) : j = Equals(l)
    <3>1. Equals(l) # 0  BY <2>1, <2>3, <2>7 DEF Fields
    <3>2. PICK I : I = {i \in 1 .. Len(l) : l[i] = EQ}  OBVIOUS
    <3>3. I # {} /\ Equals(l) = Min(I)  BY <3>1, <3>2 DEF Equals, SelectInSeq
    <3>4. I \subseteq Nat  BY <3>2
    <3>5. \E x \in I : \A y \in I : x <= y  BY <3>3, <3>4, Least
    <3>6. Min(I) \in I  BY <3>5, Zenon DEF Min
    <3>7. QED  BY <3>2, <3>3, <3>6
  <2>9. FieldValue(text, c) = SubSeq(l, j + 1, Len(l))  BY <2>7, <2>8 DEF FieldValue
  <2>10. Len(l) \in Nat /\ j + 1 \in Nat /\ 1 <= j + 1 /\ Len(l) <= Len(l)  OBVIOUS
  <2>11. SubSeq(l, j + 1, Len(l)) \in Seq(T)  BY <2>10, PartTokens
  <2>12. QED  BY <1>2, <2>1, <2>3, <2>9, <2>11 DEF Value
<1>3. QED  BY <1>1, <1>2

\* What is signed tells credentials apart.
LEMMA SignedApart ==
  ASSUME NEW c, NEW m, NEW T, c.scope \in Seq(T), m.scope \in Seq(T), Signature(c) = Signature(m)
  PROVE  c.peer = m.peer /\ c.issuer = m.issuer /\ c.expires = m.expires /\ c.scope = m.scope
<1>1. signed_bytes(c) = signed_bytes(m)
  <2>1. PICK s1, s2, i1, i2 : s1 = signed_bytes(c) /\ s2 = signed_bytes(m) /\ i1 = c.issuer /\ i2 = m.issuer  OBVIOUS
  <2>2. <<"sig", i1, s1>> = <<"sig", i2, s2>>  BY <2>1 DEF Signature
  <2>3. s1 = s2  BY <2>2
  <2>4. QED  BY <2>1, <2>3
<1>2. PICK U, w : w = <<"EPX-credential-v1">>
            /\ U = T \cup {w, c.peer, c.issuer, c.expires, m.peer, m.issuer, m.expires}  OBVIOUS
<1>3. PICK a \in Seq(U) : a = << w, c.peer, c.issuer, c.expires >> /\ Len(a) = 4
                          /\ a[2] = c.peer /\ a[3] = c.issuer /\ a[4] = c.expires
  <2>1. PICK x1 \in U, x2 \in U, x3 \in U, x4 \in U : x1 = w /\ x2 = c.peer /\ x3 = c.issuer /\ x4 = c.expires
    BY <1>2
  <2>2. << x1, x2, x3, x4 >> \in Seq(U) /\ Len(<< x1, x2, x3, x4 >>) = 4
        /\ << x1, x2, x3, x4 >>[2] = x2 /\ << x1, x2, x3, x4 >>[3] = x3 /\ << x1, x2, x3, x4 >>[4] = x4
    OBVIOUS
  <2>3. QED  BY <2>1, <2>2
<1>4. PICK b \in Seq(U) : b = << w, m.peer, m.issuer, m.expires >> /\ Len(b) = 4
                          /\ b[2] = m.peer /\ b[3] = m.issuer /\ b[4] = m.expires
  <2>1. PICK x1 \in U, x2 \in U, x3 \in U, x4 \in U : x1 = w /\ x2 = m.peer /\ x3 = m.issuer /\ x4 = m.expires
    BY <1>2
  <2>2. << x1, x2, x3, x4 >> \in Seq(U) /\ Len(<< x1, x2, x3, x4 >>) = 4
        /\ << x1, x2, x3, x4 >>[2] = x2 /\ << x1, x2, x3, x4 >>[3] = x3 /\ << x1, x2, x3, x4 >>[4] = x4
    OBVIOUS
  <2>3. QED  BY <2>1, <2>2
<1>5. PICK p \in Seq(U), q \in Seq(U) : p = c.scope /\ q = m.scope  BY <1>2
<1>6. a \o p = b \o q  BY <1>1, <1>2, <1>3, <1>4, <1>5 DEF signed_bytes
<1>7. /\ Len(a \o p) = Len(a) + Len(p)
      /\ \A i \in 1 .. Len(a) : (a \o p)[i] = a[i]
      /\ \A i \in 1 .. Len(p) : (a \o p)[Len(a) + i] = p[i]
  BY Cat
<1>8. /\ Len(b \o q) = Len(b) + Len(q)
      /\ \A i \in 1 .. Len(b) : (b \o q)[i] = b[i]
      /\ \A i \in 1 .. Len(q) : (b \o q)[Len(b) + i] = q[i]
  BY Cat
<1>9. a[2] = b[2] /\ a[3] = b[3] /\ a[4] = b[4]
  <2>1. 2 \in 1 .. 4 /\ 3 \in 1 .. 4 /\ 4 \in 1 .. 4  OBVIOUS
  <2>2. QED  BY <1>3, <1>4, <1>6, <1>7, <1>8, <2>1
<1>10. Len(p) = Len(q) /\ \A i \in 1 .. Len(p) : p[i] = q[i]
  <2>1. Len(p) \in Nat /\ Len(q) \in Nat  OBVIOUS
  <2>2. Len(p) = Len(q)  BY <1>3, <1>4, <1>6, <1>7, <1>8, <2>1
  <2>3. QED  BY <1>3, <1>4, <1>6, <1>7, <1>8, <2>2
<1>11. p = q  BY <1>10, SeqEqual
<1>12. QED  BY <1>3, <1>4, <1>5, <1>9, <1>11

\* A credential that epx_make_credential makes.
Credential(m) ==
  /\ Len(m.peer) = 2 /\ Len(m.issuer) = 2 /\ m.expires \in Numbers
  /\ IsText(m.scope) /\ \A i \in 1 .. Len(m.scope) : Len(m.scope[i]) # 3

CredKeys == {"peer", "scope", "expires", "issuer", "sig"}
CredText(f) ==
  << Word("epx-credential-v1"), NL >> \o Line("peer", f["peer"]) \o Line("scope", f["scope"])
    \o Line("expires", f["expires"]) \o Line("issuer", f["issuer"]) \o Line("sig", f["sig"])
CredFields(m) == [peer |-> << m.peer >>, scope |-> m.scope, expires |-> << m.expires >>,
                issuer |-> << m.issuer >>, sig |-> << Signature(m) >>]

\* make_credential writes these fields.
LEMMA MadeText ==
  ASSUME NEW m
  PROVE  make_credential(m) = CredText(CredFields(m))
  BY DEF make_credential, CredText, CredFields

\* The tokens of a credential: of signatures there is only its own.
CredTokens(m) ==
  ToSet(m.scope) \cup {Word(w) : w \in CredKeys \cup {"epx-credential-v1"}}
    \cup {EQ, NL, m.peer, m.issuer, m.expires, Signature(m)}

\* The only token of a credential that is as long as a signature is its own.
LEMMA OwnSignature ==
  ASSUME NEW m, Credential(m), NEW x \in CredTokens(m), Len(x) = 3
  PROVE  x = Signature(m)
<1>1. \A w : Len(Word(w)) = 1  BY DEF Word
<1>2. Len(EQ) = 1 /\ Len(NL) = 1  BY DEF EQ, NL
<1>3. Len(m.peer) = 2 /\ Len(m.issuer) = 2 /\ Len(m.expires) = 1  BY TextAssumption DEF Credential
<1>4. \A y \in ToSet(m.scope) : Len(y) # 3
  <2>1. DOMAIN m.scope = 1 .. Len(m.scope)  BY DEF Credential, IsText
  <2>2. QED  BY <2>1 DEF Credential, ToSet
<1>5. QED  BY <1>1, <1>2, <1>3, <1>4 DEF CredTokens

\* The tokens of a text with a line more.
LEMMA LineTokens ==
  ASSUME NEW T, NEW k, Word(k) \in T, EQ \in T, NL \in T, NEW val \in Seq(T), NEW front \in Seq(T)
  PROVE  front \o Line(k, val) \in Seq(T)
<1>1. PICK w \in T, e \in T, n \in T : w = Word(k) /\ e = EQ /\ n = NL  OBVIOUS
<1>2. << w, e >> \in Seq(T) /\ << n >> \in Seq(T)  OBVIOUS
<1>3. << w, e >> \o val \in Seq(T)  BY <1>2
<1>4. << w, e >> \o val \o << n >> \in Seq(T)  BY <1>2, <1>3
<1>5. front \o (<< w, e >> \o val \o << n >>) \in Seq(T)  BY <1>4
<1>6. QED  BY <1>1, <1>5 DEF Line

\* The tokens of a credential, whatever lines its scope has.
LEMMA MadeTokens ==
  ASSUME NEW m, Credential(m)
  PROVE  make_credential(m) \in Seq(CredTokens(m)) /\ m.scope \in Seq(CredTokens(m))
<1>1. PICK T : T = CredTokens(m)  OBVIOUS
<1>2. /\ \A k \in CredKeys : Word(k) \in T
      /\ EQ \in T /\ NL \in T /\ Word("epx-credential-v1") \in T
      /\ m.peer \in T /\ m.issuer \in T /\ m.expires \in T /\ Signature(m) \in T /\ ToSet(m.scope) \subseteq T
  BY <1>1 DEF CredTokens
<1>3. PICK f : f = CredFields(m)  OBVIOUS
<1>4. /\ f["peer"] \in Seq(T) /\ f["expires"] \in Seq(T) /\ f["issuer"] \in Seq(T) /\ f["sig"] \in Seq(T)
      /\ f["scope"] \in Seq(T) /\ f["scope"] = m.scope
  <2>1. f["scope"] = m.scope /\ m.scope \in Seq(T)  BY <1>2, <1>3, Wider DEF Credential, CredFields
  <2>2. \A x \in T : << x >> \in Seq(T)  OBVIOUS
  <2>3. f["peer"] = << m.peer >> /\ f["expires"] = << m.expires >> /\ f["issuer"] = << m.issuer >>
        /\ f["sig"] = << Signature(m) >>
    BY <1>3 DEF CredFields
  <2>4. QED  BY <1>2, <2>1, <2>2, <2>3
<1>5. PICK t0 \in Seq(T) : t0 = << Word("epx-credential-v1"), NL >>
  <2>1. << Word("epx-credential-v1"), NL >> \in Seq(T)  BY <1>2, Pair
  <2>2. QED  BY <2>1
<1>6. Word("peer") \in T /\ Word("scope") \in T /\ Word("expires") \in T /\ Word("issuer") \in T /\ Word("sig") \in T
  BY <1>2 DEF CredKeys
<1>7. PICK t1 \in Seq(T) : t1 = t0 \o Line("peer", f["peer"])  BY <1>2, <1>4, <1>6, LineTokens
<1>8. PICK t2 \in Seq(T) : t2 = t1 \o Line("scope", f["scope"])  BY <1>2, <1>4, <1>6, LineTokens
<1>9. PICK t3 \in Seq(T) : t3 = t2 \o Line("expires", f["expires"])  BY <1>2, <1>4, <1>6, LineTokens
<1>10. PICK t4 \in Seq(T) : t4 = t3 \o Line("issuer", f["issuer"])  BY <1>2, <1>4, <1>6, LineTokens
<1>11. PICK t5 \in Seq(T) : t5 = t4 \o Line("sig", f["sig"])  BY <1>2, <1>4, <1>6, LineTokens
<1>12. CredText(f) = t5  BY <1>5, <1>7, <1>8, <1>9, <1>10, <1>11 DEF CredText
<1>13. QED  BY <1>1, <1>3, <1>4, <1>12, MadeText

\* What is read from a part of a credential and has a valid signature is
\* that credential.
LEMMA AcceptedIsMade ==
  ASSUME NEW m, Credential(m), NEW text \in Seq(CredTokens(m)), NEW c \in Accepted({text})
  PROVE  c.peer = m.peer /\ c.issuer = m.issuer /\ c.scope = m.scope /\ c.expires = m.expires
<1>1. c = parse(text) /\ c.ok /\ signature_valid(c)  BY DEF Accepted
<1>2. PICK v, s : v = Value(text, "sig") /\ s = Value(text, "scope")  OBVIOUS
<1>3. IsSig(v) /\ c.signature = v[1] /\ c.scope = s
  <2>1. PICK p, e, i : p = Value(text, "peer")[1] /\ e = Value(text, "expires")[1] /\ i = Value(text, "issuer")[1]  OBVIOUS
  <2>2. \/ c = [ok |-> FALSE]
        \/ IsSig(v) /\ c = [ok |-> TRUE, peer |-> p, scope |-> s, expires |-> e, issuer |-> i, signature |-> v[1]]
    BY <1>1, <1>2, <2>1, Zenon DEF parse
  <2>3. c # [ok |-> FALSE]
    <3>1. [ok |-> FALSE].ok = FALSE  OBVIOUS
    <3>2. QED  BY <1>1, <3>1, Zenon
  <2>4. PICK v1 : v1 = v[1]  OBVIOUS
  <2>5. c = [ok |-> TRUE, peer |-> p, scope |-> s, expires |-> e, issuer |-> i, signature |-> v1]
    BY <2>2, <2>3, <2>4
  <2>6. c.signature = v1 /\ c.scope = s  BY <2>5
  <2>7. IsSig(v)  BY <2>2, <2>3, Zenon
  <2>8. QED  BY <2>4, <2>6, <2>7
<1>4. v \in Seq(CredTokens(m)) /\ s \in Seq(CredTokens(m))  BY <1>2, ValueTokens
<1>5. v[1] \in CredTokens(m) /\ Len(v[1]) = 3
  <2>1. Len(v) = 1 /\ Len(v[1]) = 3  BY <1>3, Zenon DEF IsSig
  <2>2. PICK U : U = CredTokens(m) /\ v \in Seq(U)  BY <1>4
  <2>3. 1 \in 1 .. Len(v)  BY <2>1
  <2>4. v[1] \in U  BY <2>2, <2>3
  <2>5. QED  BY <2>1, <2>2, <2>4
<1>6. c.signature = Signature(m)  BY <1>3, <1>5, OwnSignature
<1>7. Signature(c) = Signature(m)  BY <1>1, <1>6 DEF signature_valid
<1>8. QED  BY <1>3, <1>4, <1>7, MadeTokens, SignedApart
\* A first line, and fields after it.
Headed(text) == 1 \in Starts(text, NL) /\ Getline(text, NL, 1) = << Word("epx-credential-v1") >>

\* A field more, behind the first line.
LEMMA HeadedMore ==
  ASSUME NEW T, NEW front, NEW K, NEW f, Knows(T, front, K, f), Headed(front), NEW k, Named(T, k), k \notin K,
         Plain(T, f[k])
  PROVE  Knows(T, front \o Line(k, f[k]), K \cup {k}, f) /\ Headed(front \o Line(k, f[k]))
<1>1. PICK text : text = front \o Line(k, f[k])  OBVIOUS
<1>2. WithField(text, front, k, f[k])  BY <1>1 DEF WithField
<1>3. Whole(T, front)  BY DEF Knows
<1>4. Knows(T, text, K \cup {k}, f)  BY <1>2, KnowsMore
<1>5. Headed(text)  BY <1>2, <1>3, HeaderKept DEF Headed
<1>6. QED  BY <1>1, <1>4, <1>5

\* The fields of a credential are known, whatever their values of one line
\* are.
LEMMA CredKnown ==
  ASSUME NEW T, Word("epx-credential-v1") \in T, NEW f, \A k \in CredKeys : Named(T, k) /\ Plain(T, f[k])
  PROVE  Knows(T, CredText(f), CredKeys, f) /\ Headed(CredText(f))
<1>1. "peer" \in CredKeys /\ "scope" \in CredKeys /\ "expires" \in CredKeys /\ "issuer" \in CredKeys /\ "sig" \in CredKeys
  BY DEF CredKeys
<1>2. NL \in T  BY <1>1 DEF Named
<1>3. PICK t0 : t0 = << Word("epx-credential-v1"), NL >>  OBVIOUS
<1>4. PICK t1 : t1 = t0 \o Line("peer", f["peer"])  OBVIOUS
<1>5. PICK t2 : t2 = t1 \o Line("scope", f["scope"])  OBVIOUS
<1>6. PICK t3 : t3 = t2 \o Line("expires", f["expires"])  OBVIOUS
<1>7. PICK t4 : t4 = t3 \o Line("issuer", f["issuer"])  OBVIOUS
<1>8. PICK t5 : t5 = t4 \o Line("sig", f["sig"])  OBVIOUS
<1>9. CredText(f) = t5  BY <1>3, <1>4, <1>5, <1>6, <1>7, <1>8 DEF CredText
<1>10. Knows(T, t0, {}, f) /\ Headed(t0)
  <2>1. Word("epx-credential-v1") # NL /\ Word("epx-credential-v1") # EQ  BY DEF Word, NL, EQ
  <2>2. PICK w \in T : w = Word("epx-credential-v1") /\ w # NL /\ w # EQ  BY <2>1
  <2>3. t0 = << w, NL >>  BY <1>3, <2>2
  <2>4. Knows(T, t0, {}, f) /\ 1 \in Starts(t0, NL) /\ Getline(t0, NL, 1) = << w >>
    BY <1>2, <2>2, <2>3, Header
  <2>5. QED  BY <2>2, <2>4 DEF Headed
<1>11. Knows(T, t1, {} \cup {"peer"}, f) /\ Headed(t1)
  <2>1. Named(T, "peer") /\ Plain(T, f["peer"]) /\ "peer" \notin {}  BY <1>1
  <2>2. PICK K : K = {}  OBVIOUS
  <2>3. Knows(T, t0, K, f) /\ "peer" \notin K  BY <1>10, <2>2
  <2>4. Knows(T, t1, K \cup {"peer"}, f) /\ Headed(t1)  BY <1>4, <1>10, <2>1, <2>3, HeadedMore
  <2>5. QED  BY <2>2, <2>4
<1>12. Knows(T, t2, {"peer"} \cup {"scope"}, f) /\ Headed(t2)
  <2>1. {} \cup {"peer"} = {"peer"}  OBVIOUS
  <2>2. QED  BY <1>1, <1>5, <1>11, <2>1, HeadedMore
<1>13. Knows(T, t3, {"peer", "scope"} \cup {"expires"}, f) /\ Headed(t3)
  <2>1. {"peer"} \cup {"scope"} = {"peer", "scope"}  OBVIOUS
  <2>2. QED  BY <1>1, <1>6, <1>12, <2>1, HeadedMore
<1>14. Knows(T, t4, {"peer", "scope", "expires"} \cup {"issuer"}, f) /\ Headed(t4)
  <2>1. {"peer", "scope"} \cup {"expires"} = {"peer", "scope", "expires"}  OBVIOUS
  <2>2. QED  BY <1>1, <1>7, <1>13, <2>1, HeadedMore
<1>15. Knows(T, t5, {"peer", "scope", "expires", "issuer"} \cup {"sig"}, f) /\ Headed(t5)
  <2>1. {"peer", "scope", "expires"} \cup {"issuer"} = {"peer", "scope", "expires", "issuer"}  OBVIOUS
  <2>2. QED  BY <1>1, <1>8, <1>14, <2>1, HeadedMore
<1>16. {"peer", "scope", "expires", "issuer"} \cup {"sig"} = CredKeys  BY DEF CredKeys
<1>17. QED  BY <1>9, <1>15, <1>16

\* A credential for a scope of one line comes through.
LEMMA CredentialRead ==
  ASSUME NEW m, Credential(m), m.scope # << >>, OneLine(m.scope)
  PROVE  Accepted({make_credential(m)}) # {}
<1>1. PICK T : T = CredTokens(m)  OBVIOUS
<1>2. PICK f : f = CredFields(m)  OBVIOUS
<1>3. PICK text : text = make_credential(m)  OBVIOUS
<1>4. f["scope"] = m.scope /\ f["peer"] = << m.peer >> /\ f["expires"] = << m.expires >>
      /\ f["issuer"] = << m.issuer >> /\ f["sig"] = << Signature(m) >>
  BY <1>2 DEF CredFields
<1>5. /\ \A k \in CredKeys : Word(k) \in T
      /\ EQ \in T /\ NL \in T /\ Word("epx-credential-v1") \in T
      /\ m.peer \in T /\ m.issuer \in T /\ m.expires \in T /\ Signature(m) \in T /\ ToSet(m.scope) \subseteq T
  BY <1>1 DEF CredTokens
<1>6. \A k \in CredKeys : Named(T, k)
  <2>1. EQ # NL /\ \A k \in CredKeys : Word(k) # NL /\ Word(k) # EQ  BY DEF Word, NL, EQ, CredKeys
  <2>2. QED  BY <1>5, <2>1 DEF Named
<1>7. Plain(T, f["peer"]) /\ Plain(T, f["expires"]) /\ Plain(T, f["issuer"]) /\ Plain(T, f["sig"])
  <2>1. m.peer # NL /\ m.issuer # NL /\ Signature(m) # NL
    <3>1. Len(NL) = 1 /\ Len(m.peer) = 2 /\ Len(m.issuer) = 2  BY DEF NL, Credential
    <3>2. Len(Signature(m)) = 3  BY DEF Signature
    <3>3. QED  BY <3>1, <3>2
  <2>2. m.expires # NL  BY TextAssumption DEF Credential
  <2>3. QED  BY <1>4, <1>5, <2>1, <2>2, One
<1>8. Plain(T, f["scope"])
  <2>1. m.scope \in Seq(T)  BY <1>5, Wider DEF Credential
  <2>2. Without(m.scope, NL)  BY OneLineIs DEF Credential, OneLine
  <2>3. QED  BY <1>4, <2>1, <2>2 DEF Plain, Without
<1>9. \A k \in CredKeys : Named(T, k) /\ Plain(T, f[k])  BY <1>6, <1>7, <1>8 DEF CredKeys
<1>10. Knows(T, text, CredKeys, f) /\ Headed(text)  BY <1>2, <1>3, <1>5, <1>9, CredKnown, MadeText
<1>11. "peer" \in CredKeys /\ "scope" \in CredKeys /\ "expires" \in CredKeys /\ "issuer" \in CredKeys /\ "sig" \in CredKeys
  BY DEF CredKeys
<1>12. \A x \in CredKeys : /\ Fields(text, x) # {}
                           /\ \A a \in Fields(text, x) : FieldValue(text, a) = f[x]
                           /\ Value(text, x) = f[x]
  BY <1>10, Known
<1>13. IsKey(Value(text, "peer")) /\ IsKey(Value(text, "issuer")) /\ IsSig(Value(text, "sig"))
  <2>1. \A x : << x >>[1] = x /\ Len(<< x >>) = 1  OBVIOUS
  <2>2. Len(m.peer) = 2 /\ Len(m.issuer) = 2 /\ Len(Signature(m)) = 3  BY DEF Credential, Signature
  <2>3. IsKey(<< m.peer >>) /\ IsKey(<< m.issuer >>) /\ IsSig(<< Signature(m) >>)  BY <2>1, <2>2, Zenon DEF IsKey, IsSig
  <2>4. Value(text, "peer") = << m.peer >> /\ Value(text, "issuer") = << m.issuer >>
        /\ Value(text, "sig") = << Signature(m) >>
    BY <1>4, <1>11, <1>12
  <2>5. QED  BY <2>3, <2>4
<1>14. Value(text, "scope") # << >> /\ Value(text, "scope") = m.scope  BY <1>4, <1>11, <1>12
<1>15. Fields(text, "expires") # {} /\ \A a \in Fields(text, "expires") : IsNumber(FieldValue(text, a))
  <2>1. IsNumber(<< m.expires >>)  BY DEF IsNumber, Credential
  <2>2. \A a \in Fields(text, "expires") : FieldValue(text, a) = << m.expires >>  BY <1>4, <1>11, <1>12
  <2>3. QED  BY <1>11, <1>12, <2>1, <2>2, Zenon
<1>16. text # << >> /\ Getline(text, NL, 1) = << Word("epx-credential-v1") >>
  <2>1. text # << >>  BY <1>10 DEF Headed, Starts
  <2>2. QED  BY <1>10, <2>1 DEF Headed
<1>17. PICK c : c = parse(text)  OBVIOUS
<1>18. PICK s : s = Signature(m)  OBVIOUS
<1>19. c = [ok |-> TRUE, peer |-> m.peer, scope |-> m.scope, expires |-> m.expires, issuer |-> m.issuer,
            signature |-> s]
  <2>1. PICK p, e, i, g : p = Value(text, "peer")[1] /\ e = Value(text, "expires")[1]
                          /\ i = Value(text, "issuer")[1] /\ g = Value(text, "sig")[1]
    OBVIOUS
  <2>2. c = [ok |-> TRUE, peer |-> p, scope |-> Value(text, "scope"), expires |-> e, issuer |-> i, signature |-> g]
    BY <1>13, <1>14, <1>15, <1>16, <1>17, <2>1, Zenon DEF parse
  <2>3. \A x : << x >>[1] = x  OBVIOUS
  <2>4. p = m.peer /\ e = m.expires /\ i = m.issuer /\ g = s  BY <1>4, <1>11, <1>12, <1>18, <2>1, <2>3
  <2>5. QED  BY <1>14, <2>2, <2>4
<1>20. c.ok = TRUE  BY <1>19, Zenon
<1>21. c.peer = m.peer /\ c.scope = m.scope /\ c.expires = m.expires /\ c.issuer = m.issuer /\ c.signature = s
  BY <1>19
<1>22. signature_valid(c)
  <2>1. Signature(c) = Signature(m)  BY <1>21 DEF Signature, signed_bytes
  <2>2. QED  BY <1>18, <1>21, <2>1 DEF signature_valid
<1>23. c \in Accepted({text})  BY <1>17, <1>20, <1>22, Zenon DEF Accepted
<1>24. QED  BY <1>3, <1>23

-----------------------------------------------------------------------------
(* What the program publishes and holds.                                   *)

\* Endpoints, credentials and what a Host holds.
HandlerSet == UNION {[N -> EndpointKind] : N \in {M \in SUBSET Names : IsFiniteSet(M)}}
MadeSet == [peer : Peers, scope : Scopes, expires : Expiries, issuer : KeySet]
PartsOf(M) == UNION {{SubSeq(make_credential(m), 1, n) : n \in 0 .. Len(make_credential(m))} : m \in M}
HostSet == [key : KeySet \cup {NoKey}, running : BOOLEAN, run_failed : BOOLEAN, handlers : HandlerSet,
            description : Descriptions \cup {<< >>}, creds : SUBSET Accepted(PartsOf(MadeSet))]

\* The entry that a host writes.
EntryOf(r) == EntryText(EntryFields(r.key, r.handlers, r.description))

\* The entry in the registry is the one the host has written, unless that one
\* reads as the entry of a dead process, which others remove.
Kept(r, text) == r.running /\ ~r.run_failed => text = EntryOf(r) \/ lookup(EntryOf(r)).stale

\* The entry was removed for one that was stale.
Missing(h, text, gone) == h \in gone /\ text = << >>

\* Hosts have their types, a host that is used has a key, and its entry is
\* kept or was lost.
ServiceInv ==
  /\ host \in [Hosts -> HostSet] /\ DOMAIN registry = Hosts
  /\ \A h \in Hosts : /\ hst[h] = "live" \/ host[h].running => host[h].key \in KeySet
                      /\ Kept(host[h], registry[h]) \/ Missing(h, registry[h], lost)

\* Whoever is about to remove an entry has read one that is stale.
LookInv ==
  /\ DOMAIN looks = Threads
  /\ \A t \in Threads :
       /\ DOMAIN looks[t] = {"call", "todo", "found", "stale", "read"}
       /\ looks[t].stale # NoHost => looks[t].stale \in Hosts /\ lookup(looks[t].read).stale

\* A step that changes one host and at most its entry.
LEMMA ServiceChange ==
  ASSUME ServiceInv, NEW h \in Hosts, NEW r \in HostSet, host' = [host EXCEPT ![h] = r],
         DOMAIN registry' = Hosts, \A g \in Hosts \ {h} : registry'[g] = registry[g],
         \A g \in Hosts \ {h} : hst'[g] = "live" => hst[g] = "live",
         lost \ {h} \subseteq lost',
         hst'[h] = "live" \/ r.running => r.key \in KeySet,
         Kept(r, registry'[h]) \/ Missing(h, registry'[h], lost')
  PROVE  ServiceInv'
<1>1. host' \in [Hosts -> HostSet] /\ host'[h] = r /\ \A g \in Hosts \ {h} : host'[g] = host[g]
  BY DEF ServiceInv
<1>2. ASSUME NEW g \in Hosts
      PROVE  /\ hst'[g] = "live" \/ host'[g].running => host'[g].key \in KeySet
             /\ Kept(host'[g], registry'[g]) \/ Missing(g, registry'[g], lost')
  <2>1. CASE g = h  BY <1>1, <2>1
  <2>2. CASE g # h  BY <1>1, <2>2 DEF ServiceInv, Missing
  <2>3. QED  BY <2>1, <2>2
<1>3. QED  BY <1>1, <1>2 DEF ServiceInv

\* Entries of dead processes are removed, and others only to be lost.
LEMMA ServicePruned ==
  ASSUME ServiceInv, host' = host, DOMAIN registry' = Hosts,
         lost \subseteq lost',
         \A g \in Hosts : \/ registry'[g] = registry[g]
                          \/ registry'[g] = << >> /\ (lookup(registry[g]).stale \/ g \in lost'),
         \A g \in Hosts : hst'[g] = "live" => hst[g] = "live"
  PROVE  ServiceInv'
<1>1. ASSUME NEW g \in Hosts PROVE Kept(host[g], registry'[g]) \/ Missing(g, registry'[g], lost')
  <2>1. Kept(host[g], registry[g]) \/ Missing(g, registry[g], lost)  BY DEF ServiceInv
  <2>2. QED  BY <2>1 DEF Kept, Missing
<1>2. QED  BY <1>1 DEF ServiceInv

\* What a credential says was made.
Says(c, m) == c.peer = m.peer /\ c.issuer = m.issuer /\ c.scope = m.scope /\ c.expires = m.expires

\* Credentials are issued by a key of the program, files hold parts of them,
\* and hosts hold what was issued.
CredInv ==
  /\ made \subseteq MadeSet /\ credFiles \subseteq PartsOf(made)
  /\ \A h \in Hosts : \A c \in host[h].creds : \E m \in made : Says(c, m)

\* A step that issues credentials, saves parts of them or hands hosts what
\* was issued.
LEMMA CredChange ==
  ASSUME CredInv, made \subseteq made', made' \subseteq MadeSet, credFiles' \subseteq PartsOf(made'),
         \A g \in Hosts : \A c \in host'[g].creds : c \in host[g].creds \/ \E m \in made : Says(c, m)
  PROVE  CredInv'
<1>1. ASSUME NEW g \in Hosts, NEW c \in host'[g].creds PROVE \E m \in made' : Says(c, m)
  BY DEF CredInv
<1>2. QED  BY <1>1 DEF CredInv

\* A credential of a program is one of the kind that reads back.
LEMMA MadeCredential ==
  ASSUME NEW m \in MadeSet
  PROVE  Credential(m)
<1>1. m.peer \in Peers /\ m.scope \in Scopes /\ m.expires \in Expiries /\ m.issuer \in KeySet  BY DEF MadeSet
<1>2. Len(m.peer) = 2 /\ m.expires \in Numbers  BY <1>1, CApiAssumption
<1>3. Len(m.issuer) = 2
  <2>1. \A n : Len(Key(n)) = 2  BY DEF Key
  <2>2. QED  BY <1>1, <2>1 DEF KeySet
<1>4. PICK s \in Scopes : s = m.scope  BY <1>1
<1>5. IsText(s)  BY CApiAssumption DEF IsText
<1>6. \A i \in 1 .. Len(s) : Len(s[i]) # 3  BY CApiAssumption
<1>7. QED  BY <1>2, <1>3, <1>4, <1>5, <1>6 DEF Credential

\* What is accepted of parts of credentials was made.
LEMMA AcceptedWasMade ==
  ASSUME NEW M, M \subseteq MadeSet, NEW texts, texts \subseteq PartsOf(M), NEW c \in Accepted(texts)
  PROVE  /\ \E m \in M : Says(c, m)
         /\ c \in Accepted(PartsOf(MadeSet))
<1>1. PICK x \in texts : c = parse(x) /\ c.ok /\ signature_valid(c)  BY Zenon DEF Accepted
<1>2. c \in Accepted({x})  BY <1>1, Zenon DEF Accepted
<1>a. PICK m \in M : x \in {SubSeq(make_credential(m), 1, n) : n \in 0 .. Len(make_credential(m))}  BY DEF PartsOf
<1>3. PICK n \in 0 .. Len(make_credential(m)) : x = SubSeq(make_credential(m), 1, n)  BY <1>a
<1>4. Credential(m)  BY MadeCredential
<1>5. PICK T : T = CredTokens(m) /\ make_credential(m) \in Seq(T)  BY <1>4, MadeTokens
<1>6. n \in Nat /\ n <= Len(make_credential(m))  BY <1>5
<1>7. x \in Seq(T)  BY <1>3, <1>5, <1>6, PartTokens
<1>8. Says(c, m)  BY <1>2, <1>4, <1>5, <1>7, AcceptedIsMade DEF Says
<1>9. x \in PartsOf(MadeSet)  BY <1>a DEF PartsOf
<1>10. c \in Accepted(PartsOf(MadeSet))  BY <1>1, <1>9, Zenon DEF Accepted
<1>11. QED  BY <1>8, <1>10

\* The inductive invariant of this section.
ContentInv == ServiceInv /\ CredInv /\ LookInv

\* A step that leaves hosts, entries and credentials alone.
LEMMA QuietContent ==
  ASSUME ContentInv, UNCHANGED <<host, registry, looks, lost, made, credFiles>>,
         \A g \in Hosts : hst'[g] = "live" => hst[g] = "live"
  PROVE  ContentInv'
<1>1. /\ host' = host /\ registry' = registry /\ looks' = looks /\ lost' = lost
      /\ made' = made /\ credFiles' = credFiles
  OBVIOUS
<1>2. ServiceInv'  BY <1>1, ServicePruned DEF ContentInv, ServiceInv
<1>3. CredInv'  BY <1>1, CredChange DEF ContentInv, CredInv
<1>4. LookInv'  BY <1>1 DEF ContentInv, LookInv
<1>5. QED  BY <1>2, <1>3, <1>4 DEF ContentInv

\* Loading an identity and the walks of the signal table.
LEMMA QuietSteps ==
  ASSUME ContentInv, TableTypeOK, NEW t \in Threads,
         \/ epx_identity_load_or_create(t) \/ KeyOpen(t) \/ KeyWrite(t) \/ KeyWriteFails(t) \/ KeyRename(t)
         \/ Walks(t) \/ SignalComes(t) \/ epx_signal_trampoline
  PROVE  ContentInv'
<1>1. UNCHANGED <<host, registry, looks, lost, made, credFiles>>
  BY DEF epx_identity_load_or_create, KeyOpen, KeyWrite, KeyWriteFails, KeyRename, Walks, SignalComes,
     epx_signal_trampoline, SameProgram, fileVars
<1>2. hst' = hst
  <2>1. CASE \/ epx_identity_load_or_create(t) \/ KeyOpen(t) \/ KeyWrite(t) \/ KeyWriteFails(t) \/ KeyRename(t)
    BY <2>1 DEF epx_identity_load_or_create, KeyOpen, KeyWrite, KeyWriteFails, KeyRename, table
  <2>2. CASE Walks(t) \/ SignalComes(t) \/ epx_signal_trampoline
    BY <2>2 DEF Walks, SignalComes, epx_signal_trampoline, RegisterPasses, RegisterEnds, unregister_signal_host,
       Signal, TrampolineLoad, TrampolineRequest
  <2>3. QED  BY <2>1, <2>2
<1>3. QED  BY <1>1, <1>2, QuietContent

\* Calls that only ask a host to stop, register it or begin to destroy it.
LEMMA QuietHostSteps ==
  ASSUME ContentInv, TableTypeOK, NEW t \in Threads, NEW h \in Hosts,
         \/ epx_host_request_stop(t, h) \/ epx_host_free(t, h)
         \/ \E n \in 1 .. MaxSignals : epx_host_stop_on_signals(t, h, n)
  PROVE  ContentInv'
<1>1. UNCHANGED <<host, registry, looks, lost, made, credFiles>>
  BY DEF epx_host_request_stop, epx_host_free, epx_host_stop_on_signals, SameProgram, fileVars
<1>2. hst' = hst \/ hst' = [hst EXCEPT ![h] = "leaving"]
  BY DEF epx_host_request_stop, epx_host_free, epx_host_stop_on_signals, request_stop, DestructorBegins, StopOnSignals
<1>3. \A g \in Hosts : hst'[g] = "live" => hst[g] = "live"  BY <1>2 DEF TableTypeOK
<1>4. QED  BY <1>1, <1>3, QuietContent

\* A call that looks services up begins, reads an entry or returns.
LEMMA LookSteps ==
  ASSUME ContentInv, NEW t \in Threads,
         \/ epx_list_services(t) \/ LookedUp(t)
         \/ \E h \in Hosts : epx_describe(t, h) \/ LookupReads(t, h)
  PROVE  ContentInv'
<1>1. /\ host' = host /\ registry' = registry /\ lost' = lost /\ made' = made /\ credFiles' = credFiles
      /\ hst' = hst
  BY DEF epx_list_services, epx_describe, LooksUp, LookupReads, LookedUp, table
<1>2. ServiceInv'  BY <1>1, ServicePruned DEF ContentInv, ServiceInv
<1>3. CredInv'  BY <1>1, CredChange DEF ContentInv, CredInv
<1>4. ASSUME NEW r, looks' = [looks EXCEPT ![t] = r], DOMAIN r = {"call", "todo", "found", "stale", "read"},
             r.stale # NoHost => r.stale \in Hosts /\ lookup(r.read).stale
      PROVE  LookInv'
  BY <1>4 DEF ContentInv, LookInv
<1>5. ASSUME NEW call, NEW services, LooksUp(t, call, services) PROVE LookInv'
  <2>1. PICK r : r = [NoLook EXCEPT !.call = call, !.todo = services]  OBVIOUS
  <2>2. r.stale = NoHost /\ DOMAIN r = {"call", "todo", "found", "stale", "read"}  BY <2>1 DEF NoLook
  <2>3. QED  BY <1>4, <1>5, <2>1, <2>2 DEF LooksUp
<1>6. ASSUME LookedUp(t) PROVE LookInv'
  <2>1. PICK r : r = NoLook  OBVIOUS
  <2>2. r.stale = NoHost /\ DOMAIN r = {"call", "todo", "found", "stale", "read"}  BY <2>1 DEF NoLook
  <2>3. QED  BY <1>4, <1>6, <2>1, <2>2 DEF LookedUp
<1>7. ASSUME NEW h \in Hosts, LookupReads(t, h) PROVE LookInv'
  <2>1. looks[t].stale = NoHost /\ DOMAIN looks[t] = {"call", "todo", "found", "stale", "read"}
    BY <1>7 DEF LookupReads, ContentInv, LookInv
  <2>2. CASE registry[h] # << >> /\ lookup(registry[h]).stale
    <3>1. PICK r : r = [looks[t] EXCEPT !.stale = h, !.read = registry[h]]  OBVIOUS
    <3>2. /\ r.stale = h /\ r.read = registry[h]
          /\ DOMAIN r = {"call", "todo", "found", "stale", "read"}
      BY <2>1, <3>1
    <3>3. looks' = [looks EXCEPT ![t] = r]  BY <1>7, <2>2, <3>1 DEF LookupReads
    <3>4. QED  BY <1>4, <2>2, <3>2, <3>3
  <2>3. CASE ~(registry[h] # << >> /\ lookup(registry[h]).stale)
    <3>1. PICK r : r = [looks[t] EXCEPT !.todo = @ \ {h},
                                        !.found = @ \/ (registry[h] # << >> /\ lookup(registry[h]).found)]
      OBVIOUS
    <3>2. r.stale = NoHost /\ DOMAIN r = {"call", "todo", "found", "stale", "read"}
      BY <2>1, <3>1
    <3>3. looks' = [looks EXCEPT ![t] = r]  BY <1>7, <2>3, <3>1 DEF LookupReads
    <3>4. QED  BY <1>4, <3>2, <3>3
  <2>4. QED  BY <2>2, <2>3
<1>8. LookInv'
  <2>1. epx_list_services(t) => LookInv'  BY <1>5 DEF epx_list_services
  <2>2. \A h \in Hosts : epx_describe(t, h) => LookInv'  BY <1>5 DEF epx_describe
  <2>3. QED  BY <1>6, <1>7, <2>1, <2>2
<1>9. QED  BY <1>2, <1>3, <1>8 DEF ContentInv

\* The entry of a running host that is removed is not the one that was read,
\* because that one is stale: it is lost.
LEMMA UnpublishStep ==
  ASSUME ContentInv, NEW t \in Threads, LookupUnpublishes(t)
  PROVE  ContentInv'
<1>1. PICK h : h = looks[t].stale  OBVIOUS
<1>2. h \in Hosts /\ lookup(looks[t].read).stale  BY <1>1 DEF LookupUnpublishes, ContentInv, LookInv
<1>3. host' = host /\ made' = made /\ credFiles' = credFiles /\ hst' = hst
  BY DEF LookupUnpublishes, table
<1>4. /\ registry' = [registry EXCEPT ![h] = << >>]
      /\ lost' = IF registry[h] \in {<< >>, looks[t].read} THEN lost ELSE lost \cup {h}
      /\ looks' = [looks EXCEPT ![t].todo = @ \ {h}, ![t].stale = NoHost, ![t].read = << >>]
  BY <1>1 DEF LookupUnpublishes
<1>5. DOMAIN registry' = Hosts /\ registry'[h] = << >> /\ \A g \in Hosts \ {h} : registry'[g] = registry[g]
  BY <1>2, <1>4 DEF ContentInv, ServiceInv
<1>6. lost \subseteq lost' /\ (registry[h] = << >> \/ lookup(registry[h]).stale \/ h \in lost')
  BY <1>2, <1>4
<1>7. ServiceInv'  BY <1>3, <1>5, <1>6, ServicePruned DEF ContentInv
<1>8. CredInv'  BY <1>3, CredChange DEF ContentInv, CredInv
<1>9. LookInv'
  <2>1. PICK r : r = [looks[t] EXCEPT !.todo = @ \ {h}, !.stale = NoHost, !.read = << >>]  OBVIOUS
  <2>2. looks' = [looks EXCEPT ![t] = r]  BY <1>4, <2>1
  <2>3. DOMAIN looks[t] = {"call", "todo", "found", "stale", "read"}  BY DEF ContentInv, LookInv
  <2>4. r.stale = NoHost /\ DOMAIN r = {"call", "todo", "found", "stale", "read"}  BY <2>1, <2>3
  <2>5. QED  BY <2>2, <2>4 DEF ContentInv, LookInv
<1>10. QED  BY <1>7, <1>8, <1>9 DEF ContentInv

\* A credential is issued.
LEMMA IssueStep ==
  ASSUME ContentInv, ProgramTypes, NEW t \in Threads, NEW p \in Peers, NEW s \in Scopes, NEW e \in Expiries,
         epx_make_credential(t, p, s, e)
  PROVE  ContentInv'
<1>1. /\ host' = host /\ registry' = registry /\ looks' = looks /\ lost' = lost
      /\ credFiles' = credFiles /\ hst' = hst
  BY DEF epx_make_credential, table
<1>2. PICK m : m = [peer |-> p, scope |-> s, expires |-> e, issuer |-> ids[t]]  OBVIOUS
<1>3. made' = made \cup {m}  BY <1>2 DEF epx_make_credential
<1>4. ids[t] \in KeySet  BY DEF epx_make_credential, ProgramTypes
<1>5. m \in MadeSet  BY <1>2, <1>4 DEF MadeSet
<1>6. made' \subseteq MadeSet /\ made \subseteq made'  BY <1>3, <1>5 DEF ContentInv, CredInv
<1>7. credFiles' \subseteq PartsOf(made')  BY <1>1, <1>3 DEF ContentInv, CredInv, PartsOf
<1>8. CredInv'  BY <1>1, <1>6, <1>7, CredChange DEF ContentInv
<1>9. ServiceInv'  BY <1>1, ServicePruned DEF ContentInv, ServiceInv
<1>10. LookInv'  BY <1>1 DEF ContentInv, LookInv
<1>11. QED  BY <1>8, <1>9, <1>10 DEF ContentInv

\* A part of a credential is in a file.
LEMMA SaveStep ==
  ASSUME ContentInv, NEW c \in made, NEW n \in 0 .. Len(make_credential(c)), SaveCredential(c, n)
  PROVE  ContentInv'
<1>1. /\ host' = host /\ registry' = registry /\ looks' = looks /\ lost' = lost
      /\ made' = made /\ hst' = hst
  BY DEF SaveCredential, table
<1>2. credFiles' \subseteq PartsOf(made')  BY <1>1 DEF SaveCredential, PartsOf
<1>3. CredInv'  BY <1>1, <1>2, CredChange DEF ContentInv, CredInv
<1>4. ServiceInv'  BY <1>1, ServicePruned DEF ContentInv, ServiceInv
<1>5. LookInv'  BY <1>1 DEF ContentInv, LookInv
<1>6. QED  BY <1>3, <1>4, <1>5 DEF ContentInv

\* What a new host holds.
LEMMA NewHostTyped ==
  ASSUME NEW k \in KeySet \cup {NoKey}
  PROVE  /\ NewHost(k) \in HostSet /\ NewHost(k).running = FALSE /\ NewHost(k).key = k
         /\ NewHost(k).creds = {}
<1>1. << >> \in HandlerSet
  <2>1. << >> \in [{} -> EndpointKind]  OBVIOUS
  <2>2. {} \in {M \in SUBSET Names : IsFiniteSet(M)}  BY FS_EmptySet
  <2>3. QED  BY <2>1, <2>2 DEF HandlerSet
<1>2. {} \in SUBSET Accepted(PartsOf(MadeSet))  OBVIOUS
<1>3. QED  BY <1>1, <1>2 DEF NewHost, HostSet

\* One host changes: what it holds now, and the entries and credentials.
LEMMA ContentChange ==
  ASSUME ContentInv, NEW h \in Hosts, NEW r \in HostSet, host' = [host EXCEPT ![h] = r],
         looks' = looks, made' = made, credFiles' = credFiles,
         DOMAIN registry' = Hosts, \A g \in Hosts \ {h} : registry'[g] = registry[g],
         \A g \in Hosts \ {h} : hst'[g] = "live" => hst[g] = "live",
         lost \ {h} \subseteq lost',
         hst'[h] = "live" \/ r.running => r.key \in KeySet,
         Kept(r, registry'[h]) \/ Missing(h, registry'[h], lost'),
         \A c \in r.creds : c \in host[h].creds \/ \E m \in made : Says(c, m)
  PROVE  ContentInv'
<1>1. ServiceInv'  BY ServiceChange DEF ContentInv
<1>2. host'[h] = r /\ \A g \in Hosts \ {h} : host'[g] = host[g]  BY DEF ContentInv, ServiceInv
<1>3. \A g \in Hosts : \A c \in host'[g].creds : c \in host[g].creds \/ \E m \in made : Says(c, m)
  <2>1. ASSUME NEW g \in Hosts, NEW c \in host'[g].creds PROVE c \in host[g].creds \/ \E m \in made : Says(c, m)
    <3>1. CASE g = h  BY <1>2, <2>1, <3>1
    <3>2. CASE g # h  BY <1>2, <2>1, <3>2
    <3>3. QED  BY <3>1, <3>2
  <2>2. QED  BY <2>1
<1>4. CredInv'  BY <1>3, CredChange DEF ContentInv, CredInv
<1>5. LookInv'  BY DEF ContentInv, LookInv
<1>6. QED  BY <1>1, <1>4, <1>5 DEF ContentInv

\* What a host holds has its type.
LEMMA HostTyped ==
  ASSUME ContentInv, NEW h \in Hosts
  PROVE  /\ host[h] \in HostSet
         /\ host[h].key \in KeySet \cup {NoKey} /\ host[h].running \in BOOLEAN /\ host[h].run_failed \in BOOLEAN
         /\ host[h].handlers \in HandlerSet /\ host[h].description \in Descriptions \cup {<< >>}
         /\ host[h].creds \in SUBSET Accepted(PartsOf(MadeSet))
<1>1. host[h] \in HostSet  BY DEF ContentInv, ServiceInv
<1>2. QED  BY <1>1 DEF HostSet

\* A host is created with the key of its creator.
LEMMA CreateStep ==
  ASSUME ContentInv, ProgramTypes, TableTypeOK, NEW t \in Threads, NEW h \in Hosts, epx_host_create(t, h)
  PROVE  ContentInv'
<1>1. PICK k \in KeySet : k = ids[t]  BY DEF epx_host_create, ProgramTypes
<1>2. PICK r \in HostSet : r = NewHost(k) /\ r.running = FALSE /\ r.key = k /\ r.creds = {}  BY NewHostTyped
<1>3. /\ host' = [host EXCEPT ![h] = r] /\ registry' = registry /\ looks' = looks /\ lost' = lost
      /\ made' = made /\ credFiles' = credFiles
  BY <1>1, <1>2 DEF epx_host_create, Becomes, fileVars
<1>4. hst' = [hst EXCEPT ![h] = "live"]  BY DEF epx_host_create, Construct
<1>5. \A g \in Hosts \ {h} : hst'[g] = "live" => hst[g] = "live"  BY <1>4 DEF TableTypeOK
<1>6. Kept(r, registry'[h])  BY <1>2 DEF Kept
<1>7. DOMAIN registry' = Hosts  BY <1>3 DEF ContentInv, ServiceInv
<1>8. QED  BY <1>2, <1>3, <1>5, <1>6, <1>7, ContentChange

\* A host is gone, and with it its entry if it was running.
LEMMA DestroyedStep ==
  ASSUME ContentInv, TableInv, NEW t \in Threads, HostDestroyed(t)
  PROVE  ContentInv'
<1>0. PICK h \in Hosts : h = walk[t].h  BY DEF HostDestroyed, Destroy, TableInv, WalkInv
<1>2. PICK r \in HostSet : r = NewHost(NoKey) /\ r.running = FALSE /\ r.key = NoKey /\ r.creds = {}  BY NewHostTyped
<1>3. host' = [host EXCEPT ![h] = r] /\ UNCHANGED <<looks, lost, made, credFiles>>
  BY <1>0, <1>2 DEF HostDestroyed
<1>4. registry' = registry \/ registry' = [registry EXCEPT ![h] = << >>]  BY <1>0 DEF HostDestroyed
<1>5. DOMAIN registry' = Hosts /\ \A g \in Hosts \ {h} : registry'[g] = registry[g]
  BY <1>4 DEF ContentInv, ServiceInv
<1>6. hst' = [hst EXCEPT ![h] = "freed"]  BY <1>0 DEF HostDestroyed, Destroy
<1>7. \A g \in Hosts : hst'[g] = "live" => hst[g] = "live" /\ g # h  BY <1>6 DEF TableInv, TableTypeOK
<1>8. Kept(r, registry'[h])  BY <1>2 DEF Kept
<1>9. QED  BY <1>2, <1>3, <1>5, <1>7, <1>8, ContentChange

\* A host has stopped, and its entry is gone.
LEMMA StopStep ==
  ASSUME ContentInv, NEW t \in Threads, NEW h \in Hosts,
         epx_host_stop(t, h) \/ epx_host_wait_until_stopped(t, h)
  PROVE  ContentInv'
<1>1. Stopped(h) /\ Usable(h)  BY DEF epx_host_stop, epx_host_wait_until_stopped
<1>2. PICK r : r = [host[h] EXCEPT !.running = FALSE]  OBVIOUS
<1>3. /\ r \in HostSet /\ r.running = FALSE /\ r.key = host[h].key /\ r.creds = host[h].creds
  BY <1>2, HostTyped DEF HostSet
<1>4. host' = [host EXCEPT ![h] = r] /\ UNCHANGED <<looks, lost, made, credFiles, hst>>
  BY <1>1, <1>2 DEF Stopped, table
<1>5. registry' = registry \/ registry' = [registry EXCEPT ![h] = << >>]  BY <1>1 DEF Stopped
<1>6. DOMAIN registry' = Hosts /\ \A g \in Hosts \ {h} : registry'[g] = registry[g]
  BY <1>5 DEF ContentInv, ServiceInv
<1>7. r.key \in KeySet  BY <1>1, <1>3 DEF ContentInv, ServiceInv, Usable
<1>8. Kept(r, registry'[h])  BY <1>3 DEF Kept
<1>9. QED  BY <1>3, <1>4, <1>6, <1>7, <1>8, ContentChange

\* A call that sets a host up before it runs.
LEMMA SetUpStep ==
  ASSUME ContentInv, NEW h \in Hosts, Usable(h), ~host[h].running, NEW r \in HostSet, Becomes(h, r), UNCHANGED table,
         r.running = host[h].running, r.key = host[h].key, r.creds = host[h].creds
  PROVE  ContentInv'
<1>1. /\ host' = [host EXCEPT ![h] = r] /\ registry' = registry /\ looks' = looks /\ lost' = lost
      /\ made' = made /\ credFiles' = credFiles /\ hst' = hst
  BY DEF Becomes, fileVars, table
<1>2. r.key \in KeySet  BY DEF ContentInv, ServiceInv, Usable
<1>3. Kept(r, registry'[h])  BY DEF Kept
<1>4. DOMAIN registry' = Hosts  BY <1>1 DEF ContentInv, ServiceInv
<1>5. QED  BY <1>1, <1>2, <1>3, <1>4, ContentChange

\* An endpoint more, or another one of the same name.
LEMMA HandlersTyped ==
  ASSUME NEW old \in HandlerSet, NEW name \in Names, NEW kind \in EndpointKind
  PROVE  [n \in DOMAIN old \cup {name} |-> IF n = name THEN kind ELSE old[n]] \in HandlerSet
<1>1. PICK N \in SUBSET Names : IsFiniteSet(N) /\ old \in [N -> EndpointKind]  BY DEF HandlerSet
<1>2. PICK M : M = N \cup {name}  OBVIOUS
<1>3. IsFiniteSet(M) /\ M \in SUBSET Names  BY <1>1, <1>2, FS_AddElement
<1>4. DOMAIN old = N  BY <1>1
<1>5. [n \in M |-> IF n = name THEN kind ELSE old[n]] \in [M -> EndpointKind]  BY <1>1, <1>2
<1>6. QED  BY <1>2, <1>3, <1>4, <1>5 DEF HandlerSet

\* An endpoint is exposed, or refused.
LEMMA ExposeStep ==
  ASSUME ContentInv, NEW t \in Threads, NEW h \in Hosts, NEW kind \in EndpointKind, NEW name \in Names,
         NEW valid, Expose(t, h, kind, name, valid)
  PROVE  ContentInv'
<1>1. Usable(h) /\ ~host[h].running /\ UNCHANGED table  BY DEF Expose
<1>2. PICK hs : hs = [n \in DOMAIN host[h].handlers \cup {name} |-> IF n = name THEN kind ELSE host[h].handlers[n]]
  OBVIOUS
<1>3. hs \in HandlerSet  BY <1>2, HostTyped, HandlersTyped
<1>4. PICK r : r = [host[h] EXCEPT !.handlers = hs]  OBVIOUS
<1>5. r \in HostSet /\ r.running = host[h].running /\ r.key = host[h].key /\ r.creds = host[h].creds
  BY <1>3, <1>4, HostTyped DEF HostSet
<1>6. Becomes(h, host[h]) \/ Becomes(h, r)  BY <1>2, <1>4 DEF Expose
<1>7. QED  BY <1>1, <1>5, <1>6, HostTyped, SetUpStep

\* A description is set.
LEMMA DescriptionStep ==
  ASSUME ContentInv, NEW t \in Threads, NEW h \in Hosts, NEW d \in Descriptions, epx_host_set_description(t, h, d)
  PROVE  ContentInv'
<1>1. PICK r : r = [host[h] EXCEPT !.description = d]  OBVIOUS
<1>2. r \in HostSet /\ r.running = host[h].running /\ r.key = host[h].key /\ r.creds = host[h].creds
  BY <1>1, HostTyped DEF HostSet
<1>3. Usable(h) /\ ~host[h].running /\ UNCHANGED table /\ Becomes(h, r)
  BY <1>1 DEF epx_host_set_description
<1>4. QED  BY <1>2, <1>3, SetUpStep

\* run() publishes the entry and takes the credentials from the files.
LEMMA RunStep ==
  ASSUME ContentInv, NEW t \in Threads, NEW h \in Hosts, NEW listens \in BOOLEAN, epx_host_run(t, h, listens)
  PROVE  ContentInv'
<1>1. Usable(h) /\ looks' = looks /\ made' = made /\ credFiles' = credFiles /\ hst' = hst  BY DEF epx_host_run, table
<1>2. CASE host[h].running
  <2>1. host' = host /\ registry' = registry /\ lost' = lost  BY <1>2 DEF epx_host_run
  <2>2. QED  BY <1>1, <2>1, QuietContent
<1>3. CASE ~host[h].running
  <2>1. PICK r : r = [host[h] EXCEPT !.running = TRUE, !.run_failed = @ \/ ~listens,
                                     !.creds = @ \cup Accepted(credFiles)]
    OBVIOUS
  <2>2. host' = [host EXCEPT ![h] = r]
    <3>1. host' = [host EXCEPT ![h].running = TRUE, ![h].run_failed = @ \/ ~listens,
                               ![h].creds = @ \cup Accepted(credFiles)]
      BY <1>3 DEF epx_host_run
    <3>2. QED  BY <2>1, <3>1 DEF ContentInv, ServiceInv
  <2>3. /\ registry' = IF listens THEN [registry EXCEPT ![h] = publish_registry(h)] ELSE registry
        /\ lost' = IF listens THEN lost \ {h} ELSE lost
    BY <1>3 DEF epx_host_run
  <2>4. \A c \in Accepted(credFiles) : (\E m \in made : Says(c, m)) /\ c \in Accepted(PartsOf(MadeSet))
    BY AcceptedWasMade DEF ContentInv, CredInv
  <2>5. /\ r.key = host[h].key /\ r.handlers = host[h].handlers /\ r.description = host[h].description
        /\ r.creds = host[h].creds \cup Accepted(credFiles) /\ r.run_failed = (host[h].run_failed \/ ~listens)
    BY <2>1, HostTyped DEF HostSet
  <2>6. r \in HostSet
    <3>1. host[h].creds \cup Accepted(credFiles) \in SUBSET Accepted(PartsOf(MadeSet))  BY <2>4, HostTyped
    <3>2. (host[h].run_failed \/ ~listens) \in BOOLEAN  OBVIOUS
    <3>3. QED  BY <2>1, <3>1, <3>2, HostTyped DEF HostSet
  <2>7. r.key \in KeySet  BY <1>1, <2>5 DEF ContentInv, ServiceInv, Usable
  <2>8. EntryOf(r) = publish_registry(h)  BY <2>5, PublishedText DEF EntryOf
  <2>9. DOMAIN registry' = Hosts /\ \A g \in Hosts \ {h} : registry'[g] = registry[g]
    BY <2>3 DEF ContentInv, ServiceInv
  <2>10. Kept(r, registry'[h])
    <3>1. CASE listens
      <4>1. registry'[h] = EntryOf(r)  BY <2>3, <2>8, <3>1 DEF ContentInv, ServiceInv
      <4>2. QED  BY <4>1 DEF Kept
    <3>2. CASE ~listens
      <4>1. r.run_failed  BY <2>5, <3>2
      <4>2. QED  BY <4>1 DEF Kept
    <3>3. QED  BY <3>1, <3>2
  <2>11. \A c \in r.creds : c \in host[h].creds \/ \E m \in made : Says(c, m)  BY <2>4, <2>5
  <2>12. QED  BY <1>1, <2>2, <2>3, <2>6, <2>7, <2>9, <2>10, <2>11, ContentChange
<1>4. QED  BY <1>2, <1>3

\* A credential is added, before or after run().
LEMMA AddCredentialStep ==
  ASSUME ContentInv, NEW t \in Threads, NEW h \in Hosts, NEW c \in made, epx_host_add_credential(t, h, c)
  PROVE  ContentInv'
<1>1. PICK A : A = Accepted({make_credential(c)})  OBVIOUS
<1>2. PICK r : r = [host[h] EXCEPT !.creds = @ \cup A]  OBVIOUS
<1>3. Usable(h) /\ Becomes(h, r) /\ UNCHANGED table  BY <1>1, <1>2 DEF epx_host_add_credential
<1>4. /\ host' = [host EXCEPT ![h] = r] /\ registry' = registry /\ looks' = looks /\ lost' = lost
      /\ made' = made /\ credFiles' = credFiles /\ hst' = hst
  BY <1>3 DEF Becomes, fileVars, table
<1>5. {make_credential(c)} \subseteq PartsOf(made)
  <2>1. c \in MadeSet  BY DEF ContentInv, CredInv
  <2>2. PICK x, T : x = make_credential(c) /\ x \in Seq(T)  BY <2>1, MadeCredential, MadeTokens
  <2>3. Len(x) \in 0 .. Len(x) /\ SubSeq(x, 1, Len(x)) = x  BY <2>2
  <2>4. x \in {SubSeq(make_credential(c), 1, n) : n \in 0 .. Len(make_credential(c))}  BY <2>2, <2>3, Zenon
  <2>5. QED  BY <2>2, <2>4 DEF PartsOf
<1>6. \A a \in A : (\E m \in made : Says(a, m)) /\ a \in Accepted(PartsOf(MadeSet))
  BY <1>1, <1>5, AcceptedWasMade DEF ContentInv, CredInv
<1>7. /\ r \in HostSet /\ r.running = host[h].running /\ r.run_failed = host[h].run_failed /\ r.key = host[h].key
      /\ r.handlers = host[h].handlers /\ r.description = host[h].description /\ r.creds = host[h].creds \cup A
  <2>1. host[h].creds \cup A \in SUBSET Accepted(PartsOf(MadeSet))  BY <1>6, HostTyped
  <2>2. QED  BY <1>2, <2>1, HostTyped DEF HostSet
<1>8. r.key \in KeySet  BY <1>3, <1>7 DEF ContentInv, ServiceInv, Usable
<1>9. EntryOf(r) = EntryOf(host[h])  BY <1>7 DEF EntryOf
<1>10. Kept(host[h], registry[h]) \/ Missing(h, registry[h], lost)  BY DEF ContentInv, ServiceInv
<1>11. Kept(r, registry'[h]) \/ Missing(h, registry'[h], lost')  BY <1>4, <1>7, <1>9, <1>10 DEF Kept
<1>12. \A a \in r.creds : a \in host[h].creds \/ \E m \in made : Says(a, m)  BY <1>6, <1>7
<1>13. DOMAIN registry' = Hosts  BY <1>4 DEF ContentInv, ServiceInv
<1>14. QED  BY <1>4, <1>7, <1>8, <1>11, <1>12, <1>13, ContentChange

\* Every step of the program keeps the invariant.
LEMMA ContentStep == ProgramInv /\ TableInv /\ ContentInv /\ [Next]_vars => ContentInv'
<1> SUFFICES ASSUME ProgramInv, TableInv, ContentInv, [Next]_vars PROVE ContentInv'
  OBVIOUS
<1>0. ProgramTypes /\ TableTypeOK  BY DEF ProgramInv, TableInv
<1>1. CASE UNCHANGED vars
  <2>1. UNCHANGED <<host, registry, looks, lost, made, credFiles>> /\ hst' = hst  BY <1>1 DEF vars, fileVars, table
  <2>2. QED  BY <2>1, QuietContent
<1>2. CASE Next
  <2>1. ASSUME NEW t \in Threads, NEW h \in Hosts,
               \/ epx_host_create(t, h) \/ epx_host_stop(t, h) \/ epx_host_request_stop(t, h)
               \/ epx_host_wait_until_stopped(t, h) \/ epx_host_free(t, h) \/ epx_describe(t, h)
               \/ LookupReads(t, h)
               \/ \E k \in EndpointKind, n \in Names :
                    epx_host_expose(t, h, k, n) \/ expose_stream_or_topic(t, h, k, n)
               \/ \E d \in Descriptions : epx_host_set_description(t, h, d)
               \/ \E b \in BOOLEAN : epx_host_run(t, h, b)
               \/ \E c \in made : epx_host_add_credential(t, h, c)
               \/ \E n \in 1 .. MaxSignals : epx_host_stop_on_signals(t, h, n)
        PROVE  ContentInv'
    <3>1. CASE \E k \in EndpointKind, n \in Names :
                 epx_host_expose(t, h, k, n) \/ expose_stream_or_topic(t, h, k, n)
      <4>1. PICK k \in EndpointKind, n \in Names : epx_host_expose(t, h, k, n) \/ expose_stream_or_topic(t, h, k, n)
        BY <3>1
      <4>2. \E v : Expose(t, h, k, n, v)
        <5>1. CASE epx_host_expose(t, h, k, n)
          <6>1. Expose(t, h, k, n, k \in {"Receive", "Send"})  BY <5>1 DEF epx_host_expose
          <6>2. QED  BY <6>1, Zenon
        <5>2. CASE expose_stream_or_topic(t, h, k, n)
          <6>1. Expose(t, h, k, n, TRUE)  BY <5>2 DEF expose_stream_or_topic
          <6>2. QED  BY <6>1, Zenon
        <5>3. QED  BY <4>1, <5>1, <5>2
      <4>3. QED  BY <4>2, ExposeStep
    <3>2. QED
      BY <1>0, <2>1, <3>1, CreateStep, StopStep, QuietHostSteps, LookSteps, DescriptionStep, RunStep, AddCredentialStep
  <2>2. ASSUME NEW t \in Threads,
               \/ epx_identity_load_or_create(t) \/ KeyOpen(t) \/ KeyWrite(t) \/ KeyWriteFails(t) \/ KeyRename(t)
               \/ Walks(t) \/ HostDestroyed(t) \/ SignalComes(t)
               \/ epx_list_services(t) \/ LookupUnpublishes(t) \/ LookedUp(t)
               \/ \E p \in Peers, s \in Scopes, e \in Expiries : epx_make_credential(t, p, s, e)
        PROVE  ContentInv'
    BY <1>0, <2>2, QuietSteps, DestroyedStep, LookSteps, UnpublishStep, IssueStep
  <2>3. ASSUME NEW c \in made, NEW n \in 0 .. Len(make_credential(c)), SaveCredential(c, n)
        PROVE  ContentInv'
    BY <2>3, SaveStep
  <2>4. ASSUME epx_signal_trampoline PROVE ContentInv'
    <3>1. UNCHANGED <<host, registry, looks, lost, made, credFiles>> /\ hst' = hst
      BY <2>4 DEF epx_signal_trampoline, SameProgram, fileVars, TrampolineLoad, TrampolineRequest
    <3>2. QED  BY <3>1, QuietContent
  <2>5. QED  BY <1>2, <2>1, <2>2, <2>3, <2>4 DEF Next
<1>3. QED  BY <1>1, <1>2

\* So does the first state.
LEMMA ContentInit == Init => ContentInv
<1> SUFFICES ASSUME Init PROVE ContentInv
  OBVIOUS
<1>1. PICK r \in HostSet : r = NewHost(NoKey) /\ r.running = FALSE /\ r.creds = {}  BY NewHostTyped
<1>2. host = [h \in Hosts |-> r] /\ made = {} /\ credFiles = {} /\ DOMAIN registry = Hosts
      /\ hst = [h \in Hosts |-> "none"]
  BY <1>1 DEF Init, TableInit
<1>3. ServiceInv  BY <1>1, <1>2 DEF ServiceInv, Kept
<1>4. CredInv  BY <1>1, <1>2 DEF CredInv
<1>5. LookInv  BY DEF Init, LookInv, NoLook
<1>6. QED  BY <1>3, <1>4, <1>5 DEF ContentInv

\* All three invariants of a program hold together.
LEMMA ContentAlways == Spec => [](ProgramInv /\ TableInv /\ ContentInv)
<1>1. Init => ProgramInv /\ TableInv /\ ContentInv
  BY ProgramInit, InitInv, ContentInit DEF Init
<1>2. ProgramInv /\ TableInv /\ ContentInv /\ [Next]_vars => (ProgramInv /\ TableInv /\ ContentInv)'
  BY ProgramStep, TableStep, StepInv, ContentStep
<1>3. QED
  BY <1>1, <1>2, PTL DEF Spec

-----------------------------------------------------------------------------
(* The theorems.                                                           *)

\* In every program, whatever its threads call, a signal (host.cpp:129-134,
\* c_api.cpp:355-359) reaches every live host that had registered before it,
\* unless the table was ever full, and no slot names a host that is gone.
THEOREM SignalsStopPrograms == Spec => []SignalStopsAll
<1>1. Init => TableInv
  BY InitInv DEF Init
<1>2. TableInv /\ [Next]_vars => TableInv'
  BY TableStep, StepInv
<1>3. QED
  BY <1>1, <1>2, InvImplies, PTL DEF Spec

\* A thread's last error is that of its own last failed call (guarded(),
\* c_api.cpp:20-54), and files, walks and table stay well typed.
THEOREM TypeCorrect == Spec => []TypeOK
<1>1. Init => ProgramInv /\ TableInv
  BY ProgramInit, InitInv DEF Init
<1>2. ProgramInv /\ TableInv /\ [Next]_vars => ProgramInv' /\ TableInv'
  BY ProgramStep, TableStep, StepInv
<1>3. ProgramInv /\ TableInv => TypeOK
  <2>1. ASSUME ProgramInv, NEW t \in Threads
        PROVE  at[t].op \in {"idle", "open", "write", "rename"} /\ last[t].status \in Statuses
    BY <2>1, AtCases DEF ProgramInv, ProgramTypes, Idle
  <2>2. QED
    BY <2>1 DEF ProgramInv, ProgramTypes, ErrorInv, TableInv, TypeOK
<1>4. QED
  BY <1>1, <1>2, <1>3, PTL DEF Spec

\* However the opens, writes and renames of load_or_create_identity
\* (keystore.cpp:85-110) interleave, once nobody is loading and no load has
\* failed the key file is whole and holds a key that a caller has got, and
\* only creators that overlapped made more than one key.
THEOREM IdentitySettles == Spec => []KeyFileSettles
<1>1. ProgramInv => KeyFileSettles
  <2>1. ASSUME ProgramInv, \A t \in Threads : ~Creating(t), ~keys.failed,
               NEW u \in Threads, ids[u] # NoKey
        PROVE  keyFile # 0 /\ \E t \in Threads : inode[keyFile] = ids[t]
    <3>1. keyFile # 0
      BY <2>1 DEF ProgramInv, FileInv
    <3>2. CASE Untouched
      BY <2>1, <3>2 DEF Untouched
    <3>3. CASE Owned(keyFile)
      <4>1. \A t \in Threads : at[t].op \notin {"write", "rename"}
        BY <2>1 DEF Creating
      <4>2. PICK t \in Threads : ids[t] = inode[keyFile]
        BY <3>3, <4>1, Zenon DEF Owned
      <4>3. QED
        BY <3>1, <4>2
    <3>4. QED
      BY <2>1, <3>1, <3>2, <3>3 DEF ProgramInv, FileInv
  <2>2. QED
    BY <2>1 DEF ProgramInv, FileInv, KeyFileSettles
<1>2. QED
  BY <1>1, ProgramInit, ProgramStep, PTL DEF Spec

\* What describe() tells of a running host (registry.cpp:166-188) is what the
\* host has exposed, endpoint by endpoint, with its description and its key,
\* for all names and descriptions of one line and names without a ",".  Its
\* entry is missing only after a lookup() that had read another entry, which
\* was stale, removed it (registry.cpp:133-134): nothing else that threads do
\* to the registry takes a running host out of it.
THEOREM DescribedAsExposed == Spec => []DescribeMatches
<1>1. ContentInv => DescribeMatches
  <2>1. ASSUME ContentInv, NEW h \in Hosts, host[h].running, ~host[h].run_failed,
               OneLine(host[h].description),
               \A n \in DOMAIN host[h].handlers : OneLine(n) /\ ~Contains(n, <<",">>)
        PROVE  \/ h \in lost /\ registry[h] = << >>
               \/ /\ lookup(registry[h]).found
                  /\ describe(lookup(registry[h])) =
                       [description |-> host[h].description, pid |-> Self, key |-> << host[h].key >>,
                        endpoints |-> {[name |-> n, kind |-> host[h].handlers[n]] : n \in DOMAIN host[h].handlers}]
    <3>1. PICK k, hs, d : k = host[h].key /\ hs = host[h].handlers /\ d = host[h].description  OBVIOUS
    <3>2. k \in KeySet /\ hs \in HandlerSet /\ d \in Descriptions \cup {<< >>}
      BY <2>1, <3>1, HostTyped DEF ContentInv, ServiceInv
    <3>3. Len(k) = 2
      <4>1. \A n : Len(Key(n)) = 2  BY DEF Key
      <4>2. QED  BY <3>2, <4>1 DEF KeySet
    <3>4. Presentable(hs, d)
      <4>1. PICK N \in SUBSET Names : IsFiniteSet(N) /\ hs \in [N -> EndpointKind]  BY <3>2 DEF HandlerSet
      <4>2. DOMAIN hs = N  BY <4>1
      <4>3. \A n \in N : IsText(n)  BY CApiAssumption DEF IsText
      <4>4. IsText(d)
        <5>1. << >> \in Seq(ToSet(<< >>))  OBVIOUS
        <5>2. QED  BY <3>2, <5>1, CApiAssumption DEF IsText
      <4>5. \A n \in N : OneLine(n) /\ ~Contains(n, Word(","))  BY <2>1, <3>1, <4>2 DEF Word
      <4>6. QED  BY <2>1, <3>1, <4>1, <4>2, <4>3, <4>4, <4>5 DEF Presentable
    <3>5. PICK x : x = EntryText(EntryFields(k, hs, d))  OBVIOUS
    <3>6. lookup(x).found /\ ~lookup(x).stale /\ describe(lookup(x)) = Told(k, hs, d)  BY <3>3, <3>4, <3>5, EntryRead
    <3>7. x = EntryOf(host[h])  BY <3>1, <3>5 DEF EntryOf
    <3>8. Kept(host[h], registry[h]) \/ Missing(h, registry[h], lost)  BY <2>1 DEF ContentInv, ServiceInv
    <3>9. registry[h] = x \/ Missing(h, registry[h], lost)  BY <2>1, <3>6, <3>7, <3>8 DEF Kept
    <3>10. QED  BY <3>1, <3>6, <3>9 DEF Told, EndpointOf, Missing
  <2>2. QED  BY <2>1, Zenon DEF DescribeMatches
<1>2. QED  BY <1>1, ContentAlways, PTL

\* Every credential that a host accepts, from a call or from a file, also one
\* read half written or with a scope of several lines, says what its issuer
\* signed (credentials.cpp:33-86, host.cpp:452-468); and a credential for a
\* scope of one line comes through serialize and parse.
THEOREM CredentialsAsSigned == Spec => []AcceptedAsSigned
<1>1. ContentInv => AcceptedAsSigned
  <2>1. ASSUME ContentInv, NEW m \in made, m.scope # << >>, OneLine(m.scope)
        PROVE  Accepted({make_credential(m)}) # {}
    <3>1. m \in MadeSet  BY <2>1 DEF ContentInv, CredInv
    <3>2. QED  BY <2>1, <3>1, MadeCredential, CredentialRead
  <2>2. QED  BY <2>1 DEF ContentInv, CredInv, Says, AcceptedAsSigned
<1>2. QED  BY <1>1, ContentAlways, PTL
=============================================================================
