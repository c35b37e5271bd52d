----------------------- MODULE PacketProcessorProofs -----------------------
(* Theorems about the packet processor, for every window size, number of    *)
(* cores, queue length, number of packets and mix of packet shapes.         *)
EXTENDS PacketProcessorProperties, FiniteSetTheorems, TLAPS

-----------------------------------------------------------------------------
(* Array positions: indices less than W apart have different positions.     *)

\* A masked index is a position of the array.
LEMMA ModRange ==
  ASSUME NEW i \in Nat
  PROVE  i % W \in Slots
BY WindowAssumption, SMT DEF Slots

LEMMA MultiplesApart ==
  ASSUME NEW a \in Int, NEW b \in Int, a < b
  PROVE  W * a + W <= W * b
<1>1. a + 1 <= b
  OBVIOUS
<1>2. W * (a + 1) <= W * b
  BY <1>1, WindowAssumption, SMT
<1>3. W * (a + 1) = W * a + W
  BY WindowAssumption, SMT
<1>4. QED
  BY <1>2, <1>3, WindowAssumption, SMT

\* Quotient and remainder are unique.
LEMMA DivisionUnique ==
  ASSUME NEW a \in Int, NEW b \in Int, NEW r \in 0 .. W - 1, NEW t \in 0 .. W - 1
  PROVE  W * a + r = W * b + t => a = b /\ r = t
<1>1. W * a \in Int /\ W * b \in Int
  BY WindowAssumption, SMT
<1> SUFFICES ASSUME W * a + r = W * b + t PROVE a = b /\ r = t
  OBVIOUS
<1>2. ~(a < b)
  BY <1>1, MultiplesApart, WindowAssumption
<1>3. ~(b < a)
  BY <1>1, MultiplesApart, WindowAssumption
<1>4. a = b
  BY <1>2, <1>3
<1>5. QED
  BY <1>1, <1>4, WindowAssumption

LEMMA Division ==
  ASSUME NEW i \in Nat
  PROVE  i \div W \in Int /\ i % W \in 0 .. W - 1 /\ i = W * (i \div W) + (i % W)
BY WindowAssumption, SMT

\* Two indices within one window of each other share a position only if they
\* are equal: masking does not make live entries collide.
LEMMA ModInjective ==
  ASSUME NEW i \in Nat, NEW j \in Nat, i % W = j % W, i <= j, j < i + W
  PROVE  i = j
<1> DEFINE a == i \div W
           b == j \div W
           r == i % W
<1>1. /\ a \in Int /\ b \in Int /\ r \in 0 .. W - 1
      /\ i = W * a + r /\ j = W * b + r
  BY Division
<1>2. W * a \in Int /\ W * b \in Int
  BY <1>1, WindowAssumption, SMT
<1> HIDE DEF a, b, r
<1>3. ~(a < b)
  BY <1>1, <1>2, MultiplesApart, WindowAssumption
<1>4. ~(b < a)
  BY <1>1, <1>2, MultiplesApart, WindowAssumption
<1>5. a = b
  BY <1>3, <1>4, <1>1
<1>6. QED
  BY <1>5, <1>1

\* Indices one window apart share a position.
LEMMA ModPeriodic ==
  ASSUME NEW i \in Nat
  PROVE  (i + W) % W = i % W
<1> DEFINE a == i \div W
           r == i % W
           b == (i + W) \div W
           t == (i + W) % W
<1>1. a \in Int /\ r \in 0 .. W - 1 /\ i = W * a + r
  BY Division
<1>2. i + W \in Nat
  BY WindowAssumption
<1>3. b \in Int /\ t \in 0 .. W - 1 /\ i + W = W * b + t
  BY <1>2, Division
<1> HIDE DEF a, b, r, t
<1>4. W * (a + 1) = W * a + W /\ W * a \in Int
  BY <1>1, WindowAssumption, SMT
<1>5. W * (a + 1) + r = W * b + t
  BY <1>1, <1>3, <1>4, WindowAssumption
<1>6. r = t
  BY <1>1, <1>3, <1>5, DivisionUnique
<1>7. QED
  BY <1>6 DEF r, t

-----------------------------------------------------------------------------
(* Push and Pop.                                                            *)

Ordered(q) == q.read <= q.write
HasRoom(q) == q.write < q.read + W

\* A push onto a queue with room adds its entry and keeps every live one.
LEMMA PushEntries ==
  ASSUME NEW E, NEW q \in Rings(E), NEW e \in E, Ordered(q), HasRoom(q)
  PROVE  /\ Push(q, e) \in Rings(E)
         /\ Push(q, e).read = q.read
         /\ Push(q, e).write = q.write + 1
         /\ At(Push(q, e), q.write) = e
         /\ \A i \in Pending(q) : At(Push(q, e), i) = At(q, i)
<1> DEFINE p == q.write % W
<1>1. q.read \in Nat /\ q.write \in Nat /\ q.entry \in [Slots -> E]
  BY DEF Rings
<1>2. p \in Slots
  BY <1>1, ModRange
<1>3. Push(q, e) = [entry |-> [q.entry EXCEPT ![p] = e], read |-> q.read, write |-> q.write + 1]
  BY DEF Push, Rings
<1>4. Push(q, e) \in Rings(E)
  BY <1>1, <1>2, <1>3 DEF Rings
<1>5. At(Push(q, e), q.write) = e
  BY <1>1, <1>2, <1>3 DEF At
<1>6. ASSUME NEW i \in Pending(q)
      PROVE  At(Push(q, e), i) = At(q, i)
  <2>1. i \in Nat /\ i < q.write /\ q.write < i + W
    BY <1>1, WindowAssumption DEF Pending, HasRoom, Ordered
  <2>2. i % W # p
    BY <2>1, <1>1, ModInjective
  <2>3. i % W \in Slots
    BY <2>1, ModRange
  <2>4. QED
    BY <2>2, <2>3, <1>1, <1>2, <1>3 DEF At
<1>7. QED
  BY <1>3, <1>4, <1>5, <1>6

\* The packets queued after a push; a packet not yet queued stays unique.
LEMMA PushQueued ==
  ASSUME NEW E, NEW q \in Rings(E), NEW e \in E, Ordered(q), HasRoom(q)
  PROVE  /\ Queued(Push(q, e)) = Queued(q) \union {e.packet_id}
         /\ Distinct(q) /\ e.packet_id \notin Queued(q) => Distinct(Push(q, e))
         /\ Ordered(Push(q, e))
<1> DEFINE P == Push(q, e)
<1>1. q.read \in Nat /\ q.write \in Nat
  BY DEF Rings
<1>2. /\ P.read = q.read /\ P.write = q.write + 1
      /\ At(P, q.write) = e
      /\ \A i \in Pending(q) : At(P, i) = At(q, i)
  BY PushEntries
<1> HIDE DEF P
<1>3. Pending(P) = Pending(q) \union {q.write} /\ q.write \notin Pending(q)
  BY <1>1, <1>2 DEF Pending, Ordered
<1>4. Queued(P) = Queued(q) \union {e.packet_id}
  BY <1>2, <1>3 DEF Queued
<1>5. ASSUME Distinct(q), e.packet_id \notin Queued(q)
      PROVE  Distinct(P)
  BY <1>2, <1>3, <1>5 DEF Distinct, Queued
<1>6. Ordered(P)
  BY <1>1, <1>2 DEF Ordered
<1>7. QED
  BY <1>4, <1>5, <1>6 DEF P

\* A pop removes exactly the packet at the front.
LEMMA PopQueued ==
  ASSUME NEW E, NEW q \in Rings(E), Ordered(q), Distinct(q), ~IsEmpty(q)
  PROVE  /\ Pop(q) \in Rings(E)
         /\ Ordered(Pop(q)) /\ Distinct(Pop(q))
         /\ Front(q) \in E
         /\ Front(q).packet_id \in Queued(q)
         /\ Queued(Pop(q)) = Queued(q) \ {Front(q).packet_id}
<1> DEFINE P == Pop(q)
<1>1. q.read \in Nat /\ q.write \in Nat /\ q.entry \in [Slots -> E]
  BY DEF Rings
<1>2. P = [entry |-> q.entry, read |-> q.read + 1, write |-> q.write]
  BY DEF Pop, Rings
<1>3. P \in Rings(E) /\ P.read = q.read + 1 /\ P.write = q.write
  BY <1>1, <1>2 DEF Rings
<1>4. \A i : At(P, i) = At(q, i)
  BY <1>2 DEF At
<1>5. Front(q) \in E
  BY <1>1, ModRange DEF Front, At
<1> HIDE DEF P
<1>6. Pending(q) = Pending(P) \union {q.read} /\ q.read \notin Pending(P)
  BY <1>1, <1>3 DEF Pending, Ordered, IsEmpty
<1>7. Ordered(P) /\ Distinct(P)
  BY <1>1, <1>3, <1>4, <1>6 DEF Ordered, IsEmpty, Distinct
<1>8. Front(q).packet_id \in Queued(q)
  BY <1>6 DEF Front, Queued
<1>9. Queued(P) = Queued(q) \ {Front(q).packet_id}
  BY <1>4, <1>6 DEF Queued, Front, Distinct
<1>10. QED
  BY <1>3, <1>5, <1>7, <1>8, <1>9 DEF P

\* Whatever its room, a push adds no packet but its own.
LEMMA PushAdds ==
  ASSUME NEW E, NEW q \in Rings(E), NEW e \in E, Ordered(q)
  PROVE  /\ Queued(Push(q, e)) \subseteq Queued(q) \union {e.packet_id}
         /\ Ordered(Push(q, e))
<1> DEFINE P == Push(q, e)
           p == q.write % W
<1>1. q.read \in Nat /\ q.write \in Nat /\ q.entry \in [Slots -> E]
  BY DEF Rings
<1>2. p \in Slots
  BY <1>1, ModRange
<1>3. P = [entry |-> [q.entry EXCEPT ![p] = e], read |-> q.read, write |-> q.write + 1]
  BY DEF Push, Rings
<1>4. P.read = q.read /\ P.write = q.write + 1
  BY <1>3
<1>5. \A i \in Nat : i % W = p => At(P, i) = e
  BY <1>1, <1>2, <1>3 DEF At
<1>6. \A i \in Nat : i % W # p => At(P, i) = At(q, i)
  BY <1>1, <1>3, ModRange DEF At
<1> HIDE DEF P, p
<1>7. ASSUME NEW i \in Pending(P), i % W # p
      PROVE  i \in Pending(q) /\ At(P, i) = At(q, i)
  BY <1>1, <1>4, <1>6, <1>7 DEF Pending, p
<1>8. Pending(P) \subseteq Nat
  BY <1>1, <1>4 DEF Pending
<1>9. Queued(P) \subseteq Queued(q) \union {e.packet_id}
  BY <1>5, <1>7, <1>8 DEF Queued
<1>10. Ordered(P)
  BY <1>1, <1>4 DEF Ordered
<1>11. QED
  BY <1>9, <1>10 DEF P

\* A pop takes the front packet and adds none.
LEMMA PopTakes ==
  ASSUME NEW E, NEW q \in Rings(E), Ordered(q), ~IsEmpty(q)
  PROVE  /\ Queued(Pop(q)) \subseteq Queued(q)
         /\ Front(q).packet_id \in Queued(q)
         /\ Ordered(Pop(q))
<1> DEFINE P == Pop(q)
<1>1. q.read \in Nat /\ q.write \in Nat
  BY DEF Rings
<1>2. P = [entry |-> q.entry, read |-> q.read + 1, write |-> q.write]
  BY DEF Pop, Rings
<1>3. P.read = q.read + 1 /\ P.write = q.write /\ \A i : At(P, i) = At(q, i)
  BY <1>2 DEF At
<1> HIDE DEF P
<1>4. Pending(P) \subseteq Pending(q) /\ q.read \in Pending(q)
  BY <1>1, <1>3 DEF Pending, Ordered, IsEmpty
<1>5. Queued(P) \subseteq Queued(q) /\ Front(q).packet_id \in Queued(q)
  BY <1>3, <1>4 DEF Queued, Front
<1>6. Ordered(P)
  BY <1>1, <1>3 DEF Ordered, IsEmpty
<1>7. QED
  BY <1>5, <1>6 DEF P

\* The packets queued are named by the queue's entries.
LEMMA QueuedType ==
  ASSUME NEW E, NEW q \in Rings(E), NEW S, \A e \in E : e.packet_id \in S
  PROVE  Queued(q) \subseteq S
<1>1. \A i \in Pending(q) : i \in Nat
  BY DEF Pending, Rings
<1>2. \A i \in Pending(q) : At(q, i) \in E
  BY <1>1, ModRange DEF At, Rings
<1>3. QED
  BY <1>2 DEF Queued

-----------------------------------------------------------------------------
(* Why no queue overflows.                                                  *)

\* The pigeonhole step: an injective numbering of a..b-1 by slots that leaves
\* out one slot is shorter than the window.
LEMMA SlotPigeonhole ==
  ASSUME NEW a \in Nat, NEW b \in Nat, a <= b,
         NEW f \in [a .. b - 1 -> Slots], NEW s \in Slots,
         \A i, j \in a .. b - 1 : f[i] = f[j] => i = j,
         \A i \in a .. b - 1 : f[i] # s
  PROVE  b < a + W
<1> DEFINE T == 1 .. W - 1
           shift(x) == IF x < s THEN x + 1 ELSE x
           g == [i \in a .. b - 1 |-> shift(f[i])]
<1>1. g \in [a .. b - 1 -> T]
  BY WindowAssumption DEF Slots
<1>2. \A i, j \in a .. b - 1 : g[i] = g[j] => i = j
  BY WindowAssumption DEF Slots
<1>3. IsFiniteSet(T) /\ Cardinality(T) = W - 1
  BY FS_Interval, WindowAssumption
<1>4. IsFiniteSet(a .. b - 1) /\ Cardinality(a .. b - 1) = b - a
  BY FS_Interval
<1> HIDE DEF g, T
<1>5. ~(Cardinality(T) < Cardinality(a .. b - 1))
  <2> SUFFICES ASSUME Cardinality(T) < Cardinality(a .. b - 1) PROVE FALSE
    OBVIOUS
  <2>1. \E x, y \in a .. b - 1 : x # y /\ g[x] = g[y]
    BY <1>1, <1>3, <1>4, FS_PigeonHole
  <2>2. QED
    BY <2>1, <1>2
<1>6. QED
  BY <1>3, <1>4, <1>5, WindowAssumption

\* A queue without duplicates that leaves out one slot of the window has room.
LEMMA RoomForMissingSlot ==
  ASSUME NEW E, NEW q \in Rings(E), Ordered(q), Distinct(q), Queued(q) \subseteq Slots,
         NEW s \in Slots, s \notin Queued(q)
  PROVE  HasRoom(q)
<1> DEFINE f == [i \in q.read .. q.write - 1 |-> At(q, i).packet_id]
<1>1. q.read \in Nat /\ q.write \in Nat
  BY DEF Rings
<1>2. \A i \in q.read .. q.write - 1 : f[i] \in Queued(q)
  BY DEF Queued, Pending
<1>3. f \in [q.read .. q.write - 1 -> Slots]
  BY <1>2
<1>4. \A i, j \in q.read .. q.write - 1 : f[i] = f[j] => i = j
  BY DEF Distinct, Pending
<1>5. \A i \in q.read .. q.write - 1 : f[i] # s
  BY <1>2
<1> HIDE DEF f
<1>6. QED
  BY <1>1, <1>3, <1>4, <1>5, SlotPigeonhole DEF Ordered, HasRoom

\* A queue without duplicates holds at most W entries.
LEMMA DistinctFits ==
  ASSUME NEW E, NEW q \in Rings(E), Ordered(q), Distinct(q)
  PROVE  q.write <= q.read + W
<1>1. q.read \in Nat /\ q.write \in Nat
  BY DEF Rings
<1> SUFFICES ASSUME q.write > q.read + W PROVE FALSE
  BY <1>1, WindowAssumption
<1>2. q.read \in Pending(q) /\ q.read + W \in Pending(q)
  BY <1>1, WindowAssumption DEF Pending
<1>3. (q.read + W) % W = q.read % W
  BY <1>1, ModPeriodic
<1>4. q.read = q.read + W
  BY <1>2, <1>3 DEF Distinct, At
<1>5. QED
  BY <1>1, <1>4, WindowAssumption

-----------------------------------------------------------------------------
(* Invariants of the packet processor, and its steps.                       *)

\* a packet past the check of remaining_dispatch_slots still has a slot to take
SlotAvailable == pc \in {"kernel", "barrier_bit"} => remaining_dispatch_slots > 0

TypeInv == TypeOK /\ OneRequestPerEngine /\ SlotAvailable

\* a slot in the DMA or the compute stage was given to a packet
InFlightNamed ==
  /\ Ordered(dma_queue) /\ Ordered(launch_queue)
  /\ \A s \in DmaSlots \union ComputeSlots : pending_packets[s].kp # None

\* The ways Next can step.
LEMMA NextCases ==
  ASSUME Next
  PROVE  \/ Claim
         \/ \E n \in Packets : WritePacket(n) \/ Doorbell(n)
         \/ \E i \in AdminInts : RaiseAdmin(i)
         \/ TpcTransfer \/ TpcDecrement
         \/ \E i \in DOMAIN AdminAnswer : TpcEcho(i) \/ InterruptAdmin(i)
         \/ \E r \in tpc_int : TpcPassOver(r)
         \/ \E c \in Cores : CoreCompute(c) \/ InterruptKernel(c)
         \/ NothingToProcess \/ ReadHeader \/ BarrierBit \/ DispatchKernel
         \/ AwaitDeps \/ QueueBarrierSignal \/ RetireBarrier \/ StoreReadIndex
         \/ Advance \/ ClearAqlLeft
         \/ ProcessDmaQueue \/ ProcessLaunchQueue \/ ProcessDecQueue
         \/ InterruptTransfer \/ InterruptCompletion
BY DEF Next, Host, Tpc, MainLoop, ProcessAqlPackets, Handlers

-----------------------------------------------------------------------------
(* Types of the values the actions build.                                   *)

LEMMA PacketIndexType ==
  ASSUME current_packet_number \in Nat
  PROVE  packet_index \in 0 .. Q - 1
BY PacketProcessorAssumption, SMT DEF packet_index

LEMMA CurrentPacketType ==
  ASSUME TypeOK
  PROVE  CurrentPacket \in AqlPackets
BY PacketIndexType DEF TypeOK, HostTypes, MainTypes, CurrentPacket

LEMMA PushType ==
  ASSUME NEW E, NEW q \in Rings(E), NEW e \in E
  PROVE  Push(q, e) \in Rings(E)
<1>1. q.write % W \in Slots
  BY ModRange DEF Rings
<1>2. QED
  BY <1>1 DEF Push, Rings

LEMMA PopType ==
  ASSUME NEW E, NEW q \in Rings(E)
  PROVE  Pop(q) \in Rings(E) /\ Front(q) \in E
<1>1. q.read % W \in Slots
  BY ModRange DEF Rings
<1>2. Front(q) \in E
  BY <1>1 DEF Front, At, Rings
<1>3. Pop(q) \in Rings(E)
  BY DEF Pop, Rings
<1>4. QED
  BY <1>2, <1>3

LEMMA InvalidateType ==
  ASSUME NEW p \in AqlPackets
  PROVE  Invalidate(p) \in AqlPackets
BY DEF Invalidate, AqlPackets, PacketTypes

LEMMA EmptyRingType ==
  ASSUME NEW E, NEW e \in E
  PROVE  EmptyRing(e) \in Rings(E)
BY DEF EmptyRing, Rings

-----------------------------------------------------------------------------
(* Type correctness and the handshakes with the engines.                    *)

LEMMA TypeInvInit == Init => TypeInv
<1> SUFFICES ASSUME Init PROVE TypeInv
  OBVIOUS
<1>1. 0 \in Slots /\ Slots \subseteq Nat /\ None \notin Slots
  BY WindowAssumption DEF Slots, None
<1>2. NoPacket \in AqlPackets
  BY DEF NoPacket, AqlPackets, PacketTypes
<1>3. /\ DmaRequest(0, "kernarg", "LOAD", None) \in DmaRequests
      /\ LaunchRequest(0) \in LaunchRequests
      /\ DecRequest(0, None, None) \in DecRequests
  BY <1>1 DEF DmaRequest, DmaRequests, LaunchRequest, LaunchRequests, DecRequest, DecRequests
<1>4. /\ dma_queue \in Rings(DmaRequests)
      /\ launch_queue \in Rings(LaunchRequests)
      /\ dec_queue \in Rings(DecRequests)
  BY <1>3, EmptyRingType DEF Init
<1>5. HostTypes /\ SharedTypes /\ TpcTypes /\ MainTypes
  <2>1. HostTypes
    BY <1>2 DEF Init, HostTypes
  <2>2. SharedTypes
    BY DEF Init, SharedTypes
  <2>3. TpcTypes
    BY DEF Init, TpcTypes
  <2>4. MainTypes
    BY DEF Init, MainTypes, Headers, PacketTypes, MainPoints
  <2>5. QED
    BY <2>1, <2>2, <2>3, <2>4
<1>6. SlotTypes
  BY <1>1, WindowAssumption DEF Init, SlotTypes, Slots, Statuses
<1>7. DmaTypes /\ CoreTypes /\ CmplTypes
  BY <1>1, <1>3, <1>4 DEF Init, DmaTypes, CoreTypes, CmplTypes
<1>8. MemTypes /\ IntTypes
  BY DEF Init, MemTypes, IntTypes, RawImage
<1>9. OneRequestPerEngine
  BY DEF Init, OneRequestPerEngine, DmaHandshake, CmplHandshake, CoreHandshake, RunningCores
<1>10. SlotAvailable
  BY DEF Init, SlotAvailable
<1>11. QED
  BY <1>5, <1>6, <1>7, <1>8, <1>9, <1>10 DEF TypeInv, TypeOK

\* What the variables an action leaves alone keep.
LEMMA UnchangedTypes ==
  /\ HostTypes /\ UNCHANGED hostVars => HostTypes'
  /\ SharedTypes /\ UNCHANGED <<read_index, aql_left>> => SharedTypes'
  /\ TpcTypes /\ UNCHANGED tpcVars => TpcTypes'
  /\ MainTypes /\ UNCHANGED mainVars => MainTypes'
  /\ SlotTypes /\ UNCHANGED slotVars => SlotTypes'
  /\ DmaTypes /\ UNCHANGED dmaVars => DmaTypes'
  /\ CoreTypes /\ UNCHANGED coreVars => CoreTypes'
  /\ CmplTypes /\ UNCHANGED cmplVars => CmplTypes'
  /\ MemTypes /\ UNCHANGED memVars => MemTypes'
  /\ IntTypes /\ UNCHANGED intVars => IntTypes'
BY DEF HostTypes, hostVars, SharedTypes, TpcTypes, tpcVars, MainTypes, mainVars,
       SlotTypes, slotVars, DmaTypes, dmaVars, CoreTypes, coreVars, CmplTypes, cmplVars,
       MemTypes, memVars, IntTypes, intVars

\* What the handshakes depend on.
LEMMA UnchangedHandshakes ==
  /\ DmaHandshake /\ UNCHANGED <<dmaVars, tpc_int, pp_int>> => DmaHandshake'
  /\ CmplHandshake /\ UNCHANGED <<cmplVars, tpc_int, pp_int>> => CmplHandshake'
  /\ CoreHandshake /\ UNCHANGED <<coreVars, core_int, core_done>> => CoreHandshake'
BY DEF DmaHandshake, CmplHandshake, CoreHandshake, RunningCores, dmaVars, cmplVars, coreVars

-----------------------------------------------------------------------------
(* The host's steps.                                                        *)

LEMMA HostPreservesTypes ==
  ASSUME TypeInv, Host
  PROVE  TypeInv'
<1> USE DEF TypeInv
<1>1. CASE Claim
  <2>1. HostTypes'
    BY <1>1, PacketProcessorAssumption DEF Claim, TypeOK, HostTypes, Packets
  <2>2. TypeOK'
    BY <2>1, <1>1, UnchangedTypes DEF Claim, TypeOK
  <2>3. OneRequestPerEngine' /\ SlotAvailable'
    BY <1>1, UnchangedHandshakes
    DEF Claim, OneRequestPerEngine, SlotAvailable, mainVars, slotVars, intVars
  <2>4. QED
    BY <2>2, <2>3
<1>2. ASSUME NEW n \in Packets, WritePacket(n)
      PROVE  TypeInv'
  <2>1. n % Q \in 0 .. Q - 1
    BY PacketProcessorAssumption, SMT DEF Packets
  <2>2. \A s \in Shapes : Packet(n, s) \in AqlPackets
    BY PacketProcessorAssumption DEF Packet, AqlPackets, PacketShapes
  <2>3. aql' \in [0 .. Q - 1 -> AqlPackets]
    BY <1>2, <2>1, <2>2 DEF WritePacket, TypeOK, HostTypes
  <2>4. HostTypes'
    BY <1>2, <2>3 DEF WritePacket, TypeOK, HostTypes
  <2>5. TypeOK'
    BY <2>4, <1>2, UnchangedTypes DEF WritePacket, TypeOK
  <2>6. OneRequestPerEngine' /\ SlotAvailable'
    BY <1>2, UnchangedHandshakes
    DEF WritePacket, OneRequestPerEngine, SlotAvailable, mainVars, slotVars, intVars
  <2>7. QED
    BY <2>5, <2>6
<1>3. ASSUME NEW n \in Packets, Doorbell(n)
      PROVE  TypeInv'
  <2>1. HostTypes' /\ SharedTypes'
    BY <1>3 DEF Doorbell, TypeOK, HostTypes, SharedTypes
  <2>2. TypeOK'
    BY <2>1, <1>3, UnchangedTypes DEF Doorbell, TypeOK
  <2>3. OneRequestPerEngine' /\ SlotAvailable'
    BY <1>3, UnchangedHandshakes
    DEF Doorbell, OneRequestPerEngine, SlotAvailable, mainVars, slotVars, intVars
  <2>4. QED
    BY <2>2, <2>3
<1>4. ASSUME NEW i \in AdminInts, RaiseAdmin(i)
      PROVE  TypeInv'
  <2>1. i \in {"add", "remove"}
    BY PacketProcessorAssumption
  <2>2. IntTypes'
    BY <1>4, <2>1 DEF RaiseAdmin, TypeOK, IntTypes
  <2>3. TypeOK'
    BY <2>2, <1>4, UnchangedTypes DEF RaiseAdmin, TypeOK
  <2>4. OneRequestPerEngine'
    BY <1>4, <2>1, UnchangedHandshakes
    DEF RaiseAdmin, OneRequestPerEngine, DmaHandshake, CmplHandshake, dmaVars, cmplVars
  <2>5. SlotAvailable'
    BY <1>4 DEF RaiseAdmin, SlotAvailable, mainVars, slotVars
  <2>6. QED
    BY <2>3, <2>4, <2>5
<1>5. QED
  BY <1>1, <1>2, <1>3, <1>4 DEF Host

-----------------------------------------------------------------------------
(* The steps of the TPC and of the cores.                                   *)

LEMMA TpcPreservesTypes ==
  ASSUME TypeInv, Tpc
  PROVE  TypeInv'
<1> USE DEF TypeInv
<1>1. CASE TpcTransfer
  <2>1. dma_reg \in DmaRequests
    BY DEF TypeOK, DmaTypes
  <2>2. dma_reg.pasid \in Packets \union {None}
    BY <2>1 DEF DmaRequests
  <2>3. TpcTypes' /\ MemTypes'
    <3>1. CASE LoadKernarg(dma_reg)
      BY <1>1, <2>2, <3>1 DEF TpcTransfer, LoadKernarg, TypeOK, TpcTypes, MemTypes
    <3>2. CASE LoadImage(dma_reg)
      BY <1>1, <2>2, <3>2 DEF TpcTransfer, LoadImage, TypeOK, TpcTypes, MemTypes, RawImage
    <3>3. CASE StoreImage(dma_reg)
      <4>1. stored' \in [Packets -> BOOLEAN]
        BY <3>3 DEF StoreImage, TypeOK, TpcTypes
      <4>2. QED
        BY <4>1, <1>1, <3>3 DEF TpcTransfer, StoreImage, TypeOK, TpcTypes, MemTypes, memVars
    <3>4. QED
      BY <1>1, <3>1, <3>2, <3>3 DEF TpcTransfer
  <2>4. IntTypes'
    BY <1>1 DEF TpcTransfer, TypeOK, IntTypes
  <2>5. TypeOK'
    BY <2>3, <2>4, <1>1, UnchangedTypes DEF TpcTransfer, TypeOK
  <2>6. DmaHandshake' /\ CmplHandshake'
    BY <1>1 DEF TpcTransfer, AtTpc, OneRequestPerEngine, DmaHandshake, CmplHandshake, dmaVars,
                cmplVars
  <2>7. CoreHandshake' /\ SlotAvailable'
    BY <1>1, UnchangedHandshakes
    DEF TpcTransfer, OneRequestPerEngine, SlotAvailable, mainVars, slotVars
  <2>8. QED
    BY <2>5, <2>6, <2>7 DEF OneRequestPerEngine
<1>2. CASE TpcDecrement
  <2>1. TpcTypes'
    <3>1. /\ signal \in [Packets -> Int] /\ stored \in [Packets -> BOOLEAN]
          /\ passed_over \subseteq {"dma", "cmpl", "added", "removed"}
      BY DEF TypeOK, TpcTypes
    <3>2. passed_over' = passed_over
      BY <1>2 DEF TpcDecrement
    <3> DEFINE h == cmpl_reg.signal_handle
    <3>3. signal' \in [Packets -> Int] /\ stored' = stored
      <4>1. signal' = [signal EXCEPT ![h] = @ - 1] /\ stored' = stored
        BY <1>2 DEF TpcDecrement
      <4> HIDE DEF h
      <4>2. signal' = [n \in Packets |-> IF n = h THEN signal[n] - 1 ELSE signal[n]]
        BY <4>1, <3>1
      <4>3. \A n \in Packets : signal[n] \in Int /\ signal[n] - 1 \in Int
        BY <3>1
      <4>4. QED
        BY <4>1, <4>2, <4>3
    <3>4. QED
      BY <3>1, <3>2, <3>3 DEF TpcTypes
  <2>2. IntTypes'
    BY <1>2 DEF TpcDecrement, TypeOK, IntTypes
  <2>3. TypeOK'
    BY <2>1, <2>2, <1>2, UnchangedTypes DEF TpcDecrement, TypeOK
  <2>4. DmaHandshake' /\ CmplHandshake'
    BY <1>2 DEF TpcDecrement, AtTpc, OneRequestPerEngine, DmaHandshake, CmplHandshake, dmaVars,
                cmplVars
  <2>5. CoreHandshake' /\ SlotAvailable'
    BY <1>2, UnchangedHandshakes
    DEF TpcDecrement, OneRequestPerEngine, SlotAvailable, mainVars, slotVars
  <2>6. QED
    BY <2>3, <2>4, <2>5 DEF OneRequestPerEngine
<1>3. ASSUME NEW i \in DOMAIN AdminAnswer, TpcEcho(i)
      PROVE  TypeInv'
  <2>1. i \in {"add", "remove"} /\ AdminAnswer[i] \in {"added", "removed"}
    BY DEF AdminAnswer
  <2>2. IntTypes'
    BY <1>3, <2>1 DEF TpcEcho, TypeOK, IntTypes
  <2>3. TypeOK'
    BY <2>2, <1>3, UnchangedTypes DEF TpcEcho, TypeOK
  <2>4. DmaHandshake' /\ CmplHandshake'
    BY <1>3, <2>1 DEF TpcEcho, OneRequestPerEngine, DmaHandshake, CmplHandshake, dmaVars, cmplVars
  <2>5. CoreHandshake' /\ SlotAvailable'
    BY <1>3, UnchangedHandshakes
    DEF TpcEcho, OneRequestPerEngine, SlotAvailable, mainVars, slotVars
  <2>6. QED
    BY <2>3, <2>4, <2>5 DEF OneRequestPerEngine
<1>4. ASSUME NEW r \in tpc_int, TpcPassOver(r)
      PROVE  TypeInv'
  <2>1. TpcTypes'
    BY <1>4 DEF TpcPassOver, TypeOK, TpcTypes, IntTypes
  <2>2. TypeOK'
    BY <2>1, <1>4, UnchangedTypes DEF TpcPassOver, TypeOK
  <2>3. OneRequestPerEngine' /\ SlotAvailable'
    BY <1>4, UnchangedHandshakes
    DEF TpcPassOver, OneRequestPerEngine, SlotAvailable, mainVars, slotVars, intVars
  <2>4. QED
    BY <2>2, <2>3
<1>5. QED
  BY <1>1, <1>2, <1>3, <1>4 DEF Tpc

LEMMA CorePreservesTypes ==
  ASSUME TypeInv, NEW c \in Cores, CoreCompute(c)
  PROVE  TypeInv'
<1> USE DEF TypeInv
<1>1. MemTypes'
  BY DEF CoreCompute, TypeOK, MemTypes
<1>2. IntTypes'
  BY DEF CoreCompute, TypeOK, IntTypes
<1>3. TypeOK'
  BY <1>1, <1>2, UnchangedTypes DEF CoreCompute, TypeOK
<1>4. CoreHandshake'
  BY DEF CoreCompute, OneRequestPerEngine, CoreHandshake, RunningCores, coreVars
<1>5. DmaHandshake' /\ CmplHandshake' /\ SlotAvailable'
  BY UnchangedHandshakes
  DEF CoreCompute, OneRequestPerEngine, SlotAvailable, mainVars, slotVars
<1>6. QED
  BY <1>3, <1>4, <1>5 DEF OneRequestPerEngine

-----------------------------------------------------------------------------
(* The steps of the main loop.                                              *)

\* The steps that move the main loop on and change nothing the engines share.
LEMMA PacketStepsPreserveTypes ==
  ASSUME TypeInv,
         \/ NothingToProcess \/ ReadHeader \/ BarrierBit \/ AwaitDeps
         \/ RetireBarrier \/ StoreReadIndex \/ Advance \/ ClearAqlLeft
  PROVE  TypeInv'
<1> USE DEF TypeInv
<1>1. CurrentPacket \in AqlPackets /\ packet_index \in 0 .. Q - 1
  BY CurrentPacketType, PacketIndexType DEF TypeOK, MainTypes
<1>2. \A t : Branch(t) \in {"dma", "kernel", "barrier_and", "barrier_or", "advance"}
  BY DEF Branch
<1>3. \A t \in PacketTypes : Branch(t) \in MainPoints
  BY <1>2 DEF MainPoints
<1>4. CASE NothingToProcess
  <2>1. MainTypes'
    BY <1>4 DEF NothingToProcess, TypeOK, MainTypes, MainPoints, Goto
  <2>2. TypeOK'
    BY <2>1, <1>4, UnchangedTypes DEF NothingToProcess, TypeOK, Goto
  <2>3. OneRequestPerEngine' /\ SlotAvailable'
    BY <1>4, UnchangedHandshakes DEF NothingToProcess, OneRequestPerEngine, SlotAvailable, intVars, Goto
  <2>4. QED
    BY <2>2, <2>3
<1>5. CASE ReadHeader
  <2>1. MainTypes'
    BY <1>5, <1>1, <1>3 DEF ReadHeader, TypeOK, MainTypes, MainPoints, Headers, AqlPackets
  <2>2. TypeOK'
    BY <2>1, <1>5, UnchangedTypes DEF ReadHeader, TypeOK
  <2>3. OneRequestPerEngine'
    BY <1>5, UnchangedHandshakes DEF ReadHeader, OneRequestPerEngine, intVars
  <2>4. SlotAvailable'
    BY <1>5 DEF ReadHeader, SlotAvailable, slotVars
  <2>5. QED
    BY <2>2, <2>3, <2>4
<1>6. CASE BarrierBit
  <2>1. MainTypes'
    BY <1>6, <1>3 DEF BarrierBit, TypeOK, MainTypes, MainPoints, Headers, Goto
  <2>2. TypeOK'
    BY <2>1, <1>6, UnchangedTypes DEF BarrierBit, TypeOK, Goto
  <2>3. OneRequestPerEngine'
    BY <1>6, UnchangedHandshakes DEF BarrierBit, OneRequestPerEngine, intVars, Goto
  <2>4. SlotAvailable'
    BY <1>6 DEF BarrierBit, SlotAvailable, slotVars, Goto
  <2>5. QED
    BY <2>2, <2>3, <2>4
<1>7. CASE AwaitDeps
  <2>1. MainTypes'
    BY <1>7 DEF AwaitDeps, TypeOK, MainTypes, MainPoints, Goto
  <2>2. TypeOK'
    BY <2>1, <1>7, UnchangedTypes DEF AwaitDeps, TypeOK, Goto
  <2>3. OneRequestPerEngine' /\ SlotAvailable'
    BY <1>7, UnchangedHandshakes DEF AwaitDeps, OneRequestPerEngine, SlotAvailable, intVars, Goto
  <2>4. QED
    BY <2>2, <2>3
<1>8. CASE RetireBarrier
  <2>1. Invalidate(aql[packet_index]) \in AqlPackets
    BY <1>1, InvalidateType DEF TypeOK, HostTypes
  <2>2. HostTypes'
    BY <1>8, <2>1 DEF RetireBarrier, TypeOK, HostTypes
  <2>3. MainTypes'
    BY <1>8 DEF RetireBarrier, TypeOK, MainTypes, SharedTypes, MainPoints
  <2>4. TypeOK'
    BY <2>2, <2>3, <1>8, UnchangedTypes DEF RetireBarrier, TypeOK
  <2>5. OneRequestPerEngine' /\ SlotAvailable'
    BY <1>8, UnchangedHandshakes DEF RetireBarrier, OneRequestPerEngine, SlotAvailable, intVars
  <2>6. QED
    BY <2>4, <2>5
<1>9. CASE StoreReadIndex
  <2>1. MainTypes' /\ SharedTypes'
    BY <1>9 DEF StoreReadIndex, TypeOK, MainTypes, SharedTypes, MainPoints, Goto
  <2>2. TypeOK'
    BY <2>1, <1>9, UnchangedTypes DEF StoreReadIndex, TypeOK, Goto
  <2>3. OneRequestPerEngine' /\ SlotAvailable'
    BY <1>9, UnchangedHandshakes DEF StoreReadIndex, OneRequestPerEngine, SlotAvailable, intVars, Goto
  <2>4. QED
    BY <2>2, <2>3
<1>10. CASE Advance
  <2>1. MainTypes'
    BY <1>10 DEF Advance, TypeOK, MainTypes, MainPoints
  <2>2. TypeOK'
    BY <2>1, <1>10, UnchangedTypes DEF Advance, TypeOK
  <2>3. OneRequestPerEngine' /\ SlotAvailable'
    BY <1>10, UnchangedHandshakes DEF Advance, OneRequestPerEngine, SlotAvailable, intVars
  <2>4. QED
    BY <2>2, <2>3
<1>11. CASE ClearAqlLeft
  <2>1. MainTypes' /\ SharedTypes'
    BY <1>11 DEF ClearAqlLeft, TypeOK, MainTypes, SharedTypes, MainPoints, Goto
  <2>2. TypeOK'
    BY <2>1, <1>11, UnchangedTypes DEF ClearAqlLeft, TypeOK, Goto
  <2>3. OneRequestPerEngine' /\ SlotAvailable'
    BY <1>11, UnchangedHandshakes DEF ClearAqlLeft, OneRequestPerEngine, SlotAvailable, intVars, Goto
  <2>4. QED
    BY <2>2, <2>3
<1>12. QED
  BY <1>4, <1>5, <1>6, <1>7, <1>8, <1>9, <1>10, <1>11

LEMMA DispatchPreservesTypes ==
  ASSUME TypeInv, DispatchKernel
  PROVE  TypeInv'
<1> USE DEF TypeInv
<1> DEFINE s == free_slots[remaining_dispatch_slots - 1]
           p == CurrentPacket.num
<1>1. remaining_dispatch_slots \in 1 .. W /\ pc = "kernel"
  BY DEF DispatchKernel, SlotAvailable, TypeOK, SlotTypes, Goto
<1>2. s \in Slots
  BY <1>1, WindowAssumption DEF TypeOK, SlotTypes, Slots
<1>3. p \in Packets \union {None}
  BY CurrentPacketType DEF AqlPackets
<1>4. packet_index \in 0 .. Q - 1
  BY PacketIndexType DEF TypeOK, MainTypes
<1>5. /\ remaining_dispatch_slots' = remaining_dispatch_slots - 1
      /\ pending_packets' = [pending_packets EXCEPT
           ![s] = [kp |-> packet_index, status |-> "GET_KERNARG", pasid |-> p]]
      /\ dma_queue' = Push(dma_queue, DmaRequest(s, "kernarg", "LOAD", p))
      /\ kernargs' = [kernargs EXCEPT ![s] = None]
      /\ pc' = "advance"
  BY DEF DispatchKernel, Goto
<1> HIDE DEF s, p
<1>6. SlotTypes'
  <2>1. [kp |-> packet_index, status |-> "GET_KERNARG", pasid |-> p]
          \in [kp : (0 .. Q - 1) \union {None}, status : Statuses, pasid : Packets \union {None}]
    BY <1>3, <1>4 DEF Statuses
  <2>2. remaining_dispatch_slots' \in 0 .. W
    BY <1>1, <1>5, WindowAssumption
  <2>3. free_slots' = free_slots
    BY DEF DispatchKernel, Goto
  <2>4. QED
    BY <1>2, <1>5, <2>1, <2>2, <2>3 DEF TypeOK, SlotTypes
<1>7. DmaTypes'
  <2>1. DmaRequest(s, "kernarg", "LOAD", p) \in DmaRequests
    BY <1>2, <1>3 DEF DmaRequest, DmaRequests
  <2>2. dma_queue' \in Rings(DmaRequests)
    BY <2>1, <1>5, PushType DEF TypeOK, DmaTypes
  <2>3. QED
    BY <2>2 DEF DispatchKernel, TypeOK, DmaTypes, Goto
<1>8. MainTypes' /\ MemTypes'
  <2>1. MainTypes'
    BY DEF DispatchKernel, TypeOK, MainTypes, MainPoints, Goto
  <2>2. MemTypes'
    BY <1>5 DEF DispatchKernel, TypeOK, MemTypes, Goto
  <2>3. QED
    BY <2>1, <2>2
<1>9. TypeOK'
  BY <1>6, <1>7, <1>8, UnchangedTypes DEF DispatchKernel, TypeOK, Goto
<1>10. DmaHandshake'
  BY DEF DispatchKernel, OneRequestPerEngine, DmaHandshake, intVars, Goto
<1>11. CmplHandshake' /\ CoreHandshake'
  BY UnchangedHandshakes DEF DispatchKernel, OneRequestPerEngine, intVars, Goto
<1>12. SlotAvailable'
  BY <1>5 DEF SlotAvailable
<1>13. QED
  BY <1>9, <1>10, <1>11, <1>12 DEF OneRequestPerEngine

LEMMA BarrierSignalPreservesTypes ==
  ASSUME TypeInv, QueueBarrierSignal
  PROVE  TypeInv'
<1> USE DEF TypeInv
<1>1. packet_index \in Nat
  BY PacketIndexType DEF TypeOK, MainTypes
<1>2. CurrentPacket.num \in Packets \union {None}
  BY CurrentPacketType DEF AqlPackets
<1>3. DecRequest(packet_index, CurrentPacket.num, CurrentPacket.num) \in DecRequests
  BY <1>1, <1>2 DEF DecRequest, DecRequests
<1>4. dec_queue' \in Rings(DecRequests)
  BY <1>3, PushType DEF QueueBarrierSignal, TypeOK, CmplTypes, Goto
<1>5. CmplTypes'
  BY <1>4 DEF QueueBarrierSignal, TypeOK, CmplTypes, Goto
<1>6. MainTypes'
  BY DEF QueueBarrierSignal, TypeOK, MainTypes, MainPoints, Goto
<1>7. TypeOK'
  BY <1>5, <1>6, UnchangedTypes DEF QueueBarrierSignal, TypeOK, Goto
<1>8. CmplHandshake'
  BY DEF QueueBarrierSignal, OneRequestPerEngine, CmplHandshake, intVars, Goto
<1>9. DmaHandshake' /\ CoreHandshake' /\ SlotAvailable'
  BY UnchangedHandshakes DEF QueueBarrierSignal, OneRequestPerEngine, SlotAvailable, intVars, Goto
<1>10. QED
  BY <1>7, <1>8, <1>9 DEF OneRequestPerEngine

LEMMA ProcessDmaPreservesTypes ==
  ASSUME TypeInv, ProcessDmaQueue
  PROVE  TypeInv'
<1> USE DEF TypeInv
<1>1. MainTypes'
  BY DEF ProcessDmaQueue, TypeOK, MainTypes, MainPoints, Goto, DmaIdle
<1>2. SlotAvailable'
  BY DEF ProcessDmaQueue, SlotAvailable, Goto, DmaIdle
<1>3. CASE ~IsEmpty(dma_queue) /\ DmaIdle
  <2>1. Front(dma_queue) \in DmaRequests /\ Pop(dma_queue) \in Rings(DmaRequests)
    BY PopType DEF TypeOK, DmaTypes
  <2>2. /\ dma_reg' = Front(dma_queue)
        /\ current_dma_packet_id' = Front(dma_queue).packet_id
        /\ tpc_int' = tpc_int \union {"dma"}
        /\ dma_queue' = Pop(dma_queue)
    BY <1>3 DEF ProcessDmaQueue, Goto, DmaIdle
  <2>3. current_dma_packet_id' \in Slots
    BY <2>1, <2>2 DEF DmaRequests
  <2>4. DmaTypes'
    BY <2>1, <2>2, <2>3 DEF DmaTypes
  <2>5. IntTypes'
    BY <2>2 DEF ProcessDmaQueue, TypeOK, IntTypes, Goto, DmaIdle
  <2>6. TypeOK'
    BY <1>1, <2>4, <2>5, UnchangedTypes DEF ProcessDmaQueue, TypeOK, Goto, DmaIdle
  <2>7. current_dma_packet_id' # None
    BY <2>3 DEF Slots, None
  <2>8. DmaHandshake'
    BY <1>3, <2>2, <2>7 DEF ProcessDmaQueue, OneRequestPerEngine, DmaHandshake, Goto, DmaIdle
  <2>9. CmplHandshake'
    BY <2>2 DEF ProcessDmaQueue, OneRequestPerEngine, CmplHandshake, cmplVars, Goto, DmaIdle
  <2>10. CoreHandshake'
    BY UnchangedHandshakes DEF ProcessDmaQueue, OneRequestPerEngine, Goto, DmaIdle
  <2>11. QED
    BY <1>2, <2>6, <2>8, <2>9, <2>10 DEF OneRequestPerEngine
<1>4. CASE ~(~IsEmpty(dma_queue) /\ DmaIdle)
  <2>1. UNCHANGED <<dmaVars, tpc_int>>
    BY <1>4 DEF ProcessDmaQueue, Goto, DmaIdle
  <2>2. TypeOK'
    BY <1>1, <2>1, UnchangedTypes DEF ProcessDmaQueue, TypeOK, intVars, Goto, DmaIdle
  <2>3. OneRequestPerEngine'
    BY <2>1, UnchangedHandshakes DEF ProcessDmaQueue, OneRequestPerEngine, Goto, DmaIdle
  <2>4. QED
    BY <1>2, <2>2, <2>3
<1>5. QED
  BY <1>3, <1>4

LEMMA ProcessLaunchPreservesTypes ==
  ASSUME TypeInv, ProcessLaunchQueue
  PROVE  TypeInv'
<1> USE DEF TypeInv
<1>1. MainTypes'
  BY DEF ProcessLaunchQueue, TypeOK, MainTypes, MainPoints, Goto
<1>2. SlotAvailable'
  BY DEF ProcessLaunchQueue, SlotAvailable, Goto
<1>3. CASE ~IsEmpty(launch_queue) /\ RunningCores # Cores
  <2>1. PICK c \in Cores :
          /\ FirstIdle(c)
          /\ core_reg' = SourceWritten(core_reg, c, Front(launch_queue).packet_id)
          /\ core_usage' = [core_usage EXCEPT
               ![c] = [running |-> TRUE, packet_id |-> Front(launch_queue).packet_id]]
          /\ core_int' = core_int \union {c}
          /\ launch_queue' = Pop(launch_queue)
    BY <1>3 DEF ProcessLaunchQueue, Goto
  <2> DEFINE s == Front(launch_queue).packet_id
  <2>2. s \in Slots /\ Pop(launch_queue) \in Rings(LaunchRequests)
    <3>1. /\ Front(launch_queue) \in LaunchRequests
          /\ Pop(launch_queue) \in Rings(LaunchRequests)
      BY PopType DEF TypeOK, CoreTypes
    <3>2. QED
      BY <3>1 DEF LaunchRequests
  <2> HIDE DEF s
  <2>3. /\ core_reg' = [core_reg EXCEPT ![c] = s]
        /\ core_usage' = [core_usage EXCEPT ![c] = [running |-> TRUE, packet_id |-> s]]
    BY <2>1 DEF s, SourceWritten
  <2>4. CoreTypes'
    BY <2>1, <2>2, <2>3 DEF TypeOK, CoreTypes
  <2>5. IntTypes'
    BY <2>1 DEF ProcessLaunchQueue, TypeOK, IntTypes, Goto
  <2>6. TypeOK'
    BY <1>1, <2>4, <2>5, UnchangedTypes DEF ProcessLaunchQueue, TypeOK, Goto
  <2>7. c \notin RunningCores /\ RunningCores' = RunningCores \union {c}
    BY <2>1, <2>3 DEF FirstIdle, RunningCores, TypeOK, CoreTypes
  <2>8. \A d \in RunningCores' : core_reg'[d] = core_usage'[d].packet_id
    BY <2>3, <2>7 DEF TypeOK, CoreTypes, OneRequestPerEngine, CoreHandshake, RunningCores
  <2>9. CoreHandshake'
    BY <2>1, <2>7, <2>8 DEF ProcessLaunchQueue, OneRequestPerEngine, CoreHandshake, Goto
  <2>10. DmaHandshake' /\ CmplHandshake'
    BY UnchangedHandshakes DEF ProcessLaunchQueue, OneRequestPerEngine, Goto
  <2>11. QED
    BY <1>2, <2>6, <2>9, <2>10 DEF OneRequestPerEngine
<1>4. CASE ~(~IsEmpty(launch_queue) /\ RunningCores # Cores)
  <2>1. UNCHANGED <<coreVars, core_int>>
    BY <1>4 DEF ProcessLaunchQueue, Goto
  <2>2. TypeOK'
    BY <1>1, <2>1, UnchangedTypes DEF ProcessLaunchQueue, TypeOK, intVars, Goto
  <2>3. OneRequestPerEngine'
    BY <2>1, UnchangedHandshakes DEF ProcessLaunchQueue, OneRequestPerEngine, Goto
  <2>4. QED
    BY <1>2, <2>2, <2>3
<1>5. QED
  BY <1>3, <1>4

LEMMA ProcessDecPreservesTypes ==
  ASSUME TypeInv, ProcessDecQueue
  PROVE  TypeInv'
<1> USE DEF TypeInv
<1>1. MainTypes'
  BY DEF ProcessDecQueue, TypeOK, MainTypes, MainPoints, Goto
<1>2. SlotAvailable'
  BY DEF ProcessDecQueue, SlotAvailable, Goto
<1>3. CASE ~IsEmpty(dec_queue) /\ current_cmpl_packet_id = None
  <2>1. Front(dec_queue) \in DecRequests /\ Pop(dec_queue) \in Rings(DecRequests)
    BY PopType DEF TypeOK, CmplTypes
  <2>2. /\ cmpl_reg' = Front(dec_queue)
        /\ current_cmpl_packet_id' = Front(dec_queue).packet_id
        /\ tpc_int' = tpc_int \union {"cmpl"}
        /\ dec_queue' = Pop(dec_queue)
    BY <1>3 DEF ProcessDecQueue, Goto
  <2>3. current_cmpl_packet_id' \in Nat
    BY <2>1, <2>2 DEF DecRequests
  <2>4. CmplTypes'
    BY <2>1, <2>2, <2>3 DEF CmplTypes
  <2>5. IntTypes'
    BY <2>2 DEF ProcessDecQueue, TypeOK, IntTypes, Goto
  <2>6. TypeOK'
    BY <1>1, <2>4, <2>5, UnchangedTypes DEF ProcessDecQueue, TypeOK, Goto
  <2>7. current_cmpl_packet_id' # None
    BY <2>3 DEF None
  <2>8. CmplHandshake'
    BY <1>3, <2>2, <2>7 DEF ProcessDecQueue, OneRequestPerEngine, CmplHandshake, Goto
  <2>9. DmaHandshake'
    BY <2>2 DEF ProcessDecQueue, OneRequestPerEngine, DmaHandshake, dmaVars, Goto
  <2>10. CoreHandshake'
    BY UnchangedHandshakes DEF ProcessDecQueue, OneRequestPerEngine, Goto
  <2>11. QED
    BY <1>2, <2>6, <2>8, <2>9, <2>10 DEF OneRequestPerEngine
<1>4. CASE ~(~IsEmpty(dec_queue) /\ current_cmpl_packet_id = None)
  <2>1. UNCHANGED <<cmplVars, tpc_int>>
    BY <1>4 DEF ProcessDecQueue, Goto
  <2>2. TypeOK'
    BY <1>1, <2>1, UnchangedTypes DEF ProcessDecQueue, TypeOK, intVars, Goto
  <2>3. OneRequestPerEngine'
    BY <2>1, UnchangedHandshakes DEF ProcessDecQueue, OneRequestPerEngine, Goto
  <2>4. QED
    BY <1>2, <2>2, <2>3
<1>5. QED
  BY <1>3, <1>4

-----------------------------------------------------------------------------
(* The steps of the handlers.                                               *)

\* Releasing a slot keeps the types of the stack, the packets and READ_INDEX.
LEMMA ReleaseType ==
  ASSUME TypeOK, NEW s \in Slots, ReleaseSlot(s)
  PROVE  /\ aql' \in [0 .. Q - 1 -> AqlPackets]
         /\ read_index' \in Nat
         /\ SlotTypes'
         /\ remaining_dispatch_slots' = remaining_dispatch_slots + 1
<1> DEFINE i == pending_packets[s].kp
<1>1. i \in 0 .. Q - 1
  BY DEF ReleaseSlot, TypeOK, SlotTypes, Freed, Counted
<1>2. aql' = [aql EXCEPT ![i] = Invalidate(aql[i])]
  BY DEF ReleaseSlot, Freed, Counted
<1>3. remaining_dispatch_slots \in 0 .. W /\ remaining_dispatch_slots < W
  BY DEF ReleaseSlot, TypeOK, SlotTypes, Freed, Counted
<1> HIDE DEF i
<1>4. aql' \in [0 .. Q - 1 -> AqlPackets]
  BY <1>1, <1>2, InvalidateType DEF TypeOK, HostTypes
<1>5. read_index' \in Nat
  BY DEF ReleaseSlot, TypeOK, SharedTypes, Freed, Counted
<1>6. /\ remaining_dispatch_slots' = remaining_dispatch_slots + 1
      /\ free_slots' = [free_slots EXCEPT ![remaining_dispatch_slots] = s]
      /\ pending_packets' = pending_packets
  BY DEF ReleaseSlot, Freed, Counted
<1>7. remaining_dispatch_slots \in Slots /\ remaining_dispatch_slots + 1 \in 0 .. W
  BY <1>3, WindowAssumption DEF Slots
<1>8. free_slots' \in [Slots -> Slots]
  BY <1>6, <1>7 DEF TypeOK, SlotTypes
<1>9. SlotTypes'
  BY <1>6, <1>7, <1>8 DEF TypeOK, SlotTypes
<1>10. QED
  BY <1>4, <1>5, <1>6, <1>9

\* Setting the status of a slot changes nothing else in pending_packets.
LEMMA SetStatus ==
  ASSUME SlotTypes, NEW s \in Slots, NEW t \in Statuses,
         pending_packets' = [pending_packets EXCEPT ![s].status = t]
  PROVE  /\ UNCHANGED <<free_slots, remaining_dispatch_slots>> => SlotTypes'
         /\ \A r \in Slots : pending_packets'[r].kp = pending_packets[r].kp
         /\ \A r \in Slots : pending_packets'[r].pasid = pending_packets[r].pasid
         /\ \A r \in Slots : pending_packets'[r].status =
                              IF r = s THEN t ELSE pending_packets[r].status
<1> DEFINE p == pending_packets[s]
<1>1. [p EXCEPT !.status = t] = [kp |-> p.kp, status |-> t, pasid |-> p.pasid]
  BY DEF SlotTypes
<1>2. [pending_packets EXCEPT ![s].status = t] =
        [pending_packets EXCEPT ![s] = [p EXCEPT !.status = t]]
  OBVIOUS
<1>3. pending_packets' =
        [pending_packets EXCEPT ![s] = [kp |-> p.kp, status |-> t, pasid |-> p.pasid]]
  BY <1>1, <1>2
<1>4. \A r \in Slots : pending_packets'[r] =
        IF r = s THEN [kp |-> p.kp, status |-> t, pasid |-> p.pasid] ELSE pending_packets[r]
  BY <1>3 DEF SlotTypes
<1>5. UNCHANGED <<free_slots, remaining_dispatch_slots>> => SlotTypes'
  BY <1>3 DEF SlotTypes
<1>6. QED
  BY <1>4, <1>5

LEMMA TransferPreservesTypes ==
  ASSUME TypeInv, InFlightNamed, InterruptTransfer
  PROVE  TypeInv'
<1> USE DEF TypeInv
<1> DEFINE s == current_dma_packet_id
           requested == pending_packets[s].pasid
<1>1. "dma" \in pp_int /\ s \in Slots
  BY DEF InterruptTransfer, OneRequestPerEngine, DmaHandshake, TypeOK, DmaTypes
<1>2. requested \in Packets \union {None}
  BY <1>1 DEF TypeOK, SlotTypes
<1>3. /\ pp_int' = pp_int \ {"dma"}
      /\ current_dma_packet_id' = None
      /\ UNCHANGED <<write_index, claimed, ringing, aql_left, tpcVars, mainVars, dma_reg,
                      core_usage, core_reg, current_cmpl_packet_id, cmpl_reg,
                      tpc_int, core_int, core_done>>
      /\ \/ TransferKernarg(s) \/ TransferImage(s) \/ TransferResultSignal(s)
         \/ TransferResult(s) \/ TransferIgnored(s)
  BY DEF InterruptTransfer
<1> HIDE DEF s, requested
<1> DEFINE Changed == /\ aql' \in [0 .. Q - 1 -> AqlPackets]
                      /\ read_index' \in Nat
                      /\ SlotTypes'
                      /\ dma_queue' \in Rings(DmaRequests)
                      /\ launch_queue' \in Rings(LaunchRequests)
                      /\ dec_queue' \in Rings(DecRequests)
                      /\ MemTypes'
                      /\ remaining_dispatch_slots' >= remaining_dispatch_slots
<1>4. /\ aql \in [0 .. Q - 1 -> AqlPackets] /\ read_index \in Nat /\ SlotTypes
      /\ dma_queue \in Rings(DmaRequests) /\ launch_queue \in Rings(LaunchRequests)
      /\ dec_queue \in Rings(DecRequests) /\ MemTypes
      /\ remaining_dispatch_slots \in Int
  BY DEF TypeOK, HostTypes, SharedTypes, SlotTypes, DmaTypes, CoreTypes, CmplTypes, MemTypes
<1>5. ASSUME TransferKernarg(s) PROVE Changed
  <2>1. DmaRequest(s, "image", "LOAD", requested) \in DmaRequests
    BY <1>1, <1>2 DEF DmaRequest, DmaRequests
  <2>2. dma_queue' \in Rings(DmaRequests)
    BY <1>4, <1>5, <2>1, PushType DEF TransferKernarg, requested
  <2>3. SlotTypes'
    BY <1>1, <1>4, <1>5, SetStatus DEF TransferKernarg, Statuses
  <2>4. MemTypes'
    BY <1>1, <1>4, <1>5 DEF TransferKernarg, MemTypes, RawImage
  <2>5. QED
    BY <1>4, <1>5, <2>2, <2>3, <2>4 DEF TransferKernarg
<1>6. ASSUME TransferImage(s) PROVE Changed
  <2>1. LaunchRequest(s) \in LaunchRequests
    BY <1>1 DEF LaunchRequest, LaunchRequests
  <2>2. launch_queue' \in Rings(LaunchRequests)
    BY <1>4, <1>6, <2>1, PushType DEF TransferImage
  <2>3. SlotTypes'
    BY <1>1, <1>4, <1>6, SetStatus DEF TransferImage, Statuses
  <2>4. QED
    BY <1>4, <1>6, <2>2, <2>3, UnchangedTypes DEF TransferImage
<1>7. ASSUME TransferResultSignal(s) PROVE Changed
  <2> DEFINE k == pending_packets[s].kp
  <2>1. k \in 0 .. Q - 1
    BY <1>1, <1>4 DEF s, InFlightNamed, DmaSlots, SlotTypes, Slots, None
  <2>2. aql[k].num \in Packets \union {None}
    BY <1>4, <2>1 DEF AqlPackets
  <2>3. DecRequest(s, aql[k].num, requested) \in DecRequests
    BY <1>1, <1>2, <2>2 DEF DecRequest, DecRequests, Slots
  <2>4. dec_queue' \in Rings(DecRequests)
    BY <1>4, <1>7, <2>3, PushType DEF TransferResultSignal, requested
  <2>5. SlotTypes'
    BY <1>1, <1>4, <1>7, SetStatus DEF TransferResultSignal, Statuses
  <2>6. QED
    BY <1>4, <1>7, <2>4, <2>5, UnchangedTypes DEF TransferResultSignal
<1>8. ASSUME TransferResult(s) PROVE Changed
  <2>1. ReleaseSlot(s)
    BY <1>8 DEF TransferResult
  <2>2. QED
    BY <1>1, <1>4, <1>8, <2>1, ReleaseType, UnchangedTypes DEF TransferResult
<1>9. ASSUME TransferIgnored(s) PROVE Changed
  BY <1>4, <1>9, UnchangedTypes DEF TransferIgnored, slotVars
<1>10. Changed
  BY <1>3, <1>5, <1>6, <1>7, <1>8, <1>9
<1> HIDE DEF Changed
<1>11. HostTypes' /\ SharedTypes' /\ DmaTypes' /\ CoreTypes' /\ CmplTypes'
  BY <1>3, <1>10
  DEF Changed, TypeOK, HostTypes, SharedTypes, DmaTypes, CoreTypes, CmplTypes
<1>12. IntTypes'
  BY <1>3 DEF TypeOK, IntTypes
<1>13. TypeOK'
  BY <1>3, <1>10, <1>11, <1>12, UnchangedTypes DEF Changed, TypeOK
<1>14. DmaHandshake' /\ CmplHandshake'
  BY <1>1, <1>3 DEF OneRequestPerEngine, DmaHandshake, CmplHandshake
<1>15. CoreHandshake'
  BY <1>3 DEF OneRequestPerEngine, CoreHandshake, RunningCores
<1>16. SlotAvailable'
  BY <1>3, <1>4, <1>10 DEF Changed, SlotAvailable, mainVars, SlotTypes
<1>17. QED
  BY <1>13, <1>14, <1>15, <1>16 DEF OneRequestPerEngine

LEMMA KernelPreservesTypes ==
  ASSUME TypeInv, NEW c \in Cores, InterruptKernel(c)
  PROVE  TypeInv'
<1> USE DEF TypeInv
<1> DEFINE s == core_usage[c].packet_id
<1>1. c \in RunningCores /\ s \in Slots
  BY DEF InterruptKernel, OneRequestPerEngine, CoreHandshake, TypeOK, CoreTypes, ResultRequest, IdleCore
<1>2. pending_packets[s].pasid \in Packets \union {None}
  BY <1>1 DEF TypeOK, SlotTypes
<1>3. DmaRequest(s, "image", "STORE", pending_packets[s].pasid) \in DmaRequests
  BY <1>1, <1>2 DEF DmaRequest, DmaRequests
<1>4. DmaTypes'
  BY <1>3, PushType DEF InterruptKernel, TypeOK, DmaTypes, ResultRequest, IdleCore
<1>5. /\ pending_packets' = [pending_packets EXCEPT ![s].status = "STORE_IMAGE"]
      /\ core_usage' = [core_usage EXCEPT ![c] = [running |-> FALSE, packet_id |-> None]]
      /\ core_done' = core_done \ {c}
      /\ UNCHANGED <<launch_queue, core_reg, core_int>>
  BY DEF InterruptKernel, ResultRequest, IdleCore
<1> HIDE DEF s
<1>6. SlotTypes'
  BY <1>1, <1>5, SetStatus DEF InterruptKernel, TypeOK, Statuses, ResultRequest, IdleCore
<1>7. CoreTypes' /\ IntTypes'
  BY <1>5 DEF InterruptKernel, TypeOK, CoreTypes, IntTypes, ResultRequest, IdleCore
<1>8. TypeOK'
  BY <1>4, <1>6, <1>7, UnchangedTypes DEF InterruptKernel, TypeOK, ResultRequest, IdleCore
<1>9. RunningCores' = RunningCores \ {c}
  BY <1>5 DEF RunningCores, TypeOK, CoreTypes
<1>10. c \in core_done
  BY DEF InterruptKernel, ResultRequest, IdleCore
<1>11. \A d \in RunningCores' : core_usage'[d] = core_usage[d]
  BY <1>5, <1>9 DEF TypeOK, CoreTypes
<1>12. CoreHandshake'
  BY <1>5, <1>9, <1>10, <1>11 DEF OneRequestPerEngine, CoreHandshake
<1>13. DmaHandshake' /\ CmplHandshake'
  BY DEF InterruptKernel, OneRequestPerEngine, DmaHandshake, CmplHandshake, cmplVars, ResultRequest, IdleCore
<1>14. SlotAvailable'
  BY DEF InterruptKernel, SlotAvailable, mainVars, ResultRequest, IdleCore
<1>15. QED
  BY <1>8, <1>12, <1>13, <1>14 DEF OneRequestPerEngine

LEMMA CompletionPreservesTypes ==
  ASSUME TypeInv, InterruptCompletion
  PROVE  TypeInv'
<1> USE DEF TypeInv
<1> DEFINE s == current_cmpl_packet_id
<1>1. s \in Slots /\ ReleaseSlot(s)
  BY DEF InterruptCompletion
<1>2. /\ aql' \in [0 .. Q - 1 -> AqlPackets] /\ read_index' \in Nat /\ SlotTypes'
      /\ remaining_dispatch_slots' = remaining_dispatch_slots + 1
  BY <1>1, ReleaseType
<1>3. HostTypes' /\ SharedTypes'
  BY <1>2 DEF InterruptCompletion, TypeOK, HostTypes, SharedTypes
<1>4. CmplTypes' /\ IntTypes'
  BY DEF InterruptCompletion, TypeOK, CmplTypes, IntTypes
<1>5. TypeOK'
  BY <1>2, <1>3, <1>4, UnchangedTypes DEF InterruptCompletion, TypeOK
<1>6. CmplHandshake' /\ DmaHandshake'
  BY <1>1 DEF InterruptCompletion, OneRequestPerEngine, CmplHandshake, DmaHandshake, dmaVars
<1>7. CoreHandshake'
  BY UnchangedHandshakes DEF InterruptCompletion, OneRequestPerEngine
<1>8. SlotAvailable'
  BY <1>2 DEF InterruptCompletion, SlotAvailable, mainVars, TypeOK, SlotTypes
<1>9. QED
  BY <1>5, <1>6, <1>7, <1>8 DEF OneRequestPerEngine

LEMMA AdminPreservesTypes ==
  ASSUME TypeInv, NEW i \in DOMAIN AdminAnswer, InterruptAdmin(i)
  PROVE  TypeInv'
<1> USE DEF TypeInv
<1>1. i \in {"add", "remove"} /\ AdminAnswer[i] \in {"added", "removed"}
  BY DEF AdminAnswer
<1>2. IntTypes'
  BY <1>1 DEF InterruptAdmin, TypeOK, IntTypes
<1>3. TypeOK'
  <2>1. TpcTypes'
    BY DEF InterruptAdmin, TypeOK, TpcTypes
  <2>2. QED
    BY <2>1, <1>2, UnchangedTypes DEF InterruptAdmin, TypeOK
<1>4. DmaHandshake' /\ CmplHandshake'
  BY <1>1 DEF InterruptAdmin, OneRequestPerEngine, DmaHandshake, CmplHandshake, dmaVars, cmplVars
<1>5. CoreHandshake' /\ SlotAvailable'
  BY UnchangedHandshakes
  DEF InterruptAdmin, OneRequestPerEngine, SlotAvailable, mainVars, slotVars
<1>6. QED
  BY <1>3, <1>4, <1>5 DEF OneRequestPerEngine

-----------------------------------------------------------------------------
(* The slots in flight belong to packets.                                   *)

LEMMA StageTypes ==
  ASSUME TypeOK
  PROVE  /\ Queued(dma_queue) \subseteq Slots /\ DmaSlots \subseteq Slots
         /\ Queued(launch_queue) \subseteq Slots
         /\ Queued(dec_queue) \subseteq Nat /\ CmplSlots \subseteq Nat
<1>1. /\ \A e \in DmaRequests : e.packet_id \in Slots
      /\ \A e \in LaunchRequests : e.packet_id \in Slots
      /\ \A e \in DecRequests : e.packet_id \in Nat
  BY DEF DmaRequests, LaunchRequests, DecRequests
<1>2. /\ dma_queue \in Rings(DmaRequests) /\ current_dma_packet_id \in Slots \union {None}
      /\ launch_queue \in Rings(LaunchRequests)
      /\ dec_queue \in Rings(DecRequests) /\ current_cmpl_packet_id \in Nat \union {None}
  BY DEF TypeOK, DmaTypes, CoreTypes, CmplTypes
<1>3. Queued(dma_queue) \subseteq Slots
  BY <1>1, <1>2, QueuedType
<1>4. Queued(launch_queue) \subseteq Slots
  BY <1>1, <1>2, QueuedType
<1>5. Queued(dec_queue) \subseteq Nat
  BY <1>1, <1>2, QueuedType
<1>6. QED
  BY <1>2, <1>3, <1>4, <1>5 DEF DmaSlots, CmplSlots

\* A core that runs has the slot it was launched with.
LEMMA CoreSlotsType ==
  ASSUME TypeInv
  PROVE  CoreSlots \subseteq Slots
BY DEF TypeInv, OneRequestPerEngine, CoreHandshake, CoreSlots, RunningCores, TypeOK, CoreTypes

LEMMA InFlightNamedInit == Init => InFlightNamed
<1> SUFFICES ASSUME Init PROVE InFlightNamed
  OBVIOUS
<1>1. /\ dma_queue.read = 0 /\ dma_queue.write = 0
      /\ launch_queue.read = 0 /\ launch_queue.write = 0
  BY DEF Init, EmptyRing
<1>2. Queued(dma_queue) = {} /\ Queued(launch_queue) = {}
  BY <1>1 DEF Queued, Pending
<1>3. CoreSlots = {} /\ current_dma_packet_id = None
  BY DEF Init, CoreSlots, RunningCores
<1>4. QED
  BY <1>1, <1>2, <1>3 DEF InFlightNamed, Ordered, DmaSlots, ComputeSlots

LEMMA UnchangedInFlight ==
  ASSUME InFlightNamed,
         UNCHANGED <<pending_packets, dma_queue, current_dma_packet_id, launch_queue, core_usage>>
  PROVE  InFlightNamed'
BY DEF InFlightNamed, Ordered, DmaSlots, ComputeSlots, CoreSlots, RunningCores, Queued, Pending, At

LEMMA DispatchPreservesInFlight ==
  ASSUME TypeInv, InFlightNamed, DispatchKernel
  PROVE  InFlightNamed'
<1> DEFINE s == free_slots[remaining_dispatch_slots - 1]
           p == CurrentPacket.num
           e == DmaRequest(s, "kernarg", "LOAD", p)
<1>1. remaining_dispatch_slots \in 1 .. W
  BY DEF DispatchKernel, TypeInv, SlotAvailable, TypeOK, SlotTypes, Goto
<1>2. s \in Slots
  BY <1>1, WindowAssumption DEF TypeInv, TypeOK, SlotTypes, Slots
<1>3. p \in Packets \union {None}
  BY CurrentPacketType DEF TypeInv, AqlPackets
<1>4. packet_index \in 0 .. Q - 1
  BY PacketIndexType DEF TypeInv, TypeOK, MainTypes
<1>5. /\ pending_packets' = [pending_packets EXCEPT
           ![s] = [kp |-> packet_index, status |-> "GET_KERNARG", pasid |-> p]]
      /\ dma_queue' = Push(dma_queue, e)
      /\ UNCHANGED <<current_dma_packet_id, launch_queue, core_usage>>
  BY DEF DispatchKernel, coreVars, Goto
<1>6. e \in DmaRequests /\ e.packet_id = s
  BY <1>2, <1>3 DEF DmaRequest, DmaRequests
<1> HIDE DEF s, p, e
<1>7. Queued(dma_queue') \subseteq Queued(dma_queue) \union {s} /\ Ordered(dma_queue')
  BY <1>5, <1>6, PushAdds DEF InFlightNamed, TypeInv, TypeOK, DmaTypes
<1>8. /\ DmaSlots' \subseteq DmaSlots \union {s}
      /\ ComputeSlots' = ComputeSlots
  BY <1>5, <1>7 DEF DmaSlots, ComputeSlots, CoreSlots, RunningCores
<1>9. DmaSlots \union ComputeSlots \subseteq Slots
  BY StageTypes, CoreSlotsType DEF TypeInv, ComputeSlots
<1>10. \A r \in Slots : pending_packets'[r].kp =
                          IF r = s THEN packet_index ELSE pending_packets[r].kp
  BY <1>2, <1>5 DEF TypeInv, TypeOK, SlotTypes
<1>11. packet_index # None
  BY <1>4 DEF None
<1>12. \A r \in DmaSlots' \union ComputeSlots' : pending_packets'[r].kp # None
  BY <1>2, <1>8, <1>9, <1>10, <1>11 DEF InFlightNamed
<1>13. Ordered(launch_queue')
  BY <1>5 DEF InFlightNamed
<1>14. QED
  BY <1>7, <1>12, <1>13 DEF InFlightNamed

LEMMA ProcessDmaPreservesInFlight ==
  ASSUME TypeInv, InFlightNamed, ProcessDmaQueue
  PROVE  InFlightNamed'
<1>1. UNCHANGED <<pending_packets, launch_queue, core_usage>>
  BY DEF ProcessDmaQueue, slotVars, coreVars, Goto, DmaIdle
<1>2. CASE ~IsEmpty(dma_queue) /\ DmaIdle
  <2>1. dma_queue' = Pop(dma_queue) /\ current_dma_packet_id' = Front(dma_queue).packet_id
    BY <1>2 DEF ProcessDmaQueue, Goto, DmaIdle
  <2>2. /\ Queued(dma_queue') \subseteq Queued(dma_queue) /\ Ordered(dma_queue')
        /\ current_dma_packet_id' \in Queued(dma_queue)
    BY <1>2, <2>1, PopTakes DEF InFlightNamed, TypeInv, TypeOK, DmaTypes
  <2>3. DmaSlots' \subseteq DmaSlots /\ ComputeSlots' = ComputeSlots
    BY <1>1, <2>2 DEF DmaSlots, ComputeSlots, CoreSlots, RunningCores
  <2>4. Ordered(launch_queue')
    BY <1>1 DEF InFlightNamed
  <2>5. QED
    BY <1>1, <2>2, <2>3, <2>4 DEF InFlightNamed
<1>3. CASE ~(~IsEmpty(dma_queue) /\ DmaIdle)
  BY <1>1, <1>3, UnchangedInFlight DEF ProcessDmaQueue, dmaVars, Goto, DmaIdle
<1>4. QED
  BY <1>2, <1>3

LEMMA ProcessLaunchPreservesInFlight ==
  ASSUME TypeInv, InFlightNamed, ProcessLaunchQueue
  PROVE  InFlightNamed'
<1>1. UNCHANGED <<pending_packets, dma_queue, current_dma_packet_id>>
  BY DEF ProcessLaunchQueue, slotVars, dmaVars, Goto
<1>2. CASE ~IsEmpty(launch_queue) /\ RunningCores # Cores
  <2>1. PICK c \in Cores :
          /\ core_usage' = [core_usage EXCEPT
               ![c] = [running |-> TRUE, packet_id |-> Front(launch_queue).packet_id]]
          /\ launch_queue' = Pop(launch_queue)
    BY <1>2 DEF ProcessLaunchQueue, Goto
  <2>2. /\ Queued(launch_queue') \subseteq Queued(launch_queue) /\ Ordered(launch_queue')
        /\ Front(launch_queue).packet_id \in Queued(launch_queue)
    BY <1>2, <2>1, PopTakes DEF InFlightNamed, TypeInv, TypeOK, CoreTypes
  <2>3. CoreSlots' \subseteq CoreSlots \union {Front(launch_queue).packet_id}
    BY <2>1 DEF CoreSlots, RunningCores, TypeInv, TypeOK, CoreTypes
  <2>4. DmaSlots' = DmaSlots /\ ComputeSlots' \subseteq ComputeSlots
    BY <1>1, <2>2, <2>3 DEF DmaSlots, ComputeSlots
  <2>5. Ordered(dma_queue')
    BY <1>1 DEF InFlightNamed
  <2>6. QED
    BY <1>1, <2>2, <2>4, <2>5 DEF InFlightNamed
<1>3. CASE ~(~IsEmpty(launch_queue) /\ RunningCores # Cores)
  BY <1>1, <1>3, UnchangedInFlight DEF ProcessLaunchQueue, coreVars, Goto
<1>4. QED
  BY <1>2, <1>3

LEMMA TransferPreservesInFlight ==
  ASSUME TypeInv, InFlightNamed, InterruptTransfer
  PROVE  InFlightNamed'
<1> DEFINE s == current_dma_packet_id
           e == DmaRequest(s, "image", "LOAD", pending_packets[s].pasid)
<1>1. s \in Slots /\ s \in DmaSlots
  BY DEF InterruptTransfer, TypeInv, OneRequestPerEngine, DmaHandshake, TypeOK, DmaTypes, DmaSlots
<1>2. /\ dma_queue \in Rings(DmaRequests) /\ launch_queue \in Rings(LaunchRequests)
      /\ Ordered(dma_queue) /\ Ordered(launch_queue)
      /\ SlotTypes
  BY DEF TypeInv, TypeOK, DmaTypes, CoreTypes, InFlightNamed
<1>3. DmaSlots \union ComputeSlots \subseteq Slots
  BY StageTypes, CoreSlotsType DEF TypeInv, ComputeSlots
<1>4. current_dma_packet_id' = None /\ core_usage' = core_usage
  BY DEF InterruptTransfer
<1>5. e \in DmaRequests /\ e.packet_id = s /\ LaunchRequest(s) \in LaunchRequests
      /\ LaunchRequest(s).packet_id = s
  BY <1>1, <1>2 DEF DmaRequest, DmaRequests, LaunchRequest, LaunchRequests, SlotTypes
<1>6. /\ \A r \in Slots : pending_packets'[r].kp = pending_packets[r].kp
      /\ dma_queue' \in {dma_queue, Push(dma_queue, e)}
      /\ launch_queue' \in {launch_queue, Push(launch_queue, LaunchRequest(s))}
  <2>1. CASE TransferKernarg(s)
    BY <1>1, <1>2, <2>1, SetStatus DEF TransferKernarg, Statuses
  <2>2. CASE TransferImage(s)
    BY <1>1, <1>2, <2>2, SetStatus DEF TransferImage, Statuses
  <2>3. CASE TransferResultSignal(s)
    BY <1>1, <1>2, <2>3, SetStatus DEF TransferResultSignal, Statuses
  <2>4. CASE TransferResult(s)
    BY <2>4 DEF TransferResult, ReleaseSlot, Freed, Counted
  <2>5. CASE TransferIgnored(s)
    BY <2>5 DEF TransferIgnored, slotVars
  <2>6. QED
    BY <2>1, <2>2, <2>3, <2>4, <2>5 DEF InterruptTransfer
<1> HIDE DEF s, e
<1>7. Queued(dma_queue') \subseteq Queued(dma_queue) \union {s} /\ Ordered(dma_queue')
  BY <1>2, <1>5, <1>6, PushAdds
<1>8. Queued(launch_queue') \subseteq Queued(launch_queue) \union {s} /\ Ordered(launch_queue')
  BY <1>2, <1>5, <1>6, PushAdds
<1>9. DmaSlots' \union ComputeSlots' \subseteq DmaSlots \union ComputeSlots
  BY <1>1, <1>4, <1>7, <1>8 DEF DmaSlots, ComputeSlots, CoreSlots, RunningCores
<1>10. QED
  BY <1>3, <1>6, <1>7, <1>8, <1>9 DEF InFlightNamed

LEMMA KernelPreservesInFlight ==
  ASSUME TypeInv, InFlightNamed, NEW c \in Cores, InterruptKernel(c)
  PROVE  InFlightNamed'
<1> DEFINE s == core_usage[c].packet_id
           e == DmaRequest(s, "image", "STORE", pending_packets[s].pasid)
<1>1. c \in RunningCores
  BY DEF InterruptKernel, TypeInv, OneRequestPerEngine, CoreHandshake, ResultRequest, IdleCore
<1>2. s \in CoreSlots /\ s \in Slots
  BY <1>1, CoreSlotsType DEF CoreSlots
<1>3. DmaSlots \union ComputeSlots \subseteq Slots
  BY StageTypes, CoreSlotsType DEF TypeInv, ComputeSlots
<1>4. /\ dma_queue \in Rings(DmaRequests) /\ Ordered(dma_queue) /\ Ordered(launch_queue)
      /\ SlotTypes
  BY DEF TypeInv, TypeOK, DmaTypes, InFlightNamed
<1>5. e \in DmaRequests /\ e.packet_id = s
  BY <1>2, <1>4 DEF DmaRequest, DmaRequests, SlotTypes
<1>6. /\ dma_queue' = Push(dma_queue, e)
      /\ core_usage' = [core_usage EXCEPT ![c] = [running |-> FALSE, packet_id |-> None]]
      /\ UNCHANGED <<current_dma_packet_id, launch_queue>>
  BY DEF InterruptKernel, ResultRequest, IdleCore
<1>7. \A r \in Slots : pending_packets'[r].kp = pending_packets[r].kp
  BY <1>2, <1>4, SetStatus DEF InterruptKernel, Statuses, ResultRequest, IdleCore
<1> HIDE DEF s, e
<1>8. Queued(dma_queue') \subseteq Queued(dma_queue) \union {s} /\ Ordered(dma_queue')
  BY <1>4, <1>5, <1>6, PushAdds
<1>9. CoreSlots' \subseteq CoreSlots
  BY <1>6 DEF CoreSlots, RunningCores, TypeInv, TypeOK, CoreTypes
<1>10. DmaSlots' \union ComputeSlots' \subseteq DmaSlots \union ComputeSlots
  BY <1>2, <1>6, <1>8, <1>9 DEF DmaSlots, ComputeSlots
<1>11. Ordered(launch_queue')
  BY <1>4, <1>6
<1>12. QED
  BY <1>3, <1>7, <1>8, <1>10, <1>11 DEF InFlightNamed

-----------------------------------------------------------------------------
(* Every step.                                                              *)

LEMMA StutterPreservesTypes ==
  ASSUME TypeInv, UNCHANGED vars
  PROVE  TypeInv'
<1>1. TypeOK'
  BY UnchangedTypes DEF TypeInv, TypeOK, vars
<1>2. OneRequestPerEngine'
  BY UnchangedHandshakes DEF TypeInv, OneRequestPerEngine, vars, intVars
<1>3. SlotAvailable'
  BY DEF TypeInv, SlotAvailable, vars, mainVars, slotVars
<1>4. QED
  BY <1>1, <1>2, <1>3 DEF TypeInv

LEMMA TypeInvStep ==
  ASSUME TypeInv, InFlightNamed, [Next]_vars
  PROVE  TypeInv'
<1>1. CASE Host
  BY <1>1, HostPreservesTypes
<1>2. CASE Tpc
  BY <1>2, TpcPreservesTypes
<1>3. CASE \E c \in Cores : CoreCompute(c)
  BY <1>3, CorePreservesTypes
<1>4. CASE MainLoop
  BY <1>4, PacketStepsPreserveTypes, DispatchPreservesTypes, BarrierSignalPreservesTypes,
     ProcessDmaPreservesTypes, ProcessLaunchPreservesTypes, ProcessDecPreservesTypes
  DEF MainLoop, ProcessAqlPackets
<1>5. CASE Handlers
  BY <1>5, TransferPreservesTypes, KernelPreservesTypes, CompletionPreservesTypes,
     AdminPreservesTypes
  DEF Handlers
<1>6. CASE UNCHANGED vars
  BY <1>6, StutterPreservesTypes
<1>7. QED
  BY <1>1, <1>2, <1>3, <1>4, <1>5, <1>6 DEF Next

LEMMA InFlightStep ==
  ASSUME TypeInv, InFlightNamed, [Next]_vars
  PROVE  InFlightNamed'
<1> DEFINE Same == UNCHANGED <<pending_packets, dma_queue, current_dma_packet_id,
                               launch_queue, core_usage>>
<1>1. CASE Host
  <2>1. Same
    BY <1>1 DEF Host, Claim, WritePacket, Doorbell, RaiseAdmin, slotVars, dmaVars, coreVars
  <2>2. QED
    BY <2>1, UnchangedInFlight
<1>2. CASE Tpc \/ \E c \in Cores : CoreCompute(c)
  <2>1. Same
    BY <1>2 DEF Tpc, TpcTransfer, TpcDecrement, TpcEcho, TpcPassOver, CoreCompute, slotVars,
                dmaVars, coreVars
  <2>2. QED
    BY <2>1, UnchangedInFlight
<1>3. CASE \/ NothingToProcess \/ ReadHeader \/ BarrierBit \/ AwaitDeps \/ QueueBarrierSignal
           \/ RetireBarrier \/ StoreReadIndex \/ Advance \/ ClearAqlLeft \/ ProcessDecQueue
  <2>1. Same
    BY <1>3 DEF NothingToProcess, ReadHeader, BarrierBit, AwaitDeps, QueueBarrierSignal,
                RetireBarrier, StoreReadIndex, Advance, ClearAqlLeft, ProcessDecQueue,
                slotVars, dmaVars, coreVars, Goto
  <2>2. QED
    BY <2>1, UnchangedInFlight
<1>4. CASE InterruptCompletion \/ \E i \in DOMAIN AdminAnswer : InterruptAdmin(i)
  <2>1. Same
    BY <1>4 DEF InterruptCompletion, ReleaseSlot, InterruptAdmin, slotVars, dmaVars, coreVars, Freed, Counted
  <2>2. QED
    BY <2>1, UnchangedInFlight
<1>5. CASE UNCHANGED vars
  BY <1>5, UnchangedInFlight DEF vars, slotVars, dmaVars, coreVars
<1>6. QED
  BY <1>1, <1>2, <1>3, <1>4, <1>5, DispatchPreservesInFlight, ProcessDmaPreservesInFlight,
     ProcessLaunchPreservesInFlight, TransferPreservesInFlight, KernelPreservesInFlight
  DEF Next, MainLoop, ProcessAqlPackets, Handlers

-----------------------------------------------------------------------------
\* Every behaviour of the packet processor keeps the types of its variables, and
\* hands each engine (DMA, completion, core) one request at a time whose registers
\* stay what they were until its interrupt has been served; a packet that has
\* passed the check of remaining_dispatch_slots finds a slot on the stack.
THEOREM TypeSafety == Spec => [](TypeOK /\ OneRequestPerEngine /\ SlotAvailable)
<1>1. Init => TypeInv /\ InFlightNamed
  BY TypeInvInit, InFlightNamedInit
<1>2. TypeInv /\ InFlightNamed /\ [Next]_vars => TypeInv' /\ InFlightNamed'
  BY TypeInvStep, InFlightStep
<1>3. TypeInv => TypeOK /\ OneRequestPerEngine /\ SlotAvailable
  BY DEF TypeInv
<1>4. QED
  BY <1>1, <1>2, <1>3, PTL DEF Spec

\* The variables keep their types.
THEOREM TypeCorrect == Spec => []TypeOK
<1>1. TypeOK /\ OneRequestPerEngine /\ SlotAvailable => TypeOK
  OBVIOUS
<1>2. QED
  BY <1>1, TypeSafety, PTL
=============================================================================
