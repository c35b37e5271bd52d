------------------------ MODULE KernelDispatchProofs ------------------------
(* The packet processor implements KernelDispatch, for every window, queue,  *)
(* number of cores, number of producers and number of packets, as long as    *)
(* the host leaves one slot of the queue free (SpareSlot).                   *)
EXTENDS PipelineProofs

\* Packets of one slot of the AQL queue are at least its length apart.
LEMMA SameSlotApart ==
  ASSUME NEW m \in Nat, NEW n \in Nat, m % Q = n % Q, m < n
  PROVE  m + Q <= n
<1> DEFINE a == m \div Q
           b == n \div Q
           r == n % Q
<1>1. /\ a \in Int /\ b \in Int /\ r \in 0 .. Q - 1
      /\ m = Q * a + r /\ n = Q * b + r
  BY PacketProcessorAssumption, SMT
<1>2. Q * a \in Int /\ Q * b \in Int
  BY <1>1, PacketProcessorAssumption, SMT
<1> HIDE DEF a, b, r
<1>3. ASSUME b <= a PROVE FALSE
  <2>1. Q * b <= Q * a
    BY <1>1, <1>3, PacketProcessorAssumption, SMT
  <2>2. QED
    BY <1>1, <1>2, <2>1
<1>4. a + 1 <= b
  BY <1>1, <1>3
<1>5. Q * (a + 1) <= Q * b /\ Q * (a + 1) = Q * a + Q
  BY <1>1, <1>4, PacketProcessorAssumption, SMT
<1>6. QED
  BY <1>1, <1>2, <1>5, PacketProcessorAssumption

LEMMA SlotOf ==
  ASSUME NEW n \in Nat
  PROVE  n % Q \in 0 .. Q - 1
BY PacketProcessorAssumption, SMT

-----------------------------------------------------------------------------
(* The AQL queue.                                                           *)

\* The host claims packet n only if the packet before the next of its slot was
\* retired: a slot of the queue stays free.  What happens otherwise: a doorbell
\* that comes late, after the main loop has gone round a full queue, makes it
\* take an old packet that is still in flight for the next one.
SpareSlot == \A n \in Packets : n + Q <= write_index => Retired(n)

\* no barrier packet with a completion signal (the finding barrier_signal)
NoSignalledBarriers == \A s \in Shapes : s.type \in BarrierTypes => ~s.signal

\* the packets the main loop has dealt with
Consumed == IF pc \in {"advance", "barrier_store"} THEN current_packet_number + 1
            ELSE current_packet_number

\* a packet lies in the slot of its number, and was claimed and written
Numbered ==
  \A i \in 0 .. Q - 1 :
    LET p == aql[i] IN
    /\ p.num = None => p.type = "INVALID"
    /\ p.num # None => p.num % Q = i /\ p.num < write_index /\ p.num \notin claimed
    /\ p.type = "INVALID" => ~p.barrier
    /\ p.dep => p.num > 0 /\ p.type \in BarrierTypes \union {"INVALID"}
    /\ p.type \in BarrierTypes => ~p.signal

\* a claimed slot holds an older packet, invalidated, and no one looks for the
\* new one yet
Claims ==
  /\ write_index <= N
  /\ \A n \in claimed : /\ n < write_index /\ Consumed <= n
                        /\ aql[n % Q].num < n /\ aql[n % Q].type = "INVALID"

AllWritten == \A n \in Packets : n < write_index /\ n \notin claimed => Written(n)

OnlyConsumedRetired == \A n \in Packets : Retired(n) => n < Consumed

\* the main loop looks at the packet with its current number
Looks ==
  /\ Consumed <= write_index
  /\ pc \in {"barrier_bit", "kernel", "barrier_and", "barrier_or", "barrier_retire"} =>
       /\ CurrentPacket.num = current_packet_number
       /\ CurrentPacket.type = header.type /\ header.type # "INVALID"
  /\ pc = "kernel" => header.type = "KERNEL_DISPATCH"
  /\ pc \in {"barrier_and", "barrier_or", "barrier_retire"} => header.type \in BarrierTypes
  /\ pc # "barrier_signal"

QueueInv == Numbered /\ Claims /\ AllWritten /\ OnlyConsumedRetired /\ Looks

LEMMA QueueTypes ==
  ASSUME TypeInv
  PROVE  /\ aql \in [0 .. Q - 1 -> AqlPackets]
         /\ write_index \in Nat /\ claimed \subseteq Packets
         /\ current_packet_number \in Nat /\ packet_index \in 0 .. Q - 1
         /\ Consumed \in Nat /\ N \in Nat /\ Q \in Nat /\ Q > 0
         /\ \A i \in 0 .. Q - 1 : aql[i].num \in Packets \union {None}
         /\ Packets \subseteq Nat /\ \A n \in Packets : n < N /\ n % Q \in 0 .. Q - 1
<1>1. current_packet_number \in Nat /\ packet_index \in 0 .. Q - 1
  BY PacketIndexType DEF TypeInv, TypeOK, MainTypes
<1>2. Consumed \in Nat
  BY <1>1 DEF Consumed
<1>3. \A n \in Packets : n % Q \in 0 .. Q - 1
  BY SlotOf DEF Packets
<1>4. aql \in [0 .. Q - 1 -> AqlPackets]
  BY DEF TypeInv, TypeOK, HostTypes
<1>5. \A i \in 0 .. Q - 1 : aql[i].num \in Packets \union {None}
  BY <1>4 DEF AqlPackets
<1>6. QED
  BY <1>1, <1>2, <1>3, <1>4, <1>5, PacketProcessorAssumption DEF TypeInv, TypeOK, HostTypes, Packets

\* A valid header is the current packet's: with a spare slot no old packet is
\* left to be taken for it.
LEMMA ReadsCurrent ==
  ASSUME TypeInv, QueueInv, SpareSlot, Consumed = current_packet_number,
         CurrentPacket.type # "INVALID"
  PROVE  /\ CurrentPacket.num = current_packet_number
         /\ current_packet_number < write_index /\ current_packet_number \notin claimed
<1> PICK m, n : m = CurrentPacket.num /\ n = current_packet_number
  OBVIOUS
<1>1. /\ m \in Packets /\ m % Q = packet_index /\ m < write_index /\ m \notin claimed
      /\ aql[m % Q].num = m /\ aql[m % Q].type # "INVALID"
  BY QueueTypes DEF QueueInv, Numbered, CurrentPacket
<1>2. n \in Nat /\ m % Q = n % Q /\ n <= write_index
  BY <1>1, QueueTypes DEF packet_index, QueueInv, Looks
<1>3. ASSUME m < n PROVE FALSE
  <2>1. m + Q <= n
    BY <1>1, <1>2, <1>3, SameSlotApart, QueueTypes
  <2>2. Retired(m)
    BY <1>1, <1>2, <2>1, QueueTypes DEF SpareSlot
  <2>3. QED
    BY <1>1, <2>2 DEF Retired
<1>4. ASSUME n < m PROVE FALSE
  <2>1. n \in Packets
    BY <1>1, <1>2, <1>4, QueueTypes DEF Packets
  <2>2. Retired(n)
    BY <1>1, <1>2, <1>4, <2>1, QueueTypes DEF Retired, Written
  <2>3. QED
    BY <2>1, <2>2, QueueTypes DEF QueueInv, OnlyConsumedRetired
<1>5. m = n
  BY <1>1, <1>2, <1>3, <1>4, QueueTypes
<1>6. QED
  BY <1>1, <1>5

LEMMA UnchangedQueue ==
  ASSUME QueueInv, UNCHANGED <<aql, write_index, claimed, mainVars>>
  PROVE  QueueInv' /\ Consumed' = Consumed
BY DEF QueueInv, mainVars, Consumed, Numbered, Claims, AllWritten, Written, OnlyConsumedRetired,
       Retired, Looks, CurrentPacket, packet_index

LEMMA ClaimKeeps ==
  ASSUME TypeInv, QueueInv, SpareSlot', Claim
  PROVE  QueueInv' /\ Consumed' = Consumed
<1> PICK n : n = write_index
  OBVIOUS
<1>1. /\ n < N /\ write_index' = n + 1 /\ claimed' = claimed \union {n}
      /\ UNCHANGED <<aql, pc, header, current_packet_number>>
  BY DEF Claim, mainVars
<1>2. Consumed' = Consumed /\ n \in Packets
  BY <1>1, QueueTypes DEF Consumed, Packets
<1>3. aql[n % Q].num < n /\ aql[n % Q].type = "INVALID"
  <2> PICK m : m = aql[n % Q].num
    OBVIOUS
  <2>1. n % Q \in 0 .. Q - 1
    BY <1>2, QueueTypes
  <2>2. CASE m = None
    <3>1. None < n
      BY <1>2, QueueTypes DEF None
    <3>2. QED
      BY <2>1, <2>2, <3>1 DEF QueueInv, Numbered
  <2>3. CASE m # None
    <3>1. m \in Packets /\ m % Q = n % Q /\ m < n
      BY <2>1, <2>3, QueueTypes DEF QueueInv, Numbered
    <3>2. m + Q <= n
      BY <1>2, <3>1, SameSlotApart, QueueTypes
    <3>3. Retired(m)'
      BY <1>1, <3>1, <3>2, QueueTypes DEF SpareSlot
    <3>4. aql[m % Q].num = m => aql[m % Q].type = "INVALID"
      BY <1>1, <3>3 DEF Retired
    <3>5. QED
      BY <3>1, <3>4
  <2>4. QED
    BY <2>2, <2>3
<1>4. Numbered'
  BY <1>1, QueueTypes DEF QueueInv, Numbered, Packets
<1>5. Claims'
  BY <1>1, <1>2, <1>3, QueueTypes DEF QueueInv, Claims, Looks
<1>6. AllWritten' /\ OnlyConsumedRetired'
  <2>1. AllWritten'
    BY <1>1, <1>2, QueueTypes DEF QueueInv, AllWritten, Written
  <2>2. OnlyConsumedRetired'
    <3>1. \A m \in Packets : Retired(m)' => Retired(m)
      BY <1>1 DEF Retired, Written
    <3>2. QED
      BY <1>2, <3>1 DEF QueueInv, OnlyConsumedRetired
  <2>3. QED
    BY <2>1, <2>2
<1>7. Looks'
  BY <1>1, <1>2, QueueTypes DEF QueueInv, Looks, CurrentPacket, packet_index
<1>8. QED
  BY <1>2, <1>4, <1>5, <1>6, <1>7 DEF QueueInv

\* Older packets of a claimed slot were retired, and there are no newer ones.
LEMMA ClaimedIsNewest ==
  ASSUME TypeInv, QueueInv, SpareSlot, NEW n \in claimed, NEW m \in Packets,
         m % Q = n % Q, m # n, m < write_index
  PROVE  m < n /\ Retired(m) /\ m \notin claimed
<1>1. n \in Packets /\ n < write_index /\ aql[n % Q].num < n
  BY QueueTypes DEF QueueInv, Claims
<1>2. ~Retired(n)
  <2>1. aql[n % Q].num \in Int /\ n \in Int
    BY <1>1, QueueTypes DEF None
  <2>2. ~(aql[n % Q].num >= n)
    BY <1>1, <2>1
  <2>3. QED
    BY <2>2 DEF Retired, Written
<1>3. ~(n < m)
  <2> SUFFICES ASSUME n < m PROVE FALSE
    OBVIOUS
  <2>1. n + Q <= m
    BY <1>1, SameSlotApart, QueueTypes
  <2>2. QED
    BY <1>1, <1>2, <2>1, QueueTypes DEF SpareSlot
<1>4. m < n
  BY <1>1, <1>3, QueueTypes
<1>5. m + Q <= n
  BY <1>1, <1>4, SameSlotApart, QueueTypes
<1>6. Retired(m)
  BY <1>1, <1>5, QueueTypes DEF SpareSlot
<1>7. m \notin claimed
  <2>1. aql[m % Q].num \in Int /\ m \in Int
    BY QueueTypes DEF None
  <2>2. aql[m % Q].num >= m
    BY <1>6 DEF Retired, Written
  <2>3. ~(aql[m % Q].num < m)
    BY <2>1, <2>2
  <2>4. QED
    BY <2>3 DEF QueueInv, Claims
<1>8. QED
  BY <1>4, <1>6, <1>7

\* The host writes a claimed packet over a retired one, where no one looks.
LEMMA WritePacketKeeps ==
  ASSUME NoSignalledBarriers, TypeInv, QueueInv, SpareSlot, NEW n \in Packets, WritePacket(n)
  PROVE  /\ QueueInv' /\ Consumed' = Consumed
         /\ \A m \in Packets : Retired(m)' => Retired(m)
<1> PICK s \in Shapes : /\ s.dep => CanDepend(n)
                        /\ aql' = [aql EXCEPT ![n % Q] = Packet(n, s)]
  BY DEF WritePacket
<1>1. /\ n \in claimed /\ claimed' = claimed \ {n}
      /\ UNCHANGED <<write_index, pc, header, current_packet_number>>
  BY DEF WritePacket, mainVars
<1>2. n \in Nat /\ n % Q \in 0 .. Q - 1 /\ n < write_index /\ Consumed <= n
  BY <1>1, QueueTypes DEF QueueInv, Claims
<1>3. /\ Packet(n, s).num = n /\ Packet(n, s).type # "INVALID"
      /\ Packet(n, s).dep => n > 0 /\ Packet(n, s).type \in BarrierTypes
      /\ Packet(n, s).type \in BarrierTypes => ~Packet(n, s).signal
  BY PacketProcessorAssumption
     DEF Packet, PacketShapes, CanDepend, NoSignalledBarriers, BarrierTypes
<1>4. /\ aql'[n % Q] = Packet(n, s)
      /\ \A i \in 0 .. Q - 1 : i # n % Q => aql'[i] = aql[i]
  BY <1>2, QueueTypes
<1>5. Consumed' = Consumed
  BY <1>1 DEF Consumed
<1>6. \A m \in Packets : m % Q = n % Q /\ m # n /\ m < write_index => m < n /\ Retired(m) /\ m \notin claimed
  BY <1>1, ClaimedIsNewest
<1>7. ASSUME NEW m \in Packets, Retired(m)' PROVE Retired(m)
  <2>1. CASE m % Q = n % Q
    <3>1. m <= n
      BY <1>3, <1>4, <2>1, <1>7, QueueTypes DEF Retired, Written
    <3>2. m # n
      BY <1>3, <1>4, <1>7 DEF Retired
    <3>3. QED
      BY <1>2, <1>6, <2>1, <3>1, <3>2, QueueTypes
  <2>2. CASE m % Q # n % Q
    BY <1>4, <2>2, <1>7, QueueTypes DEF Retired, Written
  <2>3. QED
    BY <2>1, <2>2
<1>8. Numbered'
  <2> SUFFICES ASSUME NEW i \in 0 .. Q - 1
               PROVE  LET p == aql'[i] IN
                      /\ p.num = None => p.type = "INVALID"
                      /\ p.num # None => p.num % Q = i /\ p.num < write_index /\ p.num \notin claimed'
                      /\ p.type = "INVALID" => ~p.barrier
                      /\ p.dep => p.num > 0 /\ p.type \in BarrierTypes \union {"INVALID"}
                      /\ p.type \in BarrierTypes => ~p.signal
    BY <1>1 DEF Numbered
  <2>1. CASE i = n % Q
    <3>1. n # None
      BY <1>2 DEF None
    <3>2. QED
      BY <1>1, <1>2, <1>3, <1>4, <2>1, <3>1
  <2>2. CASE i # n % Q
    BY <1>1, <1>4, <2>2 DEF QueueInv, Numbered
  <2>3. QED
    BY <2>1, <2>2
<1>9. Claims'
  <2>1. \A m \in claimed' : m \in Packets /\ m \in claimed /\ m # n /\ m < write_index
    BY <1>1, QueueTypes DEF QueueInv, Claims
  <2>2. \A m \in claimed' : m % Q # n % Q
    BY <1>6, <2>1
  <2>3. QED
    BY <1>1, <1>4, <1>5, <2>1, <2>2, QueueTypes DEF QueueInv, Claims
<1>10. AllWritten'
  <2> SUFFICES ASSUME NEW m \in Packets, m < write_index, m \notin claimed' PROVE Written(m)'
    BY <1>1 DEF AllWritten
  <2>1. CASE m = n
    BY <1>2, <1>3, <1>4, <2>1 DEF Written
  <2>2. CASE m # n /\ m % Q = n % Q
    BY <1>2, <1>3, <1>4, <1>6, <2>2, QueueTypes DEF Written
  <2>3. CASE m % Q # n % Q
    BY <1>1, <1>4, <2>3, QueueTypes DEF QueueInv, AllWritten, Written
  <2>4. QED
    BY <2>1, <2>2, <2>3
<1>11. OnlyConsumedRetired'
  BY <1>5, <1>7 DEF QueueInv, OnlyConsumedRetired
<1>12. Looks'
  <2>1. pc \in {"barrier_bit", "kernel", "barrier_and", "barrier_or", "barrier_retire"}
        => packet_index # n % Q
    <3> SUFFICES ASSUME pc \in {"barrier_bit", "kernel", "barrier_and", "barrier_or", "barrier_retire"},
                        packet_index = n % Q
                 PROVE  FALSE
      OBVIOUS
    <3>1. CurrentPacket.type # "INVALID" /\ CurrentPacket = aql[n % Q]
      BY DEF QueueInv, Looks, CurrentPacket
    <3>2. QED
      BY <1>1, <3>1 DEF QueueInv, Claims
  <2>2. packet_index' = packet_index
    BY <1>1 DEF packet_index
  <2>3. pc \in {"barrier_bit", "kernel", "barrier_and", "barrier_or", "barrier_retire"}
        => CurrentPacket' = CurrentPacket
    BY <1>4, <2>1, <2>2, QueueTypes DEF CurrentPacket
  <2>4. QED
    BY <1>1, <1>5, <2>3 DEF QueueInv, Looks
<1>13. QED
  BY <1>5, <1>7, <1>8, <1>9, <1>10, <1>11, <1>12 DEF QueueInv

\* The main loop goes past the current packet, or stays.
LEMMA ConsumeKeeps ==
  ASSUME TypeInv, QueueInv, UNCHANGED <<aql, write_index, claimed>>,
         \/ Consumed' = Consumed
         \/ /\ Consumed = current_packet_number /\ Consumed' = current_packet_number + 1
            /\ CurrentPacket.num = current_packet_number
  PROVE  Numbered' /\ Claims' /\ AllWritten' /\ OnlyConsumedRetired' /\ Consumed' <= write_index
<1>1. CASE Consumed' = Consumed
  BY <1>1 DEF QueueInv, Numbered, Claims, AllWritten, Written, OnlyConsumedRetired, Retired, Looks
<1>2. CASE /\ Consumed = current_packet_number /\ Consumed' = current_packet_number + 1
           /\ CurrentPacket.num = current_packet_number
  <2> PICK n : n = current_packet_number
    OBVIOUS
  <2>1. n # None
    BY QueueTypes DEF None
  <2>2. n < write_index /\ n \notin claimed
    BY <1>2, <2>1, QueueTypes DEF QueueInv, Numbered, CurrentPacket
  <2>3. Numbered' /\ AllWritten'
    BY DEF QueueInv, Numbered, AllWritten, Written
  <2>4. Claims'
    BY <1>2, <2>2, QueueTypes DEF QueueInv, Claims
  <2>5. OnlyConsumedRetired'
    BY <1>2, QueueTypes DEF QueueInv, OnlyConsumedRetired, Retired, Written
  <2>6. QED
    BY <1>2, <2>2, <2>3, <2>4, <2>5, QueueTypes
<1>3. QED
  BY <1>1, <1>2

\* The firmware invalidates a packet the main loop is past.
LEMMA InvalidateKeeps ==
  ASSUME TypeInv, QueueInv, NEW i \in 0 .. Q - 1, aql' = [aql EXCEPT ![i] = Invalidate(@)],
         UNCHANGED <<write_index, claimed>>, aql[i].type # "INVALID", aql[i].num < Consumed',
         Consumed' \in Nat, Consumed <= Consumed', Consumed' <= write_index,
         \A n \in claimed : Consumed' <= n
  PROVE  /\ Numbered' /\ Claims' /\ AllWritten' /\ OnlyConsumedRetired'
         /\ \A m \in Packets : Retired(m)' => Retired(m) \/ m = aql[i].num
<1>1. /\ aql'[i].num = aql[i].num /\ aql'[i].type = "INVALID" /\ ~aql'[i].barrier
      /\ aql'[i].signal = aql[i].signal /\ aql'[i].dep = aql[i].dep
      /\ \A j \in 0 .. Q - 1 : j # i => aql'[j] = aql[j]
  BY QueueTypes DEF Invalidate
<1>2. \A j \in 0 .. Q - 1 : aql'[j].num = aql[j].num
  BY <1>1
<1>3. "INVALID" \notin BarrierTypes
  BY DEF BarrierTypes
<1>4. Numbered'
  BY <1>1, <1>3 DEF QueueInv, Numbered
<1>5. Claims'
  BY <1>1, QueueTypes DEF QueueInv, Claims
<1>6. \A m \in Packets : Written(m)' <=> Written(m)
  BY <1>2, QueueTypes DEF Written
<1>7. AllWritten'
  BY <1>6 DEF QueueInv, AllWritten
<1>8. ASSUME NEW m \in Packets, Retired(m)', ~Retired(m) PROVE m = aql[i].num
  <2>1. aql[m % Q].num = m /\ aql[m % Q].type # "INVALID" /\ aql'[m % Q].type = "INVALID"
    BY <1>2, <1>6, <1>8, QueueTypes DEF Retired
  <2>2. m % Q = i
    BY <1>1, <2>1, QueueTypes
  <2>3. QED
    BY <2>1, <2>2
<1>9. OnlyConsumedRetired'
  BY <1>8, QueueTypes DEF QueueInv, OnlyConsumedRetired
<1>10. QED
  BY <1>4, <1>5, <1>7, <1>8, <1>9

LEMMA BranchOf ==
  ASSUME NEW t
  PROVE  /\ Branch(t) \in {"dma", "kernel", "barrier_and", "barrier_or", "advance"}
         /\ Branch(t) # "dma" => t # "INVALID"
         /\ Branch(t) = "kernel" => t = "KERNEL_DISPATCH"
         /\ Branch(t) \in {"barrier_and", "barrier_or"} => t \in BarrierTypes
BY DEF Branch, BarrierTypes

\* What a step of the main loop does to the packets it is past.
Consumes == /\ Consumed = current_packet_number /\ Consumed' = current_packet_number + 1
            /\ CurrentPacket.num = current_packet_number

\* The main loop finds the current packet in its slot and goes past it once.
LEMMA MainLoopQueue ==
  ASSUME TypeInv, QueueInv, SpareSlot,
         \/ NothingToProcess \/ ReadHeader \/ BarrierBit \/ DispatchKernel \/ AwaitDeps
         \/ StoreReadIndex \/ Advance \/ ClearAqlLeft
         \/ ProcessDmaQueue \/ ProcessLaunchQueue \/ ProcessDecQueue
  PROVE  QueueInv' /\ (Consumed' = Consumed \/ Consumes)
<1> DEFINE Looking == {"barrier_bit", "kernel", "barrier_and", "barrier_or", "barrier_retire"}
<1>1. /\ UNCHANGED <<aql, write_index, claimed>>
      /\ current_packet_number \in Nat
  BY QueueTypes
     DEF hostVars, NothingToProcess, ReadHeader, BarrierBit, DispatchKernel, AwaitDeps,
         StoreReadIndex, Advance, ClearAqlLeft, ProcessDmaQueue, ProcessLaunchQueue, ProcessDecQueue
<1>2. ASSUME Consumed' = Consumed \/ Consumes, pc' \notin Looking \union {"barrier_signal"}
      PROVE  QueueInv'
  <2>1. Numbered' /\ Claims' /\ AllWritten' /\ OnlyConsumedRetired' /\ Consumed' <= write_index
    BY <1>1, <1>2, ConsumeKeeps DEF Consumes
  <2>2. Looks'
    BY <1>1, <1>2, <2>1 DEF Looks
  <2>3. QED
    BY <2>1, <2>2 DEF QueueInv
<1>3. ASSUME Consumed' = Consumed, current_packet_number' = current_packet_number,
             pc' \in Looking, header'.type = CurrentPacket.type, header'.type # "INVALID",
             CurrentPacket.num = current_packet_number,
             pc' = "kernel" => header'.type = "KERNEL_DISPATCH",
             pc' \in {"barrier_and", "barrier_or", "barrier_retire"} => header'.type \in BarrierTypes
      PROVE  QueueInv'
  <2>1. Numbered' /\ Claims' /\ AllWritten' /\ OnlyConsumedRetired' /\ Consumed' <= write_index
    BY <1>1, <1>3, ConsumeKeeps
  <2>2. CurrentPacket' = CurrentPacket
    BY <1>1, <1>3 DEF CurrentPacket, packet_index
  <2>3. pc' # "barrier_signal"
    BY <1>3
  <2>4. Looks'
    BY <1>1, <1>3, <2>1, <2>2, <2>3 DEF Looks
  <2>5. QED
    BY <2>1, <2>4 DEF QueueInv
<1>4. CASE NothingToProcess \/ StoreReadIndex \/ Advance \/ ClearAqlLeft
           \/ ProcessDmaQueue \/ ProcessLaunchQueue \/ ProcessDecQueue
  <2>1. Consumed' = Consumed /\ pc' \notin Looking \union {"barrier_signal"}
    BY <1>4 DEF Consumed, Goto, NothingToProcess, StoreReadIndex, Advance, ClearAqlLeft,
                ProcessDmaQueue, ProcessLaunchQueue, ProcessDecQueue
  <2>2. QED
    BY <1>2, <2>1
<1>5. CASE ReadHeader
  <2>1. /\ header'.type = CurrentPacket.type /\ current_packet_number' = current_packet_number
        /\ pc' = IF CurrentPacket.barrier THEN "barrier_bit" ELSE Branch(CurrentPacket.type)
        /\ Consumed = current_packet_number
    BY <1>5 DEF ReadHeader, Consumed
  <2>2. CASE CurrentPacket.type = "INVALID"
    <3>1. ~CurrentPacket.barrier
      BY <2>2, QueueTypes DEF QueueInv, Numbered, CurrentPacket
    <3>2. pc' = "dma"
      BY <2>1, <2>2, <3>1 DEF Branch
    <3>3. QED
      BY <1>2, <2>1, <3>2 DEF Consumed
  <2>3. CASE CurrentPacket.type # "INVALID"
    <3>1. CurrentPacket.num = current_packet_number
      BY <2>1, <2>3, ReadsCurrent
    <3>2. CASE pc' \in Looking
      <4>1. Consumed' = Consumed
        BY <2>1, <3>2 DEF Consumed
      <4>2. QED
        BY <1>3, <2>1, <2>3, <3>1, <3>2, <4>1, BranchOf
    <3>3. CASE pc' \notin Looking
      <4>1. pc' \in {"dma", "advance"}
        BY <2>1, <3>3, BranchOf
      <4>2. Consumed' = Consumed \/ Consumes
        BY <2>1, <3>1, <4>1 DEF Consumed, Consumes
      <4>3. QED
        BY <1>2, <4>1, <4>2
    <3>4. QED
      BY <3>2, <3>3
  <2>4. QED
    BY <2>2, <2>3
<1>6. CASE BarrierBit
  <2>1. /\ UNCHANGED <<header, current_packet_number>> /\ pc' = Branch(header.type)
        /\ Consumed = current_packet_number /\ pc = "barrier_bit"
    BY <1>6 DEF BarrierBit, Goto, Consumed
  <2>2. /\ CurrentPacket.num = current_packet_number
        /\ header.type = CurrentPacket.type /\ header.type # "INVALID"
    BY <2>1 DEF QueueInv, Looks
  <2>3. CASE pc' \in Looking
    <3>1. Consumed' = Consumed
      BY <2>1, <2>3 DEF Consumed
    <3>2. QED
      BY <1>3, <2>1, <2>2, <2>3, <3>1, BranchOf
  <2>4. CASE pc' \notin Looking
    <3>1. pc' \in {"dma", "advance"}
      BY <2>1, <2>4, BranchOf
    <3>2. Consumed' = Consumed \/ Consumes
      BY <2>1, <2>2, <3>1 DEF Consumed, Consumes
    <3>3. QED
      BY <1>2, <3>1, <3>2
  <2>5. QED
    BY <2>3, <2>4
<1>7. CASE DispatchKernel
  <2>1. Consumes /\ pc' = "advance"
    BY <1>7 DEF DispatchKernel, Goto, Consumed, Consumes, QueueInv, Looks
  <2>2. QED
    BY <1>2, <2>1
<1>8. CASE AwaitDeps
  <2>1. /\ pc \in {"barrier_and", "barrier_or"}
        /\ UNCHANGED <<header, current_packet_number>>
        /\ pc' = IF CurrentPacket.signal THEN "barrier_signal" ELSE "barrier_retire"
    BY <1>8 DEF AwaitDeps, DepsReady, Goto
  <2>2. /\ CurrentPacket.num = current_packet_number /\ header.type \in BarrierTypes
        /\ header.type = CurrentPacket.type /\ header.type # "INVALID"
    BY <2>1 DEF QueueInv, Looks
  <2>3. ~CurrentPacket.signal
    BY <2>2, QueueTypes DEF QueueInv, Numbered, CurrentPacket
  <2>4. pc' = "barrier_retire" /\ Consumed' = Consumed
    BY <2>1, <2>3 DEF Consumed
  <2>5. QED
    BY <1>3, <2>1, <2>2, <2>4
<1>9. QED
  BY <1>4, <1>5, <1>6, <1>7, <1>8

\* A barrier packet's completion invalidates the packet the loop goes past.
LEMMA RetireBarrierKeeps ==
  ASSUME TypeInv, QueueInv, RetireBarrier
  PROVE  /\ QueueInv' /\ Consumes
         /\ \A m \in Packets : Retired(m)' => Retired(m) \/ m = current_packet_number
<1> PICK i : i = packet_index
  OBVIOUS
<1>1. /\ pc = "barrier_retire" /\ pc' = "barrier_store"
      /\ aql' = [aql EXCEPT ![i] = Invalidate(@)]
      /\ UNCHANGED <<header, current_packet_number, write_index, claimed>>
  BY DEF RetireBarrier
<1>2. CurrentPacket.num = current_packet_number /\ CurrentPacket.type # "INVALID"
  BY <1>1 DEF QueueInv, Looks
<1>3. i \in 0 .. Q - 1 /\ CurrentPacket = aql[i]
  BY QueueTypes DEF CurrentPacket
<1>4. Consumes
  BY <1>1, <1>2 DEF Consumes, Consumed
<1>5. aql[i].num < write_index /\ aql[i].num \notin claimed
  <2>1. aql[i].num # None
    BY <1>2, <1>3, QueueTypes DEF None
  <2>2. QED
    BY <1>3, <2>1 DEF QueueInv, Numbered
<1>6. /\ Consumed' \in Nat /\ Consumed <= Consumed' /\ aql[i].num < Consumed'
      /\ Consumed' <= write_index
  BY <1>2, <1>3, <1>4, <1>5, QueueTypes DEF Consumes
<1>7. \A n \in claimed : Consumed' <= n
  BY <1>2, <1>3, <1>4, <1>5, QueueTypes DEF Consumes, QueueInv, Claims
<1>8. /\ Numbered' /\ Claims' /\ AllWritten' /\ OnlyConsumedRetired'
      /\ \A m \in Packets : Retired(m)' => Retired(m) \/ m = aql[i].num
  BY <1>1, <1>2, <1>3, <1>6, <1>7, InvalidateKeeps
<1>9. Looks'
  BY <1>1, <1>6 DEF Looks
<1>10. QED
  BY <1>2, <1>3, <1>4, <1>8, <1>9 DEF QueueInv

-----------------------------------------------------------------------------
(* The packets in flight.                                                   *)

\* the window slots in use
Busy == Slots \ FreeSlots

\* a window slot in use holds a kernel that lies, still valid, in its AQL slot
Holds(s) ==
  LET p == pending_packets[s] IN
  /\ p.pasid \in Packets /\ p.kp = p.pasid % Q /\ p.pasid < Consumed
  /\ aql[p.kp].num = p.pasid /\ aql[p.kp].type = "KERNEL_DISPATCH"

\* and no other slot holds it
HeldOnce == \A s, t \in Busy : pending_packets[s].pasid = pending_packets[t].pasid => s = t

HeldInv == (\A s \in Busy : Holds(s)) /\ HeldOnce

LEMMA BusySlots ==
  ASSUME TypeInv, SlotInv
  PROVE  Busy = DmaSlots \union ComputeSlots \union CmplSlots
BY StagesApart DEF Busy, SlotInv, SlotConservation, FreeStack, NoSlotLost

\* What the packets in flight depend on.
LEMMA HeldKept ==
  ASSUME TypeInv, HeldInv, Busy' = Busy, Consumed <= Consumed', Consumed \in Nat, Consumed' \in Nat,
         \A s \in Busy : /\ pending_packets'[s].pasid = pending_packets[s].pasid
                         /\ pending_packets'[s].kp = pending_packets[s].kp,
         \A s \in Busy : LET i == pending_packets[s].kp IN aql'[i] = aql[i]
  PROVE  HeldInv'
<1>1. \A s \in Busy : Holds(s)'
  <2> SUFFICES ASSUME NEW s \in Busy PROVE Holds(s)'
    OBVIOUS
  <2>1. Holds(s)
    BY DEF HeldInv
  <2>2. pending_packets[s].pasid < Consumed'
    BY <2>1 DEF Holds, Packets
  <2>3. QED
    BY <2>1, <2>2 DEF Holds
<1>2. HeldOnce'
  BY DEF HeldInv, HeldOnce
<1>3. QED
  BY <1>1, <1>2 DEF HeldInv

\* A slot in use is in front of the main loop, and no one writes its packet.
LEMMA HeldPackets ==
  ASSUME TypeInv, SlotInv, QueueInv, HeldInv, NEW s \in Busy
  PROVE  /\ s \in Slots /\ Holds(s)
         /\ pending_packets[s].kp \in 0 .. Q - 1
         /\ pending_packets[s].pasid \notin claimed
         /\ \A n \in claimed : n % Q # pending_packets[s].kp
         /\ \A t \in Busy : pending_packets[t].kp = pending_packets[s].kp => t = s
<1>1. s \in Slots /\ Holds(s)
  BY DEF Busy, HeldInv
<1>2. pending_packets[s].kp \in 0 .. Q - 1
  BY <1>1, QueueTypes DEF Holds
<1>3. pending_packets[s].pasid \notin claimed
  BY <1>1, QueueTypes DEF Holds, QueueInv, Claims
<1>4. \A n \in claimed : n % Q # pending_packets[s].kp
  BY <1>1 DEF Holds, QueueInv, Claims
<1>5. \A t \in Busy : pending_packets[t].kp = pending_packets[s].kp => t = s
  BY <1>1 DEF HeldInv, HeldOnce, Holds
<1>6. QED
  BY <1>1, <1>2, <1>3, <1>4, <1>5

\* Giving a slot back retires its packet and no other.
LEMMA ReleaseHeld ==
  ASSUME TypeInv, SlotInv, QueueInv, HeldInv, NEW s \in DmaSlots \union CmplSlots,
         ReleaseSlot(s), UNCHANGED <<write_index, claimed, mainVars>>
  PROVE  /\ QueueInv' /\ HeldInv' /\ Consumed' = Consumed
         /\ Busy' = Busy \ {s} /\ s \in Busy /\ UNCHANGED pending_packets
         /\ \A m \in Packets : Retired(m)' => Retired(m) \/ m = pending_packets[s].pasid
         /\ aql' = [aql EXCEPT ![pending_packets[s].kp] = Invalidate(@)]
<1> PICK i, p : i = pending_packets[s].kp /\ p = pending_packets[s].pasid
  OBVIOUS
<1>1. s \in Busy /\ s \in Slots
  BY BusySlots DEF Busy
<1>2. /\ p \in Packets /\ i = p % Q /\ p < Consumed
      /\ aql[i].num = p /\ aql[i].type = "KERNEL_DISPATCH" /\ i \in 0 .. Q - 1
  BY <1>1, HeldPackets DEF Holds
<1>3. /\ aql' = [aql EXCEPT ![i] = Invalidate(@)] /\ UNCHANGED pending_packets
      /\ UNCHANGED <<pc, header, current_packet_number>>
  BY DEF ReleaseSlot, mainVars
<1>4. Consumed' = Consumed
  BY <1>3 DEF Consumed
<1>5. FreeSlots' = FreeSlots \union {s}
  BY <1>1, ReleaseConserves
<1>6. Busy' = Busy \ {s}
  BY <1>5 DEF Busy
<1>7. /\ Numbered' /\ Claims' /\ AllWritten' /\ OnlyConsumedRetired'
      /\ \A m \in Packets : Retired(m)' => Retired(m) \/ m = p
  <2>1. Consumed <= write_index /\ \A n \in claimed : Consumed <= n
    BY DEF QueueInv, Looks, Claims
  <2>2. aql[i].type # "INVALID" /\ aql[i].num < Consumed'
    BY <1>2, <1>4
  <2>3. /\ Consumed' \in Nat /\ Consumed <= Consumed' /\ Consumed' <= write_index
        /\ \A n \in claimed : Consumed' <= n
    BY <1>4, <2>1, QueueTypes
  <2>4. QED
    BY <1>2, <1>3, <2>2, <2>3, InvalidateKeeps
<1>8. Looks'
  <2>1. pc \in {"barrier_bit", "kernel", "barrier_and", "barrier_or", "barrier_retire"}
        => packet_index # i
    BY <1>2, QueueTypes DEF QueueInv, Looks, CurrentPacket, Consumed
  <2>2. packet_index' = packet_index
    BY <1>3 DEF packet_index
  <2>3. pc \in {"barrier_bit", "kernel", "barrier_and", "barrier_or", "barrier_retire"}
        => CurrentPacket' = CurrentPacket
    BY <1>3, <2>1, <2>2, QueueTypes DEF CurrentPacket
  <2>4. QED
    BY <1>3, <1>4, <2>3 DEF QueueInv, Looks
<1>9. \A t \in Busy' : Holds(t)'
  <2> SUFFICES ASSUME NEW t \in Busy, t # s PROVE Holds(t)'
    BY <1>6
  <2>1. pending_packets[t].kp # i /\ Holds(t) /\ pending_packets[t].kp \in 0 .. Q - 1
    BY <1>1, HeldPackets
  <2>2. aql'[pending_packets[t].kp] = aql[pending_packets[t].kp]
    BY <1>3, <2>1, QueueTypes
  <2>3. QED
    BY <1>3, <1>4, <2>1, <2>2 DEF Holds
<1>10. HeldOnce'
  BY <1>3, <1>6 DEF HeldInv, HeldOnce
<1>11. QED
  BY <1>1, <1>3, <1>4, <1>6, <1>7, <1>8, <1>9, <1>10 DEF QueueInv, HeldInv

\* The main loop gives the top of the stack to the current packet.
LEMMA DispatchHeld ==
  ASSUME TypeInv, SlotInv, QueueInv, HeldInv, DispatchKernel, Consumes
  PROVE  /\ HeldInv'
         /\ \E s \in Slots :
              /\ s \notin Busy /\ Busy' = Busy \union {s}
              /\ pending_packets' = [pending_packets EXCEPT
                   ![s] = [kp |-> packet_index, status |-> "GET_KERNARG",
                           pasid |-> current_packet_number]]
<1> PICK s, p : s = free_slots[remaining_dispatch_slots - 1] /\ p = current_packet_number
  OBVIOUS
<1>1. remaining_dispatch_slots \in 1 .. W /\ free_slots \in [Slots -> Slots]
  BY DEF DispatchKernel, TypeInv, SlotAvailable, TypeOK, SlotTypes
<1>2. s \in Slots /\ s \in FreeSlots
  BY <1>1, WindowAssumption DEF Slots, FreeSlots
<1>3. /\ pc = "kernel" /\ CurrentPacket.num = p /\ CurrentPacket.type = "KERNEL_DISPATCH"
      /\ Consumed = p /\ Consumed' = p + 1
  BY DEF DispatchKernel, Consumes, QueueInv, Looks
<1>4. /\ remaining_dispatch_slots' = remaining_dispatch_slots - 1
      /\ pending_packets' = [pending_packets EXCEPT
           ![s] = [kp |-> packet_index, status |-> "GET_KERNARG", pasid |-> p]]
      /\ UNCHANGED <<free_slots, aql>>
  BY <1>3 DEF DispatchKernel, hostVars
<1>5. FreeSlots' = FreeSlots \ {s}
  <2>1. \A i, j \in 0 .. remaining_dispatch_slots - 1 : free_slots[i] = free_slots[j] => i = j
    BY DEF SlotInv, SlotConservation, FreeStack
  <2>2. QED
    BY <1>1, <1>4, <2>1 DEF FreeSlots
<1>6. s \notin Busy /\ Busy' = Busy \union {s}
  BY <1>2, <1>5 DEF Busy
<1>7. /\ \A r \in Slots \ {s} : pending_packets'[r] = pending_packets[r]
      /\ pending_packets'[s] = [kp |-> packet_index, status |-> "GET_KERNARG", pasid |-> p]
  BY <1>2, <1>4 DEF TypeInv, TypeOK, SlotTypes
<1>8. Holds(s)'
  <2>1. p \in Packets
    <3>1. p # None /\ packet_index \in 0 .. Q - 1
      BY QueueTypes DEF None
    <3>2. QED
      BY <1>3, <3>1, QueueTypes DEF CurrentPacket
  <2>2. p < Consumed' /\ packet_index = p % Q
    BY <1>3, QueueTypes DEF packet_index
  <2>3. QED
    BY <1>3, <1>4, <1>7, <2>1, <2>2 DEF Holds, CurrentPacket
<1>9. \A r \in Busy : Holds(r)' /\ r # s /\ pending_packets[r].pasid # p
  <2> SUFFICES ASSUME NEW r \in Busy
               PROVE  Holds(r)' /\ r # s /\ pending_packets[r].pasid # p
    OBVIOUS
  <2>1. r \in Slots /\ r # s /\ Holds(r)
    BY <1>6, HeldPackets
  <2>2. pending_packets[r].pasid < p /\ pending_packets[r].pasid < Consumed'
    BY <1>3, <2>1, QueueTypes DEF Holds
  <2>3. QED
    BY <1>4, <1>7, <2>1, <2>2, QueueTypes DEF Holds
<1>10. HeldInv'
  <2>1. \A r \in Busy : pending_packets'[r] = pending_packets[r]
    BY <1>6, <1>7, HeldPackets
  <2>2. HeldOnce'
    BY <1>6, <1>7, <1>9, <2>1 DEF HeldInv, HeldOnce
  <2>3. QED
    BY <1>6, <1>8, <1>9, <2>2 DEF HeldInv
<1>11. QED
  BY <1>2, <1>4, <1>6, <1>10

\* Where window slots, stack, AQL queue and main loop stay as they are.
LEMMA UnchangedHeld ==
  ASSUME TypeInv, QueueInv, HeldInv,
         UNCHANGED <<slotVars, aql, write_index, claimed, mainVars>>
  PROVE  QueueInv' /\ HeldInv' /\ Consumed' = Consumed /\ Busy' = Busy
<1>1. QueueInv' /\ Consumed' = Consumed
  BY UnchangedQueue
<1>2. Busy' = Busy
  BY DEF Busy, FreeSlots, slotVars
<1>3. Consumed \in Nat /\ Consumed <= Consumed
  BY QueueTypes
<1>4. HeldInv'
  BY <1>1, <1>2, <1>3, HeldKept DEF slotVars
<1>5. QED
  BY <1>1, <1>2, <1>4

\* A handler that moves a slot on leaves it to its packet.
LEMMA StatusHeld ==
  ASSUME TypeInv, SlotInv, QueueInv, HeldInv, NEW s \in Slots, NEW t \in Statuses,
         pending_packets' = [pending_packets EXCEPT ![s].status = t],
         UNCHANGED <<free_slots, remaining_dispatch_slots, aql, write_index, claimed, mainVars>>
  PROVE  QueueInv' /\ HeldInv' /\ Consumed' = Consumed /\ Busy' = Busy
<1>1. QueueInv' /\ Consumed' = Consumed
  BY UnchangedQueue
<1>2. Busy' = Busy
  BY DEF Busy, FreeSlots
<1>3. Consumed \in Nat /\ Consumed <= Consumed
  BY QueueTypes
<1>4. \A r \in Slots : /\ pending_packets'[r].pasid = pending_packets[r].pasid
                       /\ pending_packets'[r].kp = pending_packets[r].kp
  BY SetStatus DEF TypeInv, TypeOK
<1>5. HeldInv'
  BY <1>1, <1>2, <1>3, <1>4, HeldKept, HeldPackets
<1>6. QED
  BY <1>1, <1>2, <1>5

\* The cases of interrupt_transfer that a slot of the DMA stage can be in.
LEMMA TransferCases ==
  ASSUME TypeInv, SlotInv, InterruptTransfer
  PROVE  LET s == current_dma_packet_id IN
         /\ s \in DmaSlots /\ s \in Slots /\ s # None /\ "dma" \in pp_int
         /\ \/ TransferKernarg(s) \/ TransferImage(s)
            \/ TransferResultSignal(s) \/ TransferResult(s)
<1> PICK s : s = current_dma_packet_id
  OBVIOUS
<1>1. "dma" \in pp_int /\ s # None
  BY DEF InterruptTransfer, TypeInv, OneRequestPerEngine, DmaHandshake
<1>2. s \in DmaSlots /\ s \in Slots /\ pending_packets[s].status \in {"GET_KERNARG", "GET_IMAGE", "STORE_IMAGE"}
  BY <1>1, EnginesApart DEF DmaSlots
<1>3. ~TransferIgnored(s)
  BY <1>2 DEF TransferIgnored
<1>4. QED
  BY <1>1, <1>2, <1>3 DEF InterruptTransfer

LEMMA TransferHeld ==
  ASSUME TypeInv, SlotInv, QueueInv, HeldInv, InterruptTransfer
  PROVE  QueueInv' /\ HeldInv' /\ Consumed' = Consumed
<1> PICK s : s = current_dma_packet_id
  OBVIOUS
<1>1. UNCHANGED <<write_index, claimed, mainVars>>
  BY DEF InterruptTransfer
<1>2. CASE TransferResult(s)
  BY <1>1, <1>2, TransferCases, ReleaseHeld DEF TransferResult
<1>3. CASE TransferKernarg(s) \/ TransferImage(s) \/ TransferResultSignal(s)
  <2>1. PICK t \in Statuses :
          /\ pending_packets' = [pending_packets EXCEPT ![s].status = t]
          /\ UNCHANGED <<free_slots, remaining_dispatch_slots, aql>>
    BY <1>3 DEF TransferKernarg, TransferImage, TransferResultSignal, Statuses
  <2>2. QED
    BY <1>1, <2>1, TransferCases, StatusHeld
<1>4. QED
  BY <1>2, <1>3, TransferCases

LEMMA CompletionHeld ==
  ASSUME TypeInv, SlotInv, QueueInv, HeldInv, InterruptCompletion
  PROVE  QueueInv' /\ HeldInv' /\ Consumed' = Consumed
<1>1. current_cmpl_packet_id \in CmplSlots
  BY DEF InterruptCompletion, CmplSlots, Slots, None
<1>2. QED
  BY <1>1, ReleaseHeld DEF InterruptCompletion

LEMMA KernelHeld ==
  ASSUME TypeInv, SlotInv, QueueInv, HeldInv, NEW c \in Cores, InterruptKernel(c)
  PROVE  QueueInv' /\ HeldInv' /\ Consumed' = Consumed /\ Busy' = Busy
<1>1. core_usage[c].packet_id \in Slots
  BY EnginesApart DEF InterruptKernel
<1>2. pending_packets' = [pending_packets EXCEPT ![core_usage[c].packet_id].status = "STORE_IMAGE"]
  BY DEF InterruptKernel
<1>3. QED
  BY <1>1, <1>2, StatusHeld DEF InterruptKernel, hostVars, Statuses

LEMMA WritePacketHeld ==
  ASSUME NoSignalledBarriers, TypeInv, SlotInv, QueueInv, HeldInv, SpareSlot,
         NEW n \in Packets, WritePacket(n)
  PROVE  QueueInv' /\ HeldInv' /\ Consumed' = Consumed /\ Busy' = Busy
<1>1. QueueInv' /\ Consumed' = Consumed
  BY WritePacketKeeps
<1>2. Busy' = Busy /\ UNCHANGED pending_packets
  BY DEF WritePacket, Busy, FreeSlots, slotVars
<1>3. \A s \in Busy : LET i == pending_packets[s].kp IN aql'[i] = aql[i]
  BY HeldPackets, QueueTypes DEF WritePacket
<1>4. Consumed \in Nat /\ Consumed <= Consumed
  BY QueueTypes
<1>5. QED
  BY <1>1, <1>2, <1>3, <1>4, HeldKept

\* The main loop's steps, but for dispatches.
LEMMA MainLoopHeld ==
  ASSUME TypeInv, SlotInv, QueueInv, HeldInv, SpareSlot,
         \/ NothingToProcess \/ ReadHeader \/ BarrierBit \/ AwaitDeps \/ RetireBarrier
         \/ StoreReadIndex \/ Advance \/ ClearAqlLeft
         \/ ProcessDmaQueue \/ ProcessLaunchQueue \/ ProcessDecQueue
  PROVE  /\ QueueInv' /\ HeldInv' /\ Busy' = Busy
         /\ Consumed <= Consumed' /\ Consumed' \in Nat
<1>1. QueueInv' /\ (Consumed' = Consumed \/ Consumes)
  BY MainLoopQueue, RetireBarrierKeeps
<1>2. Consumed <= Consumed' /\ Consumed \in Nat /\ Consumed' \in Nat
  BY <1>1, QueueTypes DEF Consumes
<1>3. UNCHANGED slotVars
  BY DEF NothingToProcess, ReadHeader, BarrierBit, AwaitDeps, RetireBarrier, StoreReadIndex,
         Advance, ClearAqlLeft, ProcessDmaQueue, ProcessLaunchQueue, ProcessDecQueue
<1>4. Busy' = Busy
  BY <1>3 DEF Busy, FreeSlots, slotVars
<1>5. \A s \in Busy : LET i == pending_packets[s].kp IN aql'[i] = aql[i]
  <2>1. CASE RetireBarrier
    <3>1. /\ CurrentPacket.type # "KERNEL_DISPATCH"
          /\ aql' = [aql EXCEPT ![packet_index] = Invalidate(@)]
      BY <2>1 DEF RetireBarrier, QueueInv, Looks, BarrierTypes
    <3>2. \A s \in Busy : pending_packets[s].kp # packet_index
      BY <3>1 DEF HeldInv, Holds, CurrentPacket
    <3>3. QED
      BY <3>1, <3>2, HeldPackets, QueueTypes
  <2>2. CASE ~RetireBarrier
    <3>1. aql' = aql
      BY <2>2 DEF hostVars, NothingToProcess, ReadHeader, BarrierBit, AwaitDeps, StoreReadIndex,
                  Advance, ClearAqlLeft, ProcessDmaQueue, ProcessLaunchQueue, ProcessDecQueue
    <3>2. QED
      BY <3>1
  <2>3. QED
    BY <2>1, <2>2
<1>6. HeldInv'
  BY <1>2, <1>3, <1>4, <1>5, HeldKept DEF slotVars
<1>7. QED
  BY <1>1, <1>2, <1>4, <1>6

\* what every step keeps, with a spare slot before and after it
FlightInv == TypeInv /\ InFlightNamed /\ SlotInv /\ QueueInv /\ HeldInv

LEMMA FlightInit == Init => FlightInv
<1> SUFFICES ASSUME Init PROVE QueueInv /\ HeldInv
  BY TypeInvInit, InFlightNamedInit, SlotInvInit DEF FlightInv
<1>1. /\ aql = [i \in 0 .. Q - 1 |-> NoPacket] /\ claimed = {} /\ write_index = 0
      /\ pc = "aql" /\ current_packet_number = 0 /\ free_slots = [s \in Slots |-> s]
      /\ remaining_dispatch_slots = W
  BY DEF Init
<1>2. Consumed = 0
  BY <1>1 DEF Consumed
<1>3. Numbered
  BY <1>1 DEF Numbered, NoPacket, BarrierTypes
<1>4. Claims /\ Looks
  BY <1>1, <1>2, PacketProcessorAssumption DEF Claims, Looks
<1>5. AllWritten
  BY <1>1 DEF AllWritten, Packets
<1>6. \A n \in Packets : ~Written(n)
  <2> SUFFICES ASSUME NEW n \in Packets PROVE ~Written(n)
    OBVIOUS
  <2>1. n \in Nat /\ n % Q \in 0 .. Q - 1
    BY SlotOf DEF Packets
  <2>2. aql[n % Q].num = -1
    BY <1>1, <2>1 DEF NoPacket, None
  <2>3. QED
    BY <2>1, <2>2 DEF Written
<1>7. OnlyConsumedRetired
  BY <1>6 DEF OnlyConsumedRetired, Retired
<1>8. Busy = {}
  BY <1>1, WindowAssumption DEF Busy, FreeSlots, Slots
<1>9. HeldInv
  BY <1>8 DEF HeldInv, HeldOnce
<1>10. QED
  BY <1>3, <1>4, <1>5, <1>7, <1>9 DEF QueueInv

LEMMA FlightStep ==
  ASSUME NoSignalledBarriers, FlightInv, SpareSlot, SpareSlot', [Next]_vars
  PROVE  FlightInv' /\ Consumed <= Consumed' /\ Consumed \in Nat /\ Consumed' \in Nat
<1>1. pc # "barrier_signal" /\ Consumed \in Nat
  BY QueueTypes DEF FlightInv, QueueInv, Looks
<1>2. TypeInv' /\ InFlightNamed' /\ SlotInv'
  BY <1>1, TypeInvStep, InFlightStep, SlotInvStep DEF FlightInv
<1> DEFINE Goal == QueueInv' /\ HeldInv' /\ Consumed <= Consumed' /\ Consumed' \in Nat
<1> SUFFICES Goal
  BY <1>1, <1>2 DEF FlightInv
<1>3. ASSUME QueueInv' /\ HeldInv' /\ Consumed' = Consumed PROVE Goal
  BY <1>1, <1>3
<1>4. CASE Claim
  <2>1. QueueInv' /\ Consumed' = Consumed
    BY <1>4, ClaimKeeps DEF FlightInv
  <2>2. HeldInv'
    BY <1>1, <1>4, <2>1, HeldKept DEF FlightInv, Claim, slotVars, Busy, FreeSlots
  <2>3. QED
    BY <1>3, <2>1, <2>2
<1>5. ASSUME NEW n \in Packets, WritePacket(n) PROVE Goal
  BY <1>3, <1>5, WritePacketHeld DEF FlightInv
<1>6. CASE \/ \E n \in Packets : Doorbell(n)
           \/ \E i \in AdminInts : RaiseAdmin(i)
           \/ TpcTransfer \/ TpcDecrement
           \/ \E i \in DOMAIN AdminAnswer : TpcEcho(i) \/ InterruptAdmin(i)
           \/ \E r \in tpc_int : TpcPassOver(r)
           \/ \E c \in Cores : CoreCompute(c)
           \/ UNCHANGED vars
  <2>1. UNCHANGED <<slotVars, aql, write_index, claimed, mainVars>>
    BY <1>6 DEF Doorbell, RaiseAdmin, TpcTransfer, TpcDecrement, TpcEcho, TpcPassOver,
                InterruptAdmin, CoreCompute, hostVars, vars
  <2>2. QED
    BY <1>3, <2>1, UnchangedHeld DEF FlightInv
<1>7. ASSUME NEW c \in Cores, InterruptKernel(c) PROVE Goal
  BY <1>3, <1>7, KernelHeld DEF FlightInv
<1>8. CASE InterruptTransfer \/ InterruptCompletion
  BY <1>3, <1>8, TransferHeld, CompletionHeld DEF FlightInv
<1>9. CASE DispatchKernel
  <2>1. Consumed' # Consumed
    BY <1>9, QueueTypes DEF FlightInv, DispatchKernel, Consumed, Goto
  <2>2. QueueInv' /\ Consumes
    BY <1>9, <2>1, MainLoopQueue DEF FlightInv
  <2>3. HeldInv'
    BY <1>9, <2>2, DispatchHeld DEF FlightInv
  <2>4. QED
    BY <1>1, <2>2, <2>3, QueueTypes DEF Consumes
<1>10. CASE \/ NothingToProcess \/ ReadHeader \/ BarrierBit \/ AwaitDeps \/ RetireBarrier
            \/ StoreReadIndex \/ Advance \/ ClearAqlLeft
            \/ ProcessDmaQueue \/ ProcessLaunchQueue \/ ProcessDecQueue
  BY <1>10, MainLoopHeld DEF FlightInv
<1>11. ~QueueBarrierSignal
  BY <1>1 DEF QueueBarrierSignal
<1>12. QED
  BY <1>4, <1>5, <1>6, <1>7, <1>8, <1>9, <1>10, <1>11, NextCases

\* As long as the host leaves a slot of the queue free, no late doorbell makes
\* the main loop start a kernel that the host has not submitted: it never takes
\* the old packet of a reused slot for a new one.  Kernels, barrier packets
\* without a completion signal and packets of other types, any window, queue,
\* number of cores and of producers.
THEOREM OnlySubmittedStarts ==
  ASSUME NoSignalledBarriers
  PROVE  Spec /\ []SpareSlot => []StartsOnlySubmitted
<1>1. Init => FlightInv
  BY FlightInit
<1>2. FlightInv /\ SpareSlot /\ SpareSlot' /\ [Next]_vars => FlightInv'
  BY FlightStep
<1>3. FlightInv => StartsOnlySubmitted
  <2> SUFFICES ASSUME FlightInv, pc = "kernel" PROVE current_packet_number < write_index
    BY DEF StartsOnlySubmitted
  <2>1. /\ CurrentPacket.num = current_packet_number /\ TypeInv /\ QueueInv
    BY DEF FlightInv, QueueInv, Looks
  <2>2. CurrentPacket.num # None
    BY <2>1, QueueTypes DEF None
  <2>3. QED
    BY <2>1, <2>2, QueueTypes DEF QueueInv, Numbered, CurrentPacket
<1>4. QED
  BY <1>1, <1>2, <1>3, PTL DEF Spec
-----------------------------------------------------------------------------
(* What the host has been told.                                             *)

\* the TPC's answer to the slot's request is pending
Fetched(s) == s = current_dma_packet_id /\ "dma" \in pp_int
Answered(s) == s = current_cmpl_packet_id /\ "cmpl" \in pp_int

\* How far the host sees the kernel of a slot in use: its result from the
\* TPC's answer to the last transfer on, its signal from the answer to the
\* decrement on.
Told(s) ==
  LET p == pending_packets[s] IN
  /\ stored[p.pasid] <=> p.status = "COMPLETION" \/ (p.status = "STORE_IMAGE" /\ Fetched(s))
  /\ p.status = "COMPLETION" => aql[p.kp].signal
  /\ signal[p.pasid] = IF Answered(s) THEN 0 ELSE 1

\* the decrements asked for are those of the slots' own signals
OwnSignals ==
  /\ \A i \in Pending(dec_queue) :
       At(dec_queue, i).signal_handle = pending_packets[At(dec_queue, i).packet_id].pasid
  /\ current_cmpl_packet_id # None =>
       cmpl_reg.signal_handle = pending_packets[current_cmpl_packet_id].pasid

\* nothing is stored or signalled for a packet not taken yet
Untold == \A n \in Packets : Consumed <= n => signal[n] = 1 /\ ~stored[n]

\* the signal comes last
SignalsLast == \A n \in Packets : signal[n] \in {0, 1} /\ (signal[n] = 0 => stored[n])

ToldInv == (\A s \in Busy : Told(s)) /\ OwnSignals /\ Untold /\ SignalsLast

\* what the host has been told stays
Lasting == \A n \in Packets : (stored[n] => stored'[n]) /\ (signal[n] = 0 => signal'[n] = 0)

LEMMA EngineSlots ==
  ASSUME FlightInv
  PROVE  /\ "dma" \in pp_int \/ "dma" \in tpc_int => current_dma_packet_id # None
         /\ current_dma_packet_id # None =>
              current_dma_packet_id \in DmaSlots /\ current_dma_packet_id \in Busy
         /\ "cmpl" \in pp_int \/ "cmpl" \in tpc_int => current_cmpl_packet_id # None
         /\ current_cmpl_packet_id # None =>
              /\ current_cmpl_packet_id \in Busy
              /\ pending_packets[current_cmpl_packet_id].status = "COMPLETION"
         /\ "dma" \in tpc_int => "dma" \notin pp_int
         /\ "cmpl" \in tpc_int => "cmpl" \notin pp_int
         /\ \A i \in Pending(dec_queue) :
              /\ At(dec_queue, i).packet_id \in Busy
              /\ pending_packets[At(dec_queue, i).packet_id].status = "COMPLETION"
         /\ \A s \in Busy : s \in Slots /\ s # None
<1>1. /\ "dma" \in pp_int \/ "dma" \in tpc_int => current_dma_packet_id # None
      /\ "cmpl" \in pp_int \/ "cmpl" \in tpc_int => current_cmpl_packet_id # None
      /\ "dma" \in tpc_int => "dma" \notin pp_int
      /\ "cmpl" \in tpc_int => "cmpl" \notin pp_int
  BY DEF FlightInv, TypeInv, OneRequestPerEngine, DmaHandshake, CmplHandshake
<1>2. Busy = DmaSlots \union ComputeSlots \union CmplSlots
  BY BusySlots DEF FlightInv
<1>3. current_dma_packet_id # None =>
        current_dma_packet_id \in DmaSlots /\ current_dma_packet_id \in Busy
  BY <1>2 DEF DmaSlots
<1>4. \A s \in CmplSlots : s \in Busy /\ pending_packets[s].status = "COMPLETION"
  BY <1>2 DEF FlightInv, SlotInv, SlotConservation, CmplStage, HasStatus
<1>5. /\ current_cmpl_packet_id # None => current_cmpl_packet_id \in CmplSlots
      /\ \A i \in Pending(dec_queue) : At(dec_queue, i).packet_id \in CmplSlots
  BY DEF CmplSlots, Queued
<1>6. \A s \in Busy : s \in Slots /\ s # None
  BY DEF Busy, Slots, None
<1>7. QED
  BY <1>1, <1>3, <1>4, <1>5, <1>6

\* Steps after which the host sees what it saw before.
LEMMA UntoldKept ==
  ASSUME ToldInv, UNCHANGED <<signal, stored>>,
         Consumed \in Nat, Consumed' \in Nat, Consumed <= Consumed'
  PROVE  Untold' /\ SignalsLast' /\ Lasting
<1>1. Untold'
  <2> SUFFICES ASSUME NEW n \in Packets, Consumed' <= n PROVE signal'[n] = 1 /\ ~stored'[n]
    BY DEF Untold
  <2>1. Consumed <= n
    BY DEF Packets
  <2>2. signal[n] = 1 /\ ~stored[n]
    BY <2>1 DEF ToldInv, Untold
  <2>3. QED
    BY <2>2
<1>2. SignalsLast' /\ Lasting
  BY DEF ToldInv, SignalsLast, Lasting
<1>3. QED
  BY <1>1, <1>2

\* What a slot's part of the invariant depends on.
LEMMA ToldKept ==
  ASSUME NEW s, Told(s), pending_packets'[s] = pending_packets[s],
         LET p == pending_packets[s] IN
         /\ aql'[p.kp].signal = aql[p.kp].signal
         /\ stored'[p.pasid] = stored[p.pasid] /\ signal'[p.pasid] = signal[p.pasid],
         Fetched(s)' <=> Fetched(s), Answered(s)' <=> Answered(s)
  PROVE  Told(s)'
BY DEF Told

\* Steps that touch neither slots nor requests nor answers.
LEMMA QuietTold ==
  ASSUME FlightInv, ToldInv, Consumed <= Consumed', Consumed' \in Nat, Busy' = Busy,
         UNCHANGED <<pending_packets, signal, stored, cmplVars, current_dma_packet_id>>,
         \A s \in Busy : LET i == pending_packets[s].kp IN aql'[i].signal = aql[i].signal,
         "dma" \in pp_int' <=> "dma" \in pp_int, "cmpl" \in pp_int' <=> "cmpl" \in pp_int
  PROVE  ToldInv' /\ Lasting
<1>1. Consumed \in Nat
  BY QueueTypes DEF FlightInv
<1>2. Untold' /\ SignalsLast' /\ Lasting
  BY <1>1, UntoldKept
<1>3. \A s \in Busy : (Fetched(s)' <=> Fetched(s)) /\ (Answered(s)' <=> Answered(s))
  BY DEF Fetched, Answered, cmplVars
<1>4. \A s \in Busy : Told(s)'
  BY <1>3, ToldKept DEF ToldInv
<1>5. OwnSignals'
  BY DEF ToldInv, OwnSignals, cmplVars
<1>6. QED
  BY <1>2, <1>4, <1>5 DEF ToldInv

\* A new kernel has not been told of.
LEMMA DispatchTold ==
  ASSUME FlightInv, ToldInv, DispatchKernel, Consumes
  PROVE  ToldInv' /\ Lasting
<1> PICK s \in Slots :
      /\ s \notin Busy /\ Busy' = Busy \union {s}
      /\ pending_packets' = [pending_packets EXCEPT
           ![s] = [kp |-> packet_index, status |-> "GET_KERNARG",
                   pasid |-> current_packet_number]]
  BY DispatchHeld DEF FlightInv
<1>1. UNCHANGED <<aql, tpcVars, cmplVars, current_dma_packet_id, pp_int>>
  BY DEF DispatchKernel, hostVars, intVars
<1>2. /\ \A r \in Slots \ {s} : pending_packets'[r] = pending_packets[r]
      /\ pending_packets'[s] = [kp |-> packet_index, status |-> "GET_KERNARG",
                               pasid |-> current_packet_number]
  BY DEF FlightInv, TypeInv, TypeOK, SlotTypes
<1>3. Consumed \in Nat /\ Consumed' \in Nat /\ Consumed <= Consumed'
  BY QueueTypes DEF FlightInv, Consumes
<1>4. Untold' /\ SignalsLast' /\ Lasting
  BY <1>1, <1>3, UntoldKept DEF tpcVars
<1>5. \A r \in Busy : Told(r)'
  <2> SUFFICES ASSUME NEW r \in Busy PROVE Told(r)'
    OBVIOUS
  <2>1. r \in Slots /\ r # s
    BY EngineSlots
  <2>2. (Fetched(r)' <=> Fetched(r)) /\ (Answered(r)' <=> Answered(r))
    BY <1>1 DEF Fetched, Answered, cmplVars
  <2>3. QED
    BY <1>1, <1>2, <2>1, <2>2, ToldKept DEF ToldInv, tpcVars
<1>6. Told(s)'
  <2>1. ~Fetched(s)' /\ ~Answered(s)'
    BY <1>1, EngineSlots DEF Fetched, Answered, cmplVars
  <2>2. current_packet_number \in Packets
    <3>1. current_packet_number # None
      BY QueueTypes DEF FlightInv, None
    <3>2. QED
      BY <3>1, QueueTypes DEF FlightInv, Consumes, CurrentPacket
  <2>3. signal[current_packet_number] = 1 /\ ~stored[current_packet_number]
    BY <1>3, <2>2 DEF ToldInv, Untold, Consumes
  <2>4. QED
    BY <1>1, <1>2, <2>1, <2>3 DEF Told, tpcVars
<1>7. OwnSignals'
  <2>1. \A i \in Pending(dec_queue) : At(dec_queue, i).packet_id \in Slots \ {s}
    BY EngineSlots
  <2>2. current_cmpl_packet_id # None => current_cmpl_packet_id \in Slots \ {s}
    BY EngineSlots
  <2>3. QED
    BY <1>1, <1>2, <2>1, <2>2 DEF ToldInv, OwnSignals, cmplVars
<1>8. QED
  BY <1>4, <1>5, <1>6, <1>7 DEF ToldInv

\* Steps that change one packet's result or signal leave those of the others.
LEMMA OthersTold ==
  ASSUME FlightInv, ToldInv, NEW s \in Busy, UNCHANGED <<pending_packets, aql>>,
         \A n \in Packets \ {pending_packets[s].pasid} :
           stored'[n] = stored[n] /\ signal'[n] = signal[n],
         \A r \in Busy \ {s} : (Fetched(r)' <=> Fetched(r)) /\ (Answered(r)' <=> Answered(r))
  PROVE  \A r \in Busy \ {s} : Told(r)'
<1> SUFFICES ASSUME NEW r \in Busy \ {s} PROVE Told(r)'
  OBVIOUS
<1>1. pending_packets[r].pasid \in Packets \ {pending_packets[s].pasid}
  BY DEF FlightInv, HeldInv, HeldOnce, Holds
<1>2. QED
  BY <1>1, ToldKept DEF ToldInv

\* The TPC performs the request of the slot's status: only the last one stores.
LEMMA TpcTransferTold ==
  ASSUME FlightInv, DataInv, ToldInv, TpcTransfer
  PROVE  /\ ToldInv' /\ Lasting
         /\ LET s == current_dma_packet_id
                p == pending_packets[s] IN
            \/ stored' = stored
            \/ /\ s \in Busy /\ p.status = "STORE_IMAGE" /\ ~stored[p.pasid]
               /\ stored' = [stored EXCEPT ![p.pasid] = TRUE]
<1> PICK s, n : s = current_dma_packet_id /\ n = pending_packets[s].pasid
  OBVIOUS
<1>1. /\ "dma" \in tpc_int /\ pp_int' = pp_int \union {"dma"}
      /\ LoadKernarg(dma_reg) \/ LoadImage(dma_reg) \/ StoreImage(dma_reg)
      /\ UNCHANGED <<aql, signal, pending_packets, free_slots, remaining_dispatch_slots,
                     mainVars, cmplVars, current_dma_packet_id>>
  BY DEF TpcTransfer, AtTpc, hostVars, slotVars, dmaVars
<1>2. s \in Busy /\ s \in Slots /\ "dma" \notin pp_int
  BY <1>1, EngineSlots
<1>3. /\ n \in Packets /\ n < Consumed /\ Consumed \in Nat
  BY <1>2, QueueTypes, HeldPackets DEF FlightInv, Holds
<1>4. dma_reg = RequestOf(s)
  BY <1>1, EngineSlots DEF DataInv, Described
<1>5. \/ pending_packets[s].status # "STORE_IMAGE" /\ stored' = stored
      \/ /\ pending_packets[s].status = "STORE_IMAGE"
         /\ stored' = [stored EXCEPT ![n] = (image[s] = FilteredImage(n))]
  BY <1>1, <1>4 DEF LoadKernarg, LoadImage, StoreImage, RequestOf, DmaRequest
<1>6. pending_packets[s].status = "STORE_IMAGE" => image[s] = FilteredImage(n)
  BY <1>2 DEF DataInv, SlotsReady, Ready
<1>7. stored \in [Packets -> BOOLEAN]
  BY DEF FlightInv, TypeInv, TypeOK, TpcTypes
<1>8. ~Fetched(s) /\ Fetched(s)' /\ (Answered(s)' <=> Answered(s))
  BY <1>1, <1>2 DEF Fetched, Answered, cmplVars
<1>9. /\ \A m \in Packets \ {n} : stored'[m] = stored[m]
      /\ stored'[n] <=> \/ pending_packets[s].status = "COMPLETION"
                        \/ pending_packets[s].status = "STORE_IMAGE"
      /\ pending_packets[s].status = "STORE_IMAGE" =>
           ~stored[n] /\ stored' = [stored EXCEPT ![n] = TRUE]
  <2>1. CASE pending_packets[s].status # "STORE_IMAGE" /\ stored' = stored
    BY <1>2, <2>1 DEF ToldInv, Told
  <2>2. CASE /\ pending_packets[s].status = "STORE_IMAGE"
             /\ stored' = [stored EXCEPT ![n] = (image[s] = FilteredImage(n))]
    <3>1. (image[s] = FilteredImage(n)) = TRUE
      BY <1>6, <2>2
    <3>2. stored' = [stored EXCEPT ![n] = TRUE]
      BY <2>2, <3>1
    <3>3. ~stored[n]
      BY <1>2, <1>8, <2>2 DEF ToldInv, Told
    <3>4. QED
      BY <1>3, <1>7, <2>2, <3>2, <3>3
  <2>3. QED
    BY <1>5, <2>1, <2>2
<1>10. Busy' = Busy /\ Consumed' = Consumed
  BY <1>1 DEF Busy, FreeSlots, Consumed, mainVars
<1>11. Told(s)'
  BY <1>1, <1>2, <1>8, <1>9 DEF ToldInv, Told
<1>12. \A r \in Busy \ {s} : Told(r)'
  <2>1. \A r \in Busy \ {s} : (Fetched(r)' <=> Fetched(r)) /\ (Answered(r)' <=> Answered(r))
    BY <1>1, <1>2 DEF Fetched, Answered, cmplVars
  <2>2. QED
    BY <1>1, <1>2, <1>9, <2>1, OthersTold
<1>13. OwnSignals'
  BY <1>1 DEF ToldInv, OwnSignals, cmplVars
<1>14. Untold'
  <2> SUFFICES ASSUME NEW m \in Packets, Consumed <= m PROVE signal'[m] = 1 /\ ~stored'[m]
    BY <1>10 DEF Untold
  <2>1. m # n
    BY <1>3, QueueTypes DEF FlightInv
  <2>2. QED
    BY <1>1, <1>9, <2>1 DEF ToldInv, Untold
<1>15. Lasting
  <2> SUFFICES ASSUME NEW m \in Packets, stored[m] PROVE stored'[m]
    BY <1>1 DEF Lasting
  <2>1. CASE m = n
    BY <1>2, <1>8, <1>9, <2>1 DEF ToldInv, Told
  <2>2. CASE m # n
    BY <1>9, <2>2
  <2>3. QED
    BY <2>1, <2>2
<1>16. SignalsLast'
  BY <1>1, <1>15 DEF ToldInv, SignalsLast, Lasting
<1>17. \/ stored' = stored
       \/ /\ pending_packets[s].status = "STORE_IMAGE" /\ ~stored[n]
          /\ stored' = [stored EXCEPT ![n] = TRUE]
  BY <1>5, <1>9
<1>18. QED
  BY <1>2, <1>10, <1>11, <1>12, <1>13, <1>14, <1>15, <1>16, <1>17 DEF ToldInv

\* The TPC decrements the current slot's own signal, once.
LEMMA TpcDecrementTold ==
  ASSUME FlightInv, ToldInv, TpcDecrement
  PROVE  /\ ToldInv' /\ Lasting
         /\ LET s == current_cmpl_packet_id
                p == pending_packets[s] IN
            /\ s \in Busy /\ p.status = "COMPLETION" /\ signal[p.pasid] = 1
            /\ signal' = [signal EXCEPT ![p.pasid] = 0]
<1> PICK s, n : s = current_cmpl_packet_id /\ n = pending_packets[s].pasid
  OBVIOUS
<1>1. /\ "cmpl" \in tpc_int /\ pp_int' = pp_int \union {"cmpl"}
      /\ signal' = [signal EXCEPT ![cmpl_reg.signal_handle] = @ - 1]
      /\ UNCHANGED <<aql, stored, pending_packets, free_slots, remaining_dispatch_slots,
                     mainVars, cmplVars, current_dma_packet_id>>
  BY DEF TpcDecrement, AtTpc, hostVars, slotVars, dmaVars
<1>2. /\ s \in Busy /\ s \in Slots /\ "cmpl" \notin pp_int /\ s # None
      /\ pending_packets[s].status = "COMPLETION"
  BY <1>1, EngineSlots
<1>3. /\ n \in Packets /\ n < Consumed /\ Consumed \in Nat
  BY <1>2, QueueTypes, HeldPackets DEF FlightInv, Holds
<1>4. cmpl_reg.signal_handle = n
  BY <1>2 DEF ToldInv, OwnSignals
<1>5. ~Answered(s) /\ Answered(s)' /\ (Fetched(s)' <=> Fetched(s))
  BY <1>1, <1>2 DEF Fetched, Answered, cmplVars
<1>6. signal[n] = 1 /\ stored[n]
  BY <1>2, <1>5 DEF ToldInv, Told
<1>7. signal \in [Packets -> Int]
  BY DEF FlightInv, TypeInv, TypeOK, TpcTypes
<1>8. /\ signal' = [signal EXCEPT ![n] = 0]
      /\ signal'[n] = 0 /\ \A m \in Packets \ {n} : signal'[m] = signal[m]
  BY <1>1, <1>3, <1>4, <1>6, <1>7
<1>9. Busy' = Busy /\ Consumed' = Consumed
  BY <1>1 DEF Busy, FreeSlots, Consumed, mainVars
<1>10. Told(s)'
  BY <1>1, <1>2, <1>5, <1>6, <1>8 DEF ToldInv, Told
<1>11. \A r \in Busy \ {s} : Told(r)'
  <2>1. \A r \in Busy \ {s} : (Fetched(r)' <=> Fetched(r)) /\ (Answered(r)' <=> Answered(r))
    BY <1>1, <1>2 DEF Fetched, Answered, cmplVars
  <2>2. QED
    BY <1>1, <1>2, <1>8, <2>1, OthersTold
<1>12. OwnSignals'
  BY <1>1 DEF ToldInv, OwnSignals, cmplVars
<1>13. Untold'
  <2> SUFFICES ASSUME NEW m \in Packets, Consumed <= m PROVE signal'[m] = 1 /\ ~stored'[m]
    BY <1>9 DEF Untold
  <2>1. m # n
    BY <1>3, QueueTypes DEF FlightInv
  <2>2. QED
    BY <1>1, <1>8, <2>1 DEF ToldInv, Untold
<1>14. SignalsLast' /\ Lasting
  BY <1>1, <1>6, <1>8 DEF ToldInv, SignalsLast, Lasting
<1>15. QED
  BY <1>2, <1>6, <1>8, <1>9, <1>10, <1>11, <1>12, <1>13, <1>14 DEF ToldInv

\* The main loop starts the next request: no answer to it is there yet.
LEMMA ProcessQueuesTold ==
  ASSUME FlightInv, ToldInv, ProcessDmaQueue \/ ProcessDecQueue
  PROVE  ToldInv' /\ Lasting
<1>1. /\ UNCHANGED <<aql, tpcVars, pending_packets, free_slots, remaining_dispatch_slots, pp_int>>
      /\ pc \in {"dma", "dec"} /\ pc' \in {"launch", "aql"}
      /\ current_packet_number' = current_packet_number
  BY DEF ProcessDmaQueue, ProcessDecQueue, Goto, hostVars, slotVars
<1>2. /\ ProcessDmaQueue => UNCHANGED cmplVars /\ (current_dma_packet_id' = current_dma_packet_id
                                                 \/ current_dma_packet_id = None)
      /\ ProcessDecQueue => current_dma_packet_id' = current_dma_packet_id
  BY DEF ProcessDmaQueue, ProcessDecQueue, DmaIdle, dmaVars
<1>3. \/ UNCHANGED cmplVars
      \/ /\ current_cmpl_packet_id = None /\ ~IsEmpty(dec_queue)
         /\ cmpl_reg' = Front(dec_queue) /\ dec_queue' = Pop(dec_queue)
         /\ current_cmpl_packet_id' = Front(dec_queue).packet_id
  BY <1>2 DEF ProcessDecQueue
<1>4. Busy' = Busy /\ Consumed' = Consumed /\ Consumed \in Nat
  BY <1>1, QueueTypes DEF Busy, FreeSlots, Consumed, FlightInv
<1>5. Untold' /\ SignalsLast' /\ Lasting
  BY <1>1, <1>4, UntoldKept DEF tpcVars
<1>6. \A s \in Busy : (Fetched(s)' <=> Fetched(s)) /\ (Answered(s)' <=> Answered(s))
  BY <1>1, <1>2, <1>3, EngineSlots DEF Fetched, Answered, cmplVars
<1>7. \A s \in Busy : Told(s)'
  BY <1>1, <1>6, ToldKept DEF ToldInv, tpcVars
<1>8. OwnSignals'
  <2>1. CASE UNCHANGED cmplVars
    BY <1>1, <2>1 DEF ToldInv, OwnSignals, cmplVars
  <2>2. CASE /\ ~IsEmpty(dec_queue)
             /\ cmpl_reg' = Front(dec_queue) /\ dec_queue' = Pop(dec_queue)
             /\ current_cmpl_packet_id' = Front(dec_queue).packet_id
    <3>1. dec_queue \in Rings(DecRequests) /\ Ordered(dec_queue)
      BY DEF FlightInv, TypeInv, TypeOK, CmplTypes, SlotInv
    <3>2. dec_queue.read \in Pending(dec_queue)
      BY <2>2, <3>1 DEF IsEmpty, Ordered, Pending, Rings
    <3>3. /\ \A i : At(dec_queue', i) = At(dec_queue, i)
          /\ Pending(dec_queue') \subseteq Pending(dec_queue)
      BY <2>2, <3>1 DEF Pop, At, Pending, Rings
    <3>4. QED
      BY <1>1, <2>2, <3>2, <3>3 DEF ToldInv, OwnSignals, Front
  <2>3. QED
    BY <1>3, <2>1, <2>2
<1>9. QED
  BY <1>4, <1>5, <1>7, <1>8 DEF ToldInv

\* A handler moves a slot to a status that says what the host sees of it.
LEMMA StatusTold ==
  ASSUME FlightInv, ToldInv, NEW s \in Busy, NEW t \in Statuses,
         pending_packets' = [pending_packets EXCEPT ![s].status = t],
         UNCHANGED <<free_slots, remaining_dispatch_slots, aql, write_index, claimed, mainVars>>,
         UNCHANGED <<tpcVars, current_cmpl_packet_id, cmpl_reg>>,
         "cmpl" \in pp_int' <=> "cmpl" \in pp_int,
         \A r \in Busy \ {s} : Fetched(r)' <=> Fetched(r),
         ~Fetched(s)', stored[pending_packets[s].pasid] <=> t = "COMPLETION",
         t = "COMPLETION" => aql[pending_packets[s].kp].signal,
         \/ dec_queue' = dec_queue
         \/ /\ dec_queue' = Push(dec_queue, DecRequest(s, pending_packets[s].pasid,
                                                         pending_packets[s].pasid))
            /\ pending_packets[s].status # "COMPLETION"
  PROVE  ToldInv' /\ Lasting
<1>1. s \in Slots /\ SlotTypes /\ pending_packets[s].pasid \in Packets
  BY HeldPackets DEF FlightInv, TypeInv, TypeOK, Holds
<1>2. Busy' = Busy /\ Consumed' = Consumed /\ Consumed \in Nat
  BY QueueTypes DEF Busy, FreeSlots, Consumed, FlightInv, mainVars
<1>3. Untold' /\ SignalsLast' /\ Lasting
  BY <1>2, UntoldKept DEF tpcVars
<1>4. /\ \A r \in Slots : /\ pending_packets'[r].pasid = pending_packets[r].pasid
                          /\ pending_packets'[r].kp = pending_packets[r].kp
      /\ \A r \in Slots \ {s} : pending_packets'[r] = pending_packets[r]
      /\ pending_packets'[s].status = t
  BY <1>1, SetStatus, MoveOn
<1>5. \A r \in Busy : Answered(r)' <=> Answered(r)
  BY DEF Answered
<1>6. \A r \in Busy \ {s} : Told(r)'
  <2> SUFFICES ASSUME NEW r \in Busy \ {s} PROVE Told(r)'
    OBVIOUS
  <2>1. pending_packets'[r] = pending_packets[r]
    BY <1>4, EngineSlots
  <2>2. QED
    BY <1>5, <2>1, ToldKept DEF ToldInv, tpcVars
<1>7. Told(s)'
  <2>1. signal[pending_packets[s].pasid] = IF Answered(s) THEN 0 ELSE 1
    BY DEF ToldInv, Told
  <2>2. QED
    BY <1>1, <1>4, <1>5, <2>1 DEF Told, tpcVars
<1>8. OwnSignals'
  <2>1. current_cmpl_packet_id # None => current_cmpl_packet_id \in Slots
    BY EngineSlots
  <2>2. \A i \in Pending(dec_queue) : At(dec_queue, i).packet_id \in Slots
    BY EngineSlots
  <2>3. CASE dec_queue' = dec_queue
    BY <1>4, <2>1, <2>2, <2>3 DEF ToldInv, OwnSignals
  <2>4. CASE /\ dec_queue' = Push(dec_queue, DecRequest(s, pending_packets[s].pasid,
                                                           pending_packets[s].pasid))
             /\ pending_packets[s].status # "COMPLETION"
    <3> PICK e : e = DecRequest(s, pending_packets[s].pasid, pending_packets[s].pasid)
      OBVIOUS
    <3>1. e \in DecRequests /\ e.packet_id = s /\ e.signal_handle = pending_packets[s].pasid
      BY <1>1, WindowAssumption DEF DecRequest, DecRequests, Slots
    <3>2. dec_queue \in Rings(DecRequests) /\ Ordered(dec_queue) /\ Distinct(dec_queue)
      BY DEF FlightInv, TypeInv, TypeOK, CmplTypes, SlotInv, SlotConservation, CmplStage
    <3>3. Queued(dec_queue) \subseteq Slots /\ s \notin Queued(dec_queue)
      BY <2>2, <2>4, EngineSlots DEF Queued
    <3>4. HasRoom(dec_queue)
      BY <1>1, <3>2, <3>3, RoomForMissingSlot
    <3>5. /\ dec_queue'.read = dec_queue.read /\ dec_queue'.write = dec_queue.write + 1
          /\ At(dec_queue', dec_queue.write) = e
          /\ \A i \in Pending(dec_queue) : At(dec_queue', i) = At(dec_queue, i)
      BY <2>4, <3>1, <3>2, <3>4, PushEntries
    <3>6. dec_queue.read \in Nat /\ dec_queue.write \in Nat
      BY <3>2 DEF Rings
    <3>7. \A i \in Pending(dec_queue') : i = dec_queue.write \/ i \in Pending(dec_queue)
      BY <3>5, <3>6 DEF Pending
    <3>8. \A i \in Pending(dec_queue') :
            At(dec_queue', i).signal_handle = pending_packets'[At(dec_queue', i).packet_id].pasid
      <4> SUFFICES ASSUME NEW i \in Pending(dec_queue')
                   PROVE  At(dec_queue', i).signal_handle
                            = pending_packets'[At(dec_queue', i).packet_id].pasid
        OBVIOUS
      <4>1. CASE i = dec_queue.write
        BY <1>1, <1>4, <3>1, <3>5, <4>1
      <4>2. CASE i \in Pending(dec_queue)
        BY <1>4, <2>2, <3>5, <4>2 DEF ToldInv, OwnSignals
      <4>3. QED
        BY <3>7, <4>1, <4>2
    <3>9. QED
      BY <1>4, <2>1, <3>8 DEF ToldInv, OwnSignals
  <2>5. QED
    BY <2>3, <2>4
<1>9. QED
  BY <1>2, <1>3, <1>6, <1>7, <1>8 DEF ToldInv

LEMMA KernelTold ==
  ASSUME FlightInv, ToldInv, NEW c \in Cores, InterruptKernel(c)
  PROVE  ToldInv' /\ Lasting
<1> PICK s : s = core_usage[c].packet_id
  OBVIOUS
<1>1. /\ s \in Slots /\ s \notin FreeSlots /\ pending_packets[s].status = "PROCESSING"
  BY EnginesApart DEF InterruptKernel, FlightInv
<1>2. s # current_dma_packet_id
  BY <1>1, EnginesApart DEF FlightInv, Slots, None
<1>3. /\ pending_packets' = [pending_packets EXCEPT ![s].status = "STORE_IMAGE"]
      /\ UNCHANGED <<free_slots, remaining_dispatch_slots, aql, write_index, claimed, mainVars>>
      /\ UNCHANGED <<tpcVars, current_cmpl_packet_id, cmpl_reg, dec_queue>>
      /\ UNCHANGED <<pp_int, current_dma_packet_id>>
  BY DEF InterruptKernel, hostVars, cmplVars
<1>4. s \in Busy /\ "STORE_IMAGE" \in Statuses
  BY <1>1 DEF Busy, Statuses
<1>5. ~Fetched(s)' /\ \A r \in Busy \ {s} : Fetched(r)' <=> Fetched(r)
  BY <1>2, <1>3 DEF Fetched
<1>6. stored[pending_packets[s].pasid] <=> "STORE_IMAGE" = "COMPLETION"
  BY <1>1, <1>4 DEF ToldInv, Told
<1>7. "cmpl" \in pp_int' <=> "cmpl" \in pp_int
  BY <1>3
<1>8. QED
  BY <1>3, <1>4, <1>5, <1>6, <1>7, StatusTold

\* A slot given back: the host has been told all there is to tell.
LEMMA ReleaseTold ==
  ASSUME FlightInv, ToldInv, NEW s \in DmaSlots \union CmplSlots, ReleaseSlot(s),
         UNCHANGED <<write_index, claimed, mainVars>>,
         UNCHANGED <<tpcVars, dec_queue, cmpl_reg>>,
         current_cmpl_packet_id' \in {None, current_cmpl_packet_id},
         \A r \in Busy \ {s} : (Fetched(r)' <=> Fetched(r)) /\ (Answered(r)' <=> Answered(r))
  PROVE  ToldInv' /\ Lasting
<1>1. /\ Consumed' = Consumed /\ Busy' = Busy \ {s} /\ s \in Busy /\ UNCHANGED pending_packets
      /\ aql' = [aql EXCEPT ![pending_packets[s].kp] = Invalidate(@)]
  BY ReleaseHeld DEF FlightInv
<1>2. Untold' /\ SignalsLast' /\ Lasting
  BY <1>1, QueueTypes, UntoldKept DEF FlightInv, tpcVars
<1>3. \A r \in Busy \ {s} : Told(r)'
  <2> SUFFICES ASSUME NEW r \in Busy \ {s} PROVE Told(r)'
    OBVIOUS
  <2>1. pending_packets[r].kp \in 0 .. Q - 1 /\ pending_packets[r].kp # pending_packets[s].kp
    BY <1>1, HeldPackets DEF FlightInv
  <2>2. aql'[pending_packets[r].kp] = aql[pending_packets[r].kp]
    BY <1>1, <2>1, QueueTypes DEF FlightInv
  <2>3. QED
    BY <1>1, <2>2, ToldKept DEF ToldInv, tpcVars
<1>4. OwnSignals'
  BY <1>1 DEF ToldInv, OwnSignals
<1>5. QED
  BY <1>1, <1>2, <1>3, <1>4 DEF ToldInv

\* interrupt_transfer gives a slot back only with its result stored ...
LEMMA TransferTold ==
  ASSUME FlightInv, ToldInv, InterruptTransfer
  PROVE  /\ ToldInv' /\ Lasting
         /\ LET s == current_dma_packet_id
                p == pending_packets[s] IN
            \/ /\ TransferResult(s) /\ s \in Busy /\ s \in DmaSlots
               /\ stored[p.pasid] /\ ~aql[p.kp].signal
            \/ UNCHANGED <<aql, free_slots, remaining_dispatch_slots>>
<1> PICK s : s = current_dma_packet_id
  OBVIOUS
<1>1. /\ s \in DmaSlots /\ s \in Slots /\ s # None /\ "dma" \in pp_int /\ s \in Busy
      /\ \/ TransferKernarg(s) \/ TransferImage(s)
         \/ TransferResultSignal(s) \/ TransferResult(s)
  BY TransferCases, EngineSlots DEF FlightInv
<1>2. /\ current_dma_packet_id' = None /\ pp_int' = pp_int \ {"dma"}
      /\ UNCHANGED <<write_index, claimed, mainVars>>
      /\ UNCHANGED <<tpcVars, current_cmpl_packet_id, cmpl_reg>>
  BY DEF InterruptTransfer
<1>3. /\ \A r \in Busy \ {s} : (Fetched(r)' <=> Fetched(r)) /\ (Answered(r)' <=> Answered(r))
      /\ ~Fetched(s)' /\ Fetched(s) /\ ("cmpl" \in pp_int' <=> "cmpl" \in pp_int)
  BY <1>1, <1>2 DEF Fetched, Answered
<1>4. Told(s) /\ Holds(s)
  BY <1>1 DEF ToldInv, FlightInv, HeldInv
<1>5. CASE TransferResult(s)
  <2>1. stored[pending_packets[s].pasid] /\ ~aql[pending_packets[s].kp].signal
    BY <1>3, <1>4, <1>5 DEF TransferResult, Told
  <2>2. ReleaseSlot(s) /\ UNCHANGED dec_queue
    BY <1>5 DEF TransferResult
  <2>3. ToldInv' /\ Lasting
    BY <1>1, <1>2, <1>3, <2>2, ReleaseTold
  <2>4. QED
    BY <1>1, <1>5, <2>1, <2>3
<1>6. CASE TransferKernarg(s) \/ TransferImage(s)
  <2>1. PICK t \in {"GET_IMAGE", "PROCESSING"} :
          /\ pending_packets' = [pending_packets EXCEPT ![s].status = t]
          /\ pending_packets[s].status \in {"GET_KERNARG", "GET_IMAGE"}
          /\ UNCHANGED <<free_slots, remaining_dispatch_slots, aql, dec_queue>>
    BY <1>6 DEF TransferKernarg, TransferImage
  <2>2. ~stored[pending_packets[s].pasid] /\ t \in Statuses /\ t # "COMPLETION"
    BY <1>4, <2>1 DEF Told, Statuses
  <2>3. QED
    BY <1>1, <1>2, <1>3, <2>1, <2>2, StatusTold
<1>7. CASE TransferResultSignal(s)
  <2>1. /\ pending_packets' = [pending_packets EXCEPT ![s].status = "COMPLETION"]
        /\ pending_packets[s].status = "STORE_IMAGE" /\ aql[pending_packets[s].kp].signal
        /\ dec_queue' = Push(dec_queue, DecRequest(s, aql[pending_packets[s].kp].num,
                                                      pending_packets[s].pasid))
        /\ UNCHANGED <<free_slots, remaining_dispatch_slots, aql>>
    BY <1>7 DEF TransferResultSignal
  <2>2. stored[pending_packets[s].pasid] /\ "COMPLETION" \in Statuses
    BY <1>3, <1>4, <2>1 DEF Told, Statuses
  <2>3. aql[pending_packets[s].kp].num = pending_packets[s].pasid
    BY <1>4 DEF Holds
  <2>4. ToldInv' /\ Lasting
    BY <1>1, <1>2, <1>3, <2>1, <2>2, <2>3, StatusTold
  <2>5. QED
    BY <2>1, <2>4
<1>8. QED
  BY <1>1, <1>5, <1>6, <1>7

\* ... and interrupt_completion only with its signal decremented as well.
LEMMA CompletionTold ==
  ASSUME FlightInv, ToldInv, InterruptCompletion
  PROVE  /\ ToldInv' /\ Lasting
         /\ LET s == current_cmpl_packet_id
                p == pending_packets[s] IN
            s \in Busy /\ s \in CmplSlots /\ stored[p.pasid] /\ signal[p.pasid] = 0
<1> PICK s : s = current_cmpl_packet_id
  OBVIOUS
<1>1. /\ s \in CmplSlots /\ s \in Busy /\ s # None /\ "cmpl" \in pp_int
      /\ pending_packets[s].status = "COMPLETION"
  BY EngineSlots DEF InterruptCompletion, CmplSlots
<1>2. /\ current_cmpl_packet_id' = None /\ pp_int' = pp_int \ {"cmpl"} /\ ReleaseSlot(s)
      /\ UNCHANGED <<write_index, claimed, mainVars>>
      /\ UNCHANGED <<tpcVars, dec_queue, cmpl_reg, current_dma_packet_id>>
  BY DEF InterruptCompletion, dmaVars
<1>3. Answered(s) /\ Told(s)
  BY <1>1 DEF Answered, ToldInv
<1>4. stored[pending_packets[s].pasid] /\ signal[pending_packets[s].pasid] = 0
  BY <1>1, <1>3 DEF Told
<1>5. \A r \in Busy \ {s} : (Fetched(r)' <=> Fetched(r)) /\ (Answered(r)' <=> Answered(r))
  BY <1>2, EngineSlots DEF Fetched, Answered
<1>6. ToldInv' /\ Lasting
  BY <1>1, <1>2, <1>5, ReleaseTold
<1>7. QED
  BY <1>1, <1>4, <1>6

LEMMA ToldStep ==
  ASSUME NoSignalledBarriers, FlightInv, DataInv, ToldInv, SpareSlot, SpareSlot', [Next]_vars
  PROVE  ToldInv' /\ Lasting
<1> DEFINE Goal == ToldInv' /\ Lasting
<1>1. Consumed <= Consumed' /\ Consumed' \in Nat
  BY FlightStep
<1>2. ASSUME UNCHANGED <<slotVars, signal, stored, cmplVars, current_dma_packet_id>>,
             \A s \in Busy : LET i == pending_packets[s].kp IN aql'[i].signal = aql[i].signal,
             "dma" \in pp_int' <=> "dma" \in pp_int, "cmpl" \in pp_int' <=> "cmpl" \in pp_int
      PROVE  Goal
  <2>1. Busy' = Busy /\ UNCHANGED pending_packets
    BY <1>2 DEF Busy, FreeSlots, slotVars
  <2>2. QED
    BY <1>1, <1>2, <2>1, QuietTold
<1>3. CASE Claim \/ (\E n \in Packets : Doorbell(n)) \/ \E c \in Cores : CoreCompute(c)
  <2>1. UNCHANGED <<slotVars, signal, stored, cmplVars, current_dma_packet_id, aql, pp_int>>
    BY <1>3 DEF Claim, Doorbell, CoreCompute, dmaVars, intVars, hostVars, tpcVars
  <2>2. QED
    BY <1>2, <2>1
<1>4. ASSUME NEW n \in Packets, WritePacket(n) PROVE Goal
  <2>1. UNCHANGED <<slotVars, signal, stored, cmplVars, current_dma_packet_id, pp_int>>
    BY <1>4 DEF WritePacket, dmaVars, intVars, tpcVars
  <2>2. \A s \in Busy : LET i == pending_packets[s].kp IN aql'[i].signal = aql[i].signal
    BY <1>4, HeldPackets, QueueTypes DEF WritePacket, FlightInv
  <2>3. QED
    BY <1>2, <2>1, <2>2
<1>5. ASSUME NEW i \in {"add", "remove"}, NEW r,
             RaiseAdmin(i) \/ TpcEcho(i) \/ InterruptAdmin(i) \/ TpcPassOver(r)
      PROVE  Goal
  <2>1. UNCHANGED <<slotVars, signal, stored, cmplVars, current_dma_packet_id, aql>>
    BY <1>5 DEF RaiseAdmin, TpcEcho, InterruptAdmin, TpcPassOver, dmaVars, hostVars, tpcVars
  <2>2. i # "dma" /\ i # "cmpl"
    OBVIOUS
  <2>3. ("dma" \in pp_int' <=> "dma" \in pp_int) /\ ("cmpl" \in pp_int' <=> "cmpl" \in pp_int)
    BY <1>5, <2>2 DEF RaiseAdmin, TpcEcho, InterruptAdmin, TpcPassOver, intVars
  <2>4. QED
    BY <1>2, <2>1, <2>3
<1>6. CASE TpcTransfer \/ TpcDecrement \/ ProcessDmaQueue \/ ProcessDecQueue
           \/ InterruptTransfer \/ InterruptCompletion
  BY <1>6, TpcTransferTold, TpcDecrementTold, ProcessQueuesTold, TransferTold, CompletionTold
<1>7. ASSUME NEW c \in Cores, InterruptKernel(c) PROVE Goal
  BY <1>7, KernelTold
<1>8. CASE DispatchKernel
  <2>1. Consumed' # Consumed
    BY <1>8, QueueTypes DEF FlightInv, DispatchKernel, Consumed, Goto
  <2>2. Consumes
    BY <1>8, <2>1, MainLoopQueue DEF FlightInv
  <2>3. QED
    BY <1>8, <2>2, DispatchTold
<1>9. CASE NothingToProcess \/ ReadHeader \/ BarrierBit \/ AwaitDeps \/ StoreReadIndex
           \/ Advance \/ ClearAqlLeft \/ ProcessLaunchQueue \/ UNCHANGED vars
  <2>1. UNCHANGED <<slotVars, signal, stored, cmplVars, current_dma_packet_id, aql, pp_int>>
    BY <1>9 DEF NothingToProcess, ReadHeader, BarrierBit, AwaitDeps, StoreReadIndex, Advance,
                ClearAqlLeft, ProcessLaunchQueue, dmaVars, intVars, hostVars, tpcVars, vars
  <2>2. QED
    BY <1>2, <2>1
<1>10. CASE RetireBarrier
  <2>1. /\ UNCHANGED <<slotVars, signal, stored, cmplVars, current_dma_packet_id, pp_int>>
        /\ aql' = [aql EXCEPT ![packet_index] = Invalidate(@)]
    BY <1>10 DEF RetireBarrier, dmaVars, intVars, tpcVars
  <2>2. \A s \in Busy : LET i == pending_packets[s].kp IN aql'[i].signal = aql[i].signal
    BY <2>1, HeldPackets, QueueTypes DEF FlightInv, Invalidate
  <2>3. QED
    BY <1>2, <2>1, <2>2
<1>11. ~QueueBarrierSignal
  BY DEF QueueBarrierSignal, FlightInv, QueueInv, Looks
<1>12. AdminInts \subseteq {"add", "remove"} /\ DOMAIN AdminAnswer = {"add", "remove"}
  BY PacketProcessorAssumption DEF AdminAnswer
<1>13. Next => Goal
  <2> SUFFICES ASSUME Next PROVE Goal
    OBVIOUS
  <2> HIDE DEF Goal
  <2>1. QED
    BY <1>3, <1>4, <1>5, <1>6, <1>7, <1>8, <1>9, <1>10, <1>11, <1>12, NextCases DEF Goal
<1>14. QED
  BY <1>9, <1>13

LEMMA ToldInit == Init => ToldInv
<1> SUFFICES ASSUME Init PROVE ToldInv
  OBVIOUS
<1>1. Busy = {}
  BY WindowAssumption DEF Init, Busy, FreeSlots, Slots
<1>2. OwnSignals
  BY DEF Init, OwnSignals, EmptyRing, Pending
<1>3. Untold /\ SignalsLast
  BY DEF Init, Untold, SignalsLast
<1>4. QED
  BY <1>1, <1>2, <1>3 DEF ToldInv

-----------------------------------------------------------------------------
(* Results come before signals, and signals before completion.              *)

\* a packet that has left the queue was stored, and signalled if it asked for it
CompletedTold ==
  \A n \in Packets :
    Retired(n) => stored[n] /\ (aql[n % Q].num = n /\ aql[n % Q].signal => signal[n] = 0)

\* Only a handler retires a packet, and it was told of before.
LEMMA RetiresTold ==
  ASSUME NoBarrierPackets, NoBarrierInv, FlightInv, DataInv, ToldInv, SpareSlot, SpareSlot',
         [Next]_vars, NEW n \in Packets, Retired(n)'
  PROVE  \/ Retired(n) /\ (aql'[n % Q].num = n => aql[n % Q].num = n
                                               /\ aql'[n % Q].signal = aql[n % Q].signal)
         \/ stored[n] /\ (aql'[n % Q].signal => signal[n] = 0)
<1> DEFINE Goal ==
      \/ Retired(n) /\ (aql'[n % Q].num = n => aql[n % Q].num = n
                                            /\ aql'[n % Q].signal = aql[n % Q].signal)
      \/ stored[n] /\ (aql'[n % Q].signal => signal[n] = 0)
<1>1. CASE aql' = aql
  BY <1>1 DEF Retired, Written
<1>2. NoSignalledBarriers /\ n % Q \in 0 .. Q - 1
  BY QueueTypes DEF NoBarrierPackets, NoSignalledBarriers, FlightInv
<1>3. ASSUME NEW m \in Packets, WritePacket(m) PROVE Goal
  <2>1. Retired(n)
    BY <1>2, <1>3, WritePacketKeeps DEF FlightInv
  <2>2. aql'[n % Q].num = n => aql'[n % Q] = aql[n % Q]
    <3> PICK s \in Shapes : aql' = [aql EXCEPT ![m % Q] = Packet(m, s)]
      BY <1>3 DEF WritePacket
    <3>1. Packet(m, s).num = m /\ Packet(m, s).type # "INVALID"
      BY PacketProcessorAssumption DEF Packet, PacketShapes
    <3>2. CASE n % Q = m % Q
      <4>1. aql'[n % Q] = Packet(m, s)
        BY <1>2, <3>2, QueueTypes DEF FlightInv
      <4>2. n # m
        BY <3>1, <4>1 DEF Retired
      <4>3. QED
        BY <3>1, <4>1, <4>2
    <3>3. CASE n % Q # m % Q
      BY <1>2, <3>3, QueueTypes DEF FlightInv
    <3>4. QED
      BY <3>2, <3>3
  <2>3. QED
    BY <2>1, <2>2
<1>4. ASSUME NEW s \in DmaSlots \union CmplSlots, ReleaseSlot(s), s \in Busy,
             UNCHANGED <<write_index, claimed, mainVars>>,
             stored[pending_packets[s].pasid],
             aql[pending_packets[s].kp].signal => signal[pending_packets[s].pasid] = 0
      PROVE  Goal
  <2> PICK i, p : i = pending_packets[s].kp /\ p = pending_packets[s].pasid
    OBVIOUS
  <2>1. /\ aql' = [aql EXCEPT ![i] = Invalidate(@)]
        /\ \A m \in Packets : Retired(m)' => Retired(m) \/ m = p
    BY <1>4, ReleaseHeld DEF FlightInv
  <2>2. i = p % Q /\ i \in 0 .. Q - 1
    BY <1>4, HeldPackets DEF FlightInv, Holds
  <2>3. aql'[n % Q].num = aql[n % Q].num /\ aql'[n % Q].signal = aql[n % Q].signal
    BY <1>2, <2>1, QueueTypes DEF FlightInv, Invalidate
  <2>4. CASE n = p
    BY <1>4, <2>2, <2>3, <2>4
  <2>5. CASE n # p
    BY <2>1, <2>3, <2>5
  <2>6. QED
    BY <2>4, <2>5
<1>5. CASE InterruptTransfer
  <2> PICK s : s = current_dma_packet_id
    OBVIOUS
  <2>1. UNCHANGED <<write_index, claimed, mainVars>>
    BY <1>5 DEF InterruptTransfer
  <2>2. CASE /\ TransferResult(s) /\ s \in Busy /\ s \in DmaSlots
             /\ stored[pending_packets[s].pasid] /\ ~aql[pending_packets[s].kp].signal
    BY <1>4, <2>1, <2>2 DEF TransferResult
  <2>3. CASE aql' = aql
    BY <1>1, <2>3
  <2>4. QED
    BY <1>5, <2>2, <2>3, TransferTold
<1>6. CASE InterruptCompletion
  BY <1>4, <1>6, CompletionTold DEF InterruptCompletion
<1>7. ~RetireBarrier /\ ~QueueBarrierSignal
  BY DEF RetireBarrier, QueueBarrierSignal, NoBarrierInv
<1>8. CASE ~InterruptTransfer /\ ~InterruptCompletion /\ ~(\E m \in Packets : WritePacket(m))
  <2>1. aql' = aql
    BY <1>7, <1>8, NextCases
       DEF Claim, Doorbell, RaiseAdmin, TpcTransfer, TpcDecrement, TpcEcho, TpcPassOver,
           CoreCompute, InterruptKernel, InterruptAdmin, NothingToProcess, ReadHeader, BarrierBit,
           DispatchKernel, AwaitDeps, StoreReadIndex, Advance, ClearAqlLeft, ProcessDmaQueue,
           ProcessLaunchQueue, ProcessDecQueue, hostVars, vars
  <2>2. QED
    BY <1>1, <2>1
<1>9. QED
  BY <1>3, <1>5, <1>6, <1>8

LEMMA CompletedStep ==
  ASSUME NoBarrierPackets, NoBarrierInv, FlightInv, DataInv, ToldInv, SpareSlot, SpareSlot',
         [Next]_vars, CompletedTold
  PROVE  CompletedTold'
<1> SUFFICES ASSUME NEW n \in Packets, Retired(n)'
             PROVE  stored'[n] /\ (aql'[n % Q].num = n /\ aql'[n % Q].signal => signal'[n] = 0)
  BY DEF CompletedTold
<1>1. NoSignalledBarriers
  BY DEF NoBarrierPackets, NoSignalledBarriers
<1>2. Lasting
  BY <1>1, ToldStep
<1>3. stored[n] /\ (aql'[n % Q].num = n /\ aql'[n % Q].signal => signal[n] = 0)
  BY RetiresTold DEF CompletedTold
<1>4. QED
  BY <1>2, <1>3 DEF Lasting

DispatchInv == FlightInv /\ DataInv /\ ToldInv

LEMMA DispatchInvInit == Init => DispatchInv
BY FlightInit, DataInvInit, ToldInit DEF DispatchInv

LEMMA DispatchInvStep ==
  ASSUME NoSignalledBarriers, DispatchInv, SpareSlot, SpareSlot', [Next]_vars
  PROVE  DispatchInv' /\ Lasting
BY FlightStep, DataInvStep, ToldStep DEF DispatchInv, FlightInv

\* The host learns of a kernel's end no earlier than it ended: its result is
\* stored before its signal is decremented, which happens once, and its packet
\* leaves the queue after that, for every window, queue, number of cores and of
\* producers, any order of the TPC's answers, and a host that leaves a slot free
\* and submits no barrier packets.
THEOREM ResultThenSignal ==
  ASSUME NoBarrierPackets
  PROVE  Spec /\ []SpareSlot => []ResultBeforeSignal
<1> DEFINE Inv == DispatchInv /\ NoBarrierInv /\ CompletedTold
<1>1. NoSignalledBarriers
  BY DEF NoBarrierPackets, NoSignalledBarriers
<1>2. Init => Inv
  <2> SUFFICES ASSUME Init PROVE Inv
    OBVIOUS
  <2>1. DispatchInv
    BY DispatchInvInit
  <2>2. NoBarrierInv
    BY DEF Init, NoBarrierInv, NoPacket, BarrierTypes
  <2>3. CompletedTold
    <3>1. \A n \in Packets : ~(n < Consumed)
      BY DEF Init, Consumed, Packets
    <3>2. \A n \in Packets : ~Retired(n)
      BY <2>1, <3>1 DEF DispatchInv, FlightInv, QueueInv, OnlyConsumedRetired
    <3>3. QED
      BY <3>2 DEF CompletedTold
  <2>4. QED
    BY <2>1, <2>2, <2>3
<1>3. Inv /\ SpareSlot /\ SpareSlot' /\ [Next]_vars => Inv'
  <2> SUFFICES ASSUME Inv, SpareSlot, SpareSlot', [Next]_vars PROVE Inv'
    OBVIOUS
  <2>1. DispatchInv'
    BY <1>1, DispatchInvStep
  <2>2. NoBarrierInv'
    BY NoBarrierStep DEF DispatchInv, FlightInv
  <2>3. CompletedTold'
    BY CompletedStep DEF DispatchInv
  <2>4. QED
    BY <2>1, <2>2, <2>3
<1>4. Inv => ResultBeforeSignal
  BY DEF DispatchInv, ToldInv, SignalsLast, CompletedTold, ResultBeforeSignal
<1>5. QED
  BY <1>2, <1>3, <1>4, PTL DEF Spec

-----------------------------------------------------------------------------
(* Barrier packets.                                                         *)

\* the busy wait of the current barrier packet has ended
DepSignalled == pc = "barrier_retire" /\ CurrentPacket.dep => signal[current_packet_number - 1] = 0

LEMMA DepSignalledStep ==
  ASSUME DispatchInv, DispatchInv', Lasting, DepSignalled, [Next]_vars
  PROVE  DepSignalled'
<1> SUFFICES ASSUME pc' = "barrier_retire", CurrentPacket'.dep
             PROVE  signal'[current_packet_number' - 1] = 0
  BY DEF DepSignalled
<1> PICK i : i = packet_index
  OBVIOUS
<1>1. /\ i \in 0 .. Q - 1 /\ CurrentPacket = aql[i] /\ aql \in [0 .. Q - 1 -> AqlPackets]
  BY QueueTypes DEF DispatchInv, FlightInv, CurrentPacket
<1>2. /\ UNCHANGED <<current_packet_number>> /\ (AwaitDeps \/ pc = "barrier_retire")
  BY NextCases, BranchPoint
     DEF Claim, WritePacket, Doorbell, RaiseAdmin, TpcTransfer, TpcDecrement, TpcEcho, TpcPassOver,
         CoreCompute, InterruptKernel, InterruptAdmin, NothingToProcess, ReadHeader, BarrierBit,
         DispatchKernel, AwaitDeps, QueueBarrierSignal, RetireBarrier, StoreReadIndex, Advance,
         ClearAqlLeft, ProcessDmaQueue, ProcessLaunchQueue, ProcessDecQueue, InterruptTransfer,
         InterruptCompletion, Goto, vars, mainVars
<1>3. CurrentPacket' = aql'[i]
  BY <1>2 DEF CurrentPacket, packet_index
<1>4. /\ CurrentPacket'.num = current_packet_number /\ CurrentPacket'.num > 0
      /\ current_packet_number - 1 \in Packets
  <2>1. CurrentPacket'.num = current_packet_number
    BY <1>2 DEF DispatchInv, FlightInv, QueueInv, Looks
  <2>2. Numbered' /\ TypeInv'
    BY DEF DispatchInv, FlightInv, QueueInv
  <2>3. aql'[i].num > 0
    BY <1>1, <1>3, <2>2 DEF Numbered
  <2>4. aql'[i].num \in Packets \union {None}
    BY <1>1, <2>2 DEF TypeInv, TypeOK, HostTypes, AqlPackets
  <2>5. QED
    BY <1>3, <2>1, <2>3, <2>4, PacketProcessorAssumption DEF Packets, None
<1>5. CASE AwaitDeps
  <2>1. /\ aql' = aql /\ signal' = signal
        /\ (\A v \in DepSignals : v = 0) \/ (\E v \in DepSignals : v = 0)
    BY <1>5 DEF AwaitDeps, DepsReady, hostVars, tpcVars
  <2>2. DepSignals = {signal[current_packet_number - 1]}
    BY <1>1, <1>3, <1>4, <2>1 DEF DepSignals
  <2>3. QED
    BY <1>2, <2>1, <2>2
<1>6. CASE pc = "barrier_retire"
  <2>1. CurrentPacket.type \in BarrierTypes /\ CurrentPacket.type # "INVALID"
    BY <1>6 DEF DispatchInv, FlightInv, QueueInv, Looks
  <2>2. CurrentPacket'.dep = CurrentPacket.dep
    <3>1. ASSUME NEW j, aql' = [aql EXCEPT ![j] = Invalidate(@)] PROVE aql'[i].dep = aql[i].dep
      BY <1>1, <3>1 DEF Invalidate
    <3>2. ASSUME NEW n \in Packets, WritePacket(n) PROVE aql'[i] = aql[i]
      <4>1. n % Q # i
        BY <1>1, <2>1, <3>2 DEF WritePacket, DispatchInv, FlightInv, QueueInv, Claims
      <4>2. QED
        BY <1>1, <3>2, <4>1 DEF WritePacket
    <3>3. aql'[i].dep = aql[i].dep
      BY <3>1, <3>2, NextCases
         DEF Claim, Doorbell, RaiseAdmin, TpcTransfer, TpcDecrement, TpcEcho, TpcPassOver,
             CoreCompute, InterruptKernel, InterruptAdmin, NothingToProcess, ReadHeader,
             BarrierBit, DispatchKernel, AwaitDeps, QueueBarrierSignal, RetireBarrier,
             StoreReadIndex, Advance, ClearAqlLeft, ProcessDmaQueue, ProcessLaunchQueue,
             ProcessDecQueue, InterruptTransfer, TransferKernarg, TransferImage,
             TransferResultSignal, TransferResult, TransferIgnored, ReleaseSlot,
             InterruptCompletion, hostVars, vars
    <3>4. QED
      BY <1>1, <1>3, <3>3
  <2>3. signal[current_packet_number - 1] = 0
    BY <1>6, <2>2 DEF DepSignalled
  <2>4. QED
    BY <1>2, <1>4, <2>3 DEF Lasting
<1>7. QED
  BY <1>2, <1>5, <1>6

LEMMA BarrierWaitsStep ==
  ASSUME DispatchInv, DispatchInv', Lasting, DepSignalled, BarrierWaits, [Next]_vars
  PROVE  BarrierWaits'
<1> SUFFICES ASSUME NEW n \in Packets, aql'[n % Q].num = n, aql'[n % Q].type = "INVALID",
                    aql'[n % Q].dep
             PROVE  signal'[n - 1] = 0
  BY DEF BarrierWaits
<1> PICK i : i = n % Q
  OBVIOUS
<1>1. i \in 0 .. Q - 1 /\ aql \in [0 .. Q - 1 -> AqlPackets]
  BY QueueTypes DEF DispatchInv, FlightInv
<1>2. n - 1 \in Packets
  <2>1. n > 0
    BY <1>1 DEF DispatchInv, FlightInv, QueueInv, Numbered
  <2>2. QED
    BY <2>1, PacketProcessorAssumption DEF Packets
<1> SUFFICES signal[n - 1] = 0
  BY <1>2 DEF Lasting
<1>3. CASE aql'[i] = aql[i]
  BY <1>3 DEF BarrierWaits
<1>4. ASSUME NEW m \in Packets, WritePacket(m) PROVE aql'[i] = aql[i]
  <2> PICK s \in Shapes : aql' = [aql EXCEPT ![m % Q] = Packet(m, s)]
    BY <1>4 DEF WritePacket
  <2>1. Packet(m, s).type # "INVALID"
    BY PacketProcessorAssumption DEF Packet, PacketShapes
  <2>2. m % Q # i
    BY <1>1, <2>1
  <2>3. QED
    BY <1>1, <2>2
<1>5. ASSUME NEW s \in DmaSlots \union CmplSlots, ReleaseSlot(s), s \in Busy
      PROVE  aql'[i] = aql[i]
  <2>1. /\ aql' = [aql EXCEPT ![pending_packets[s].kp] = Invalidate(@)]
        /\ aql[pending_packets[s].kp].type = "KERNEL_DISPATCH"
    BY <1>5 DEF ReleaseSlot, DispatchInv, FlightInv, HeldInv, Holds
  <2>2. aql'[i].dep = aql[i].dep
    BY <1>1, <2>1 DEF Invalidate
  <2>3. aql[i].type \in BarrierTypes \union {"INVALID"}
    BY <1>1, <2>2 DEF DispatchInv, FlightInv, QueueInv, Numbered
  <2>4. pending_packets[s].kp # i
    BY <2>1, <2>3 DEF BarrierTypes
  <2>5. QED
    BY <1>1, <2>1, <2>4
<1>6. CASE RetireBarrier
  <2>1. /\ pc = "barrier_retire" /\ aql' = [aql EXCEPT ![packet_index] = Invalidate(@)]
        /\ CurrentPacket.num = current_packet_number
    BY <1>6 DEF RetireBarrier, DispatchInv, FlightInv, QueueInv, Looks
  <2>2. CASE packet_index = i
    <3>1. aql'[i].num = aql[i].num /\ aql'[i].dep = aql[i].dep
      BY <1>1, <2>1 DEF Invalidate
    <3>2. CurrentPacket.dep /\ current_packet_number = n
      BY <2>1, <2>2, <3>1 DEF CurrentPacket
    <3>3. QED
      BY <2>1, <3>2 DEF DepSignalled
  <2>3. CASE packet_index # i
    BY <1>1, <1>3, <2>1, <2>3
  <2>4. QED
    BY <2>2, <2>3
<1>7. CASE InterruptTransfer
  <2>1. current_dma_packet_id \in DmaSlots /\ current_dma_packet_id \in Busy
    BY <1>7, EngineSlots DEF InterruptTransfer, DispatchInv
  <2>2. QED
    BY <1>3, <1>5, <1>7, <2>1
       DEF InterruptTransfer, TransferKernarg, TransferImage, TransferResultSignal, TransferResult,
           TransferIgnored
<1>8. CASE InterruptCompletion
  <2>1. current_cmpl_packet_id \in CmplSlots /\ current_cmpl_packet_id \in Busy
    BY <1>8, EngineSlots DEF InterruptCompletion, DispatchInv, CmplSlots
  <2>2. QED
    BY <1>3, <1>5, <1>8, <2>1 DEF InterruptCompletion
<1>9. CASE ~RetireBarrier /\ ~InterruptTransfer /\ ~InterruptCompletion
           /\ ~(\E m \in Packets : WritePacket(m))
  <2>1. aql' = aql
    BY <1>9, NextCases
       DEF Claim, Doorbell, RaiseAdmin, TpcTransfer, TpcDecrement, TpcEcho, TpcPassOver,
           CoreCompute, InterruptKernel, InterruptAdmin, NothingToProcess, ReadHeader, BarrierBit,
           DispatchKernel, AwaitDeps, QueueBarrierSignal, StoreReadIndex, Advance, ClearAqlLeft,
           ProcessDmaQueue, ProcessLaunchQueue, ProcessDecQueue, hostVars, vars
  <2>2. QED
    BY <1>3, <2>1
<1>10. QED
  BY <1>3, <1>4, <1>6, <1>7, <1>8, <1>9

\* A barrier packet is completed only once the signal it depends on was
\* decremented: behind kernels, for every window, queue, number of cores and of
\* producers, as long as the host leaves a slot of the queue free and gives
\* barrier packets no signal of their own.
THEOREM BarriersWait ==
  ASSUME NoSignalledBarriers
  PROVE  Spec /\ []SpareSlot => []BarrierWaits
<1> DEFINE Inv == DispatchInv /\ DepSignalled /\ BarrierWaits
<1>1. Init => Inv
  <2>1. Init => DepSignalled
    BY DEF Init, DepSignalled
  <2>2. Init => BarrierWaits
    <3> SUFFICES ASSUME Init, NEW n \in Packets PROVE ~aql[n % Q].dep
      BY DEF BarrierWaits
    <3>1. n % Q \in 0 .. Q - 1
      BY SlotOf DEF Packets
    <3>2. QED
      BY <3>1 DEF Init, NoPacket
  <2>3. QED
    BY <2>1, <2>2, DispatchInvInit
<1>2. Inv /\ SpareSlot /\ SpareSlot' /\ [Next]_vars => Inv'
  <2> SUFFICES ASSUME Inv, SpareSlot, SpareSlot', [Next]_vars PROVE Inv'
    OBVIOUS
  <2>1. DispatchInv' /\ Lasting
    BY DispatchInvStep
  <2>2. QED
    BY <2>1, DepSignalledStep, BarrierWaitsStep
<1>3. QED
  BY <1>1, <1>2, PTL DEF Spec

-----------------------------------------------------------------------------
(* The refinement of KernelDispatch.                                        *)

\* how the mapping of ImplementsKernelDispatch sees the AQL queue
StageMap == [n \in Packets |-> StageOf(n)]
WantsMap == {n \in Packets : Written(n) /\ ~Retired(n) /\ aql[n % Q].signal}

LEMMA StageValues ==
  ASSUME NEW n \in Packets
  PROVE  /\ ~Written(n) => StageOf(n) = "unsubmitted"
         /\ Retired(n) => StageOf(n) = "completed"
         /\ Written(n) /\ ~Retired(n) => StageOf(n) = IF n < Taken THEN "started" ELSE "submitted"
         /\ ~Written(n)' => StageOf(n)' = "unsubmitted"
         /\ Retired(n)' => StageOf(n)' = "completed"
         /\ Written(n)' /\ ~Retired(n)' =>
              StageOf(n)' = IF n < Taken' THEN "started" ELSE "submitted"
<1>1. /\ ~Written(n) => StageOf(n) = "unsubmitted"
      /\ Retired(n) => StageOf(n) = "completed"
      /\ Written(n) /\ ~Retired(n) => StageOf(n) = IF n < Taken THEN "started" ELSE "submitted"
  BY DEF StageOf, Retired
<1>2. /\ ~Written(n)' => StageOf(n)' = "unsubmitted"
      /\ Retired(n)' => StageOf(n)' = "completed"
      /\ Written(n)' /\ ~Retired(n)' =>
           StageOf(n)' = IF n < Taken' THEN "started" ELSE "submitted"
  BY DEF StageOf, Retired
<1>3. QED
  BY <1>1, <1>2

\* The mapping changes with the AQL queue and the packets taken only.
LEMMA MapsKept ==
  ASSUME UNCHANGED aql, Taken' = Taken
  PROVE  StageMap' = StageMap /\ WantsMap' = WantsMap
BY DEF StageMap, WantsMap, StageOf, Written, Retired

LEMMA StageChange ==
  ASSUME NEW n \in Packets, \A m \in Packets \ {n} : StageOf(m)' = StageOf(m)
  PROVE  StageMap' = [StageMap EXCEPT ![n] = StageOf(n)']
BY DEF StageMap

\* what the refinement rests on
KernelInv == DispatchInv /\ KernelsInv /\ KernelPoints /\ NoBarrierInv /\ CompletedTold

LEMMA TakenConsumed ==
  ASSUME KernelInv
  PROVE  Taken = Consumed
BY DEF KernelInv, KernelPoints, Taken, Consumed

\* A slot in use holds a packet that was started.
LEMMA BusyStarted ==
  ASSUME KernelInv, NEW s \in Busy
  PROVE  LET n == pending_packets[s].pasid IN
         /\ n \in Packets /\ n \in Nat /\ Written(n) /\ ~Retired(n) /\ StageOf(n) = "started"
         /\ n \in WantsMap <=> aql[pending_packets[s].kp].signal
<1> PICK n : n = pending_packets[s].pasid
  OBVIOUS
<1>1. /\ n \in Packets /\ pending_packets[s].kp = n % Q /\ n < Taken
      /\ aql[n % Q].num = n /\ aql[n % Q].type = "KERNEL_DISPATCH"
  BY TakenConsumed DEF KernelInv, DispatchInv, FlightInv, HeldInv, Holds
<1>2. n \in Nat
  BY <1>1 DEF Packets
<1>3. Written(n) /\ ~Retired(n)
  BY <1>1, <1>2 DEF Written, Retired
<1>4. QED
  BY <1>1, <1>2, <1>3, StageValues DEF WantsMap

\* Submit: the host writes a packet.
LEMMA WritePacketSubmits ==
  ASSUME OnlyKernels, KernelInv, SpareSlot, NEW n \in Packets, WritePacket(n)
  PROVE  Service!Submit(n)
<1> PICK s \in Shapes : aql' = [aql EXCEPT ![n % Q] = Packet(n, s)]
  BY DEF WritePacket
<1>1. /\ n \in claimed /\ UNCHANGED <<write_index, pc, current_packet_number, stored, signal>>
      /\ TypeInv /\ QueueInv
  BY DEF WritePacket, mainVars, tpcVars, KernelInv, DispatchInv, FlightInv
<1>2. /\ n \in Nat /\ n % Q \in 0 .. Q - 1 /\ n < write_index /\ Taken <= n /\ aql[n % Q].num < n
      /\ aql[n % Q].num \in Int
  BY <1>1, QueueTypes, TakenConsumed DEF QueueInv, Claims, None
<1>3. /\ Packet(n, s).num = n /\ Packet(n, s).type # "INVALID" /\ Packet(n, s).signal = s.signal
  BY PacketProcessorAssumption DEF Packet, PacketShapes
<1>4. /\ aql'[n % Q] = Packet(n, s)
      /\ \A i \in 0 .. Q - 1 : i # n % Q => aql'[i] = aql[i]
  BY <1>1, <1>2, QueueTypes
<1>5. Taken' = Taken /\ Taken \in Nat
  BY <1>1, QueueTypes DEF Taken
<1>6. ~Written(n) /\ Written(n)' /\ ~Retired(n)'
  BY <1>2, <1>3, <1>4 DEF Written, Retired
<1>7. StageOf(n) = "unsubmitted" /\ StageOf(n)' = "submitted"
  <2>1. ~(n < Taken')
    BY <1>2, <1>5
  <2>2. QED
    BY <1>6, <2>1, StageValues
<1>8. ASSUME NEW m \in Packets, m # n
      PROVE  /\ Written(m)' <=> Written(m)
             /\ Retired(m)' <=> Retired(m)
             /\ m \in WantsMap' <=> m \in WantsMap
  <2>1. CASE m % Q # n % Q
    <3>1. aql'[m % Q] = aql[m % Q]
      BY <1>1, <1>4, <2>1, QueueTypes
    <3>2. QED
      BY <3>1 DEF Written, Retired, WantsMap
  <2>2. CASE m % Q = n % Q /\ m < write_index
    <3>1. m < n /\ Retired(m)
      BY <1>1, <1>8, <2>2, ClaimedIsNewest
    <3>2. Retired(m)'
      <4>1. aql'[m % Q] = Packet(n, s)
        BY <1>4, <2>2
      <4>2. m \in Nat /\ n >= m /\ n # m
        BY <1>2, <3>1 DEF Packets
      <4>3. QED
        BY <1>3, <4>1, <4>2 DEF Retired, Written
    <3>3. QED
      BY <3>1, <3>2 DEF Retired, WantsMap
  <2>3. CASE m % Q = n % Q /\ ~(m < write_index)
    <3>1. n < m
      BY <1>1, <1>2, <2>3, QueueTypes
    <3>2. ~Written(m) /\ ~Written(m)'
      BY <1>1, <1>2, <1>3, <1>4, <2>3, <3>1, QueueTypes DEF Written
    <3>3. QED
      BY <3>2 DEF Retired, WantsMap
  <2>4. QED
    BY <2>1, <2>2, <2>3
<1>9. \A m \in Packets \ {n} : StageOf(m)' = StageOf(m)
  BY <1>5, <1>8, StageValues
<1>10. StageMap' = [StageMap EXCEPT ![n] = "submitted"] /\ StageMap[n] = "unsubmitted"
  BY <1>7, <1>9, StageChange DEF StageMap
<1>11. WantsMap' = WantsMap \/ WantsMap' = WantsMap \union {n}
  <2>1. WantsMap \subseteq Packets /\ WantsMap' \subseteq Packets /\ n \notin WantsMap
    BY <1>6 DEF WantsMap
  <2>2. QED
    BY <1>8, <2>1
<1>12. QED
  BY <1>1, <1>10, <1>11 DEF Service!Submit, StageMap, WantsMap

\* Start: the main loop takes the current packet, after all packets before it.
LEMMA DispatchStarts ==
  ASSUME KernelInv, SpareSlot, DispatchKernel
  PROVE  Service!Start(current_packet_number) /\ current_packet_number \in Packets
<1> PICK n : n = current_packet_number
  OBVIOUS
<1>1. /\ pc = "kernel" /\ pc' = "advance"
      /\ UNCHANGED <<aql, stored, signal, current_packet_number>>
      /\ TypeInv /\ QueueInv
  BY DEF DispatchKernel, Goto, hostVars, tpcVars, KernelInv, DispatchInv, FlightInv
<1>2. /\ CurrentPacket.num = n /\ CurrentPacket.type # "INVALID"
      /\ CurrentPacket = aql[n % Q] /\ Consumed = n
  BY <1>1 DEF QueueInv, Looks, CurrentPacket, packet_index, Consumed
<1>3. n < write_index /\ n \in Packets /\ n \in Nat
  <2>1. n < write_index /\ n \in Nat
    BY <1>1, <1>2, ReadsCurrent, QueueTypes
  <2>2. QED
    BY <1>1, <2>1, QueueTypes DEF QueueInv, Claims, Packets
<1>4. Taken = n /\ Taken' = n + 1
  BY <1>1 DEF Taken
<1>5. \A m \in Packets : (Written(m)' <=> Written(m)) /\ (Retired(m)' <=> Retired(m))
  BY <1>1 DEF Written, Retired
<1>6. Written(n) /\ ~Retired(n)
  BY <1>2, <1>3 DEF Written, Retired
<1>7. StageOf(n) = "submitted" /\ StageOf(n)' = "started"
  <2>1. ~(n < Taken) /\ n < Taken'
    BY <1>3, <1>4
  <2>2. QED
    BY <1>3, <1>5, <1>6, <2>1, StageValues
<1>8. ASSUME NEW m \in Packets, m # n
      PROVE  StageOf(m)' = StageOf(m)
  <2>1. m < Taken <=> m < Taken'
    BY <1>3, <1>4, <1>8 DEF Packets
  <2>2. QED
    BY <1>5, <2>1, StageValues
<1>9. ASSUME NEW m \in 0 .. n - 1
      PROVE  m \in Packets /\ StageOf(m) \in {"started", "completed"}
  <2>1. m \in Packets /\ m \in Nat /\ m < n
    BY <1>3, PacketProcessorAssumption DEF Packets
  <2>2. m < write_index
    BY <1>1, <1>3, <2>1, QueueTypes
  <2>3. m \notin claimed
    BY <1>1, <1>2, <2>1, QueueTypes DEF QueueInv, Claims
  <2>4. Written(m)
    BY <1>1, <2>1, <2>2, <2>3 DEF QueueInv, AllWritten
  <2>5. QED
    BY <1>4, <2>1, <2>4, StageValues
<1>10. /\ StageMap' = [StageMap EXCEPT ![n] = "started"] /\ StageMap[n] = "submitted"
       /\ \A m \in 0 .. n - 1 : StageMap[m] \in {"started", "completed"}
  BY <1>3, <1>7, <1>8, <1>9, StageChange DEF StageMap
<1>11. WantsMap' = WantsMap
  BY <1>1, <1>5 DEF WantsMap
<1>12. Service!Start(n)
  BY <1>1, <1>10, <1>11 DEF Service!Start, StageMap, WantsMap
<1>13. QED
  BY <1>3, <1>12

\* Store: the TPC answers the transfer of a result image.
LEMMA TransferStores ==
  ASSUME KernelInv, TpcTransfer
  PROVE  \/ \E n \in Packets : Service!Store(n)
         \/ UNCHANGED <<StageMap, WantsMap, stored, signal>>
<1>1. UNCHANGED <<aql, pc, current_packet_number, signal>>
  BY DEF TpcTransfer, hostVars, mainVars
<1>2. Taken' = Taken
  BY <1>1 DEF Taken
<1>3. StageMap' = StageMap /\ WantsMap' = WantsMap
  BY <1>1, <1>2, MapsKept
<1>4. CASE stored' = stored
  BY <1>1, <1>3, <1>4
<1>5. CASE stored' # stored
  <2> PICK s : s = current_dma_packet_id
    OBVIOUS
  <2> PICK n : n = pending_packets[s].pasid
    OBVIOUS
  <2>1. ~stored[n] /\ stored' = [stored EXCEPT ![n] = TRUE] /\ s \in Busy
    BY <1>5, TpcTransferTold, EngineSlots DEF KernelInv, DispatchInv, TpcTransfer
  <2>2. n \in Packets /\ StageMap[n] = "started"
    BY <2>1, BusyStarted DEF StageMap
  <2>3. Service!Store(n)
    BY <1>1, <1>3, <2>1, <2>2 DEF Service!Store, StageMap, WantsMap
  <2>4. QED
    BY <2>2, <2>3
<1>6. QED
  BY <1>4, <1>5

\* Signal: the TPC decrements a kernel's signal.
LEMMA DecrementSignals ==
  ASSUME KernelInv, TpcDecrement
  PROVE  \E n \in Packets : Service!Signal(n)
<1>1. UNCHANGED <<aql, pc, current_packet_number, stored>>
  BY DEF TpcDecrement, hostVars, mainVars
<1>2. Taken' = Taken
  BY <1>1 DEF Taken
<1>3. StageMap' = StageMap /\ WantsMap' = WantsMap
  BY <1>1, <1>2, MapsKept
<1> PICK s : s = current_cmpl_packet_id
  OBVIOUS
<1> PICK n : n = pending_packets[s].pasid
  OBVIOUS
<1>4. /\ s \in Busy /\ pending_packets[s].status = "COMPLETION"
      /\ signal[n] = 1 /\ signal' = [signal EXCEPT ![n] = 0]
  BY TpcDecrementTold DEF KernelInv, DispatchInv
<1>5. stored[n] /\ aql[pending_packets[s].kp].signal
  BY <1>4 DEF KernelInv, DispatchInv, ToldInv, Told
<1>6. n \in Packets /\ StageMap[n] = "started" /\ n \in WantsMap
  BY <1>4, <1>5, BusyStarted DEF StageMap
<1>7. Service!Signal(n)
  BY <1>1, <1>3, <1>4, <1>5, <1>6 DEF Service!Signal, StageMap, WantsMap
<1>8. QED
  BY <1>6, <1>7

\* Complete: a handler gives a slot back.
LEMMA ReleaseCompletes ==
  ASSUME KernelInv, NEW s \in Busy, ReleaseSlot(s), UNCHANGED <<tpcVars, mainVars>>,
         stored[pending_packets[s].pasid],
         aql[pending_packets[s].kp].signal => signal[pending_packets[s].pasid] = 0
  PROVE  \E n \in Packets : Service!Complete(n)
<1> PICK i, n : i = pending_packets[s].kp /\ n = pending_packets[s].pasid
  OBVIOUS
<1>1. /\ n \in Packets /\ n \in Nat /\ Written(n) /\ ~Retired(n) /\ StageOf(n) = "started"
      /\ n \in WantsMap <=> aql[i].signal
  BY BusyStarted
<1>2. i = n % Q /\ i \in 0 .. Q - 1 /\ aql[i].num = n
  BY HeldPackets DEF KernelInv, DispatchInv, FlightInv, Holds
<1>3. TypeInv /\ aql' = [aql EXCEPT ![i] = Invalidate(@)]
  BY DEF ReleaseSlot, KernelInv, DispatchInv, FlightInv
<1>4. /\ \A j \in 0 .. Q - 1 : aql'[j].num = aql[j].num /\ aql'[j].signal = aql[j].signal
      /\ \A j \in 0 .. Q - 1 : j # i => aql'[j] = aql[j]
      /\ aql'[i].type = "INVALID"
  BY <1>2, <1>3, QueueTypes DEF Invalidate
<1>5. Taken' = Taken
  BY DEF Taken, mainVars
<1>6. \A m \in Packets : Written(m)' <=> Written(m)
  BY <1>3, <1>4, QueueTypes DEF Written
<1>7. Retired(n)'
  BY <1>1, <1>2, <1>4, <1>6 DEF Retired
<1>8. ASSUME NEW m \in Packets, m # n
      PROVE  /\ Retired(m)' <=> Retired(m)
             /\ aql'[m % Q].signal = aql[m % Q].signal
  <2>1. m % Q \in 0 .. Q - 1
    BY <1>3, QueueTypes
  <2>2. aql'[m % Q].num = m => aql'[m % Q] = aql[m % Q]
    BY <1>2, <1>4, <1>8, <2>1
  <2>3. QED
    BY <1>4, <1>6, <2>1, <2>2 DEF Retired
<1>9. StageOf(n)' = "completed" /\ \A m \in Packets \ {n} : StageOf(m)' = StageOf(m)
  BY <1>1, <1>5, <1>6, <1>7, <1>8, StageValues
<1>10. StageMap' = [StageMap EXCEPT ![n] = "completed"] /\ StageMap[n] = "started"
  BY <1>1, <1>9, StageChange DEF StageMap
<1>11. WantsMap' = WantsMap \ {n}
  <2>1. \A m \in Packets \ {n} : m \in WantsMap' <=> m \in WantsMap
    BY <1>6, <1>8 DEF WantsMap
  <2>2. n \notin WantsMap' /\ WantsMap \subseteq Packets /\ WantsMap' \subseteq Packets
    BY <1>7 DEF WantsMap
  <2>3. QED
    BY <2>1, <2>2
<1>12. n \in WantsMap => signal[n] = 0
  BY <1>1
<1>13. Service!Complete(n)
  BY <1>1, <1>10, <1>11, <1>12 DEF Service!Complete, StageMap, WantsMap, tpcVars
<1>14. QED
  BY <1>1, <1>13

LEMMA KernelServiceInit ==
  ASSUME Init
  PROVE  Service!Init
<1>1. ASSUME NEW n \in Packets PROVE ~Written(n)
  <2>1. n % Q \in 0 .. Q - 1 /\ n \in Nat
    BY SlotOf DEF Packets
  <2>2. aql[n % Q].num = None
    BY <2>1 DEF Init, NoPacket
  <2>3. QED
    BY <2>1, <2>2 DEF Written, None
<1>2. StageMap = [n \in Packets |-> "unsubmitted"] /\ WantsMap = {}
  BY <1>1, StageValues DEF StageMap, WantsMap
<1>3. QED
  BY <1>2 DEF Init, Service!Init, Service!Dispatches, Packets, StageMap, WantsMap

LEMMA KernelServiceStep ==
  ASSUME OnlyKernels, KernelInv, SpareSlot, [Next]_vars
  PROVE  [Service!Next]_Service!kdVars
<1>1. ASSUME NEW n \in Packets,
             \/ Service!Submit(n) \/ Service!Start(n) \/ Service!Store(n)
             \/ Service!Signal(n) \/ Service!Complete(n)
      PROVE  Service!Next
  BY <1>1 DEF Service!Next, Service!Dispatches, Packets
<1>2. UNCHANGED <<StageMap, WantsMap, stored, signal>> => UNCHANGED Service!kdVars
  BY DEF Service!kdVars, StageMap, WantsMap
<1>3. ASSUME UNCHANGED <<aql, stored, signal>>, Taken' = Taken
      PROVE  UNCHANGED Service!kdVars
  BY <1>2, <1>3, MapsKept
<1>4. CASE \E n \in Packets : WritePacket(n)
  BY <1>1, <1>4, WritePacketSubmits
<1>5. CASE DispatchKernel
  BY <1>1, <1>5, DispatchStarts
<1>6. CASE TpcTransfer
  BY <1>1, <1>2, <1>6, TransferStores
<1>7. CASE TpcDecrement
  BY <1>1, <1>7, DecrementSignals
<1>8. CASE InterruptTransfer
  <2> PICK s : s = current_dma_packet_id
    OBVIOUS
  <2>1. UNCHANGED <<tpcVars, mainVars>>
    BY <1>8 DEF InterruptTransfer
  <2>2. CASE /\ TransferResult(s) /\ s \in Busy
             /\ stored[pending_packets[s].pasid] /\ ~aql[pending_packets[s].kp].signal
    <3>1. ReleaseSlot(s)
      BY <2>2 DEF TransferResult
    <3>2. /\ stored[pending_packets[s].pasid]
          /\ aql[pending_packets[s].kp].signal => signal[pending_packets[s].pasid] = 0
      BY <2>2
    <3>3. \E n \in Packets : Service!Complete(n)
      BY <2>1, <2>2, <3>1, <3>2, ReleaseCompletes
    <3>4. QED
      BY <1>1, <3>3
  <2>3. CASE aql' = aql
    BY <1>3, <2>1, <2>3 DEF Taken, tpcVars, mainVars
  <2>4. QED
    BY <1>8, <2>2, <2>3, TransferTold DEF KernelInv, DispatchInv
<1>9. CASE InterruptCompletion
  <2> PICK s : s = current_cmpl_packet_id
    OBVIOUS
  <2>1. ReleaseSlot(s) /\ UNCHANGED <<tpcVars, mainVars>>
    BY <1>9 DEF InterruptCompletion
  <2>2. s \in Busy /\ stored[pending_packets[s].pasid] /\ signal[pending_packets[s].pasid] = 0
    BY <1>9, CompletionTold DEF KernelInv, DispatchInv
  <2>3. \E n \in Packets : Service!Complete(n)
    BY <2>1, <2>2, ReleaseCompletes
  <2>4. QED
    BY <1>1, <2>3
<1>10. CASE ReadHeader \/ BarrierBit
  <2>1. pc \in {"aql", "barrier_bit"} /\ pc' # "advance"
    BY <1>10, KernelPointsStep
       DEF SkipsPacket, ReadHeader, BarrierBit, KernelInv, DispatchInv, FlightInv
  <2>2. UNCHANGED <<aql, stored, signal, current_packet_number>>
    BY <1>10 DEF ReadHeader, BarrierBit, Goto, hostVars, tpcVars
  <2>3. QED
    BY <1>3, <2>1, <2>2 DEF Taken
<1>11. CASE Advance
  <2>1. pc = "advance" /\ pc' # "advance" /\ current_packet_number' = current_packet_number + 1
    BY <1>11 DEF Advance
  <2>2. UNCHANGED <<aql, stored, signal>>
    BY <1>11 DEF Advance, hostVars, tpcVars
  <2>3. QED
    BY <1>3, <2>1, <2>2 DEF Taken
<1>12. ~AwaitDeps /\ ~QueueBarrierSignal /\ ~RetireBarrier /\ ~StoreReadIndex
  BY DEF KernelInv, KernelPoints, AwaitDeps, DepsReady, QueueBarrierSignal, RetireBarrier,
         StoreReadIndex
<1>13. CASE \/ Claim \/ (\E n \in Packets : Doorbell(n)) \/ (\E i \in AdminInts : RaiseAdmin(i))
            \/ (\E i \in DOMAIN AdminAnswer : TpcEcho(i) \/ InterruptAdmin(i))
            \/ (\E r \in tpc_int : TpcPassOver(r))
            \/ (\E c \in Cores : CoreCompute(c) \/ InterruptKernel(c))
            \/ UNCHANGED vars
  <2>1. UNCHANGED <<aql, stored, signal, pc, current_packet_number>>
    BY <1>13 DEF Claim, Doorbell, RaiseAdmin, TpcEcho, TpcPassOver, InterruptAdmin, CoreCompute,
                 InterruptKernel, vars, hostVars, tpcVars, mainVars
  <2>2. QED
    BY <1>3, <2>1 DEF Taken
<1>14. CASE \/ NothingToProcess \/ ClearAqlLeft
            \/ ProcessDmaQueue \/ ProcessLaunchQueue \/ ProcessDecQueue
  <2>1. /\ UNCHANGED <<aql, stored, signal, current_packet_number>>
        /\ pc # "advance" /\ pc' # "advance"
    BY <1>14 DEF NothingToProcess, ClearAqlLeft, ProcessDmaQueue, ProcessLaunchQueue,
                 ProcessDecQueue, Goto, hostVars, tpcVars
  <2>2. QED
    BY <1>3, <2>1 DEF Taken
<1>15. QED
  BY <1>4, <1>5, <1>6, <1>7, <1>8, <1>9, <1>10, <1>11, <1>12, <1>13, <1>14, NextCases

LEMMA KernelInvInit ==
  ASSUME Init
  PROVE  KernelInv
<1>1. DispatchInv
  BY DispatchInvInit
<1>2. KernelsInv /\ KernelPoints /\ NoBarrierInv
  BY DEF Init, KernelsInv, KernelPoints, NoBarrierInv, NoPacket, BarrierTypes
<1>3. CompletedTold
  <2>1. \A n \in Packets : ~(n < Consumed)
    BY DEF Init, Consumed, Packets
  <2>2. \A n \in Packets : ~Retired(n)
    BY <1>1, <2>1 DEF DispatchInv, FlightInv, QueueInv, OnlyConsumedRetired
  <2>3. QED
    BY <2>2 DEF CompletedTold
<1>4. QED
  BY <1>1, <1>2, <1>3 DEF KernelInv

LEMMA KernelInvStep ==
  ASSUME OnlyKernels, KernelInv, SpareSlot, SpareSlot', [Next]_vars
  PROVE  KernelInv'
<1>1. NoBarrierPackets /\ NoSignalledBarriers
  BY DEF OnlyKernels, NoBarrierPackets, NoSignalledBarriers, BarrierTypes
<1>2. DispatchInv'
  BY <1>1, DispatchInvStep DEF KernelInv
<1>3. KernelsInv' /\ KernelPoints'
  BY KernelsInvStep, KernelPointsStep DEF KernelInv, DispatchInv, FlightInv
<1>4. NoBarrierInv'
  BY <1>1, NoBarrierStep DEF KernelInv, DispatchInv, FlightInv
<1>5. CompletedTold'
  BY <1>1, CompletedStep DEF KernelInv, DispatchInv
<1>6. QED
  BY <1>2, <1>3, <1>4, <1>5 DEF KernelInv

\* The firmware, its handlers, the TPC and the cores implement KernelDispatch,
\* for every window, queue, number of cores, of producers and of packets, and
\* every host that submits kernels, with or without signals and barrier bits,
\* and leaves a slot of the queue free.
THEOREM DispatchImplementsService ==
  ASSUME OnlyKernels
  PROVE  Spec /\ []SpareSlot => ImplementsKernelDispatch
<1>1. Init => KernelInv /\ Service!Init
  BY KernelInvInit, KernelServiceInit
<1>2. KernelInv /\ SpareSlot /\ SpareSlot' /\ [Next]_vars => KernelInv'
  BY KernelInvStep
<1>3. KernelInv /\ SpareSlot /\ [Next]_vars => [Service!Next]_Service!kdVars
  BY KernelServiceStep
<1>4. QED
  BY <1>1, <1>2, <1>3, PTL DEF Spec, ImplementsKernelDispatch, Service!Spec
-----------------------------------------------------------------------------
(* A host that leaves a slot free: one that never goes round the queue.     *)

LEMMA ClaimsBounded == Spec => [](write_index \in Nat /\ write_index <= N)
<1> DEFINE Inv == write_index \in Nat /\ write_index <= N
<1>1. Init => Inv
  BY PacketProcessorAssumption DEF Init
<1>2. ASSUME Inv, [Next]_vars
      PROVE  Inv'
  <2>1. CASE Claim
    BY <1>2, <2>1, PacketProcessorAssumption DEF Claim
  <2>2. CASE ~Claim
    <3>1. write_index' = write_index
      BY <1>2, <2>2, NextCases
         DEF WritePacket, Doorbell, RaiseAdmin, TpcTransfer, TpcDecrement, TpcEcho, TpcPassOver,
             CoreCompute, InterruptKernel, InterruptAdmin, NothingToProcess, ReadHeader,
             BarrierBit, DispatchKernel, AwaitDeps, QueueBarrierSignal, RetireBarrier,
             StoreReadIndex, Advance, ClearAqlLeft, ProcessDmaQueue, ProcessLaunchQueue,
             ProcessDecQueue, InterruptTransfer, InterruptCompletion, hostVars, vars
    <3>2. QED
      BY <1>2, <3>1
  <2>3. QED
    BY <2>1, <2>2
<1>3. QED
  BY <1>1, <1>2, PTL DEF Spec

\* Fewer packets than the queue has slots: SpareSlot then holds by itself, and
\* the packet processor implements KernelDispatch for every window, number of
\* cores and of producers, both reuse policies, with no more said of the host.
COROLLARY DispatchWithoutReuse ==
  ASSUME OnlyKernels, N < Q
  PROVE  Spec => ImplementsKernelDispatch
<1>1. write_index \in Nat /\ write_index <= N => SpareSlot
  BY PacketProcessorAssumption DEF SpareSlot, Packets
<1>2. QED
  BY <1>1, ClaimsBounded, DispatchImplementsService, PTL
=============================================================================
