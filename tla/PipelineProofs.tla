--------------------------- MODULE PipelineProofs ---------------------------
(* The dispatch window and what is in flight in it.  The window loses and   *)
(* duplicates no slot, as long as no barrier packet's completion signal is  *)
(* queued (the finding of the run PPBarrierSignal); READ_INDEX and the window*)
(* agree on the number of finished dispatches; every kernel is launched and *)
(* stored on its own data: for every window, number of cores, queue and host.*)
EXTENDS PacketProcessorProofs

-----------------------------------------------------------------------------
(* The window.                                                              *)

\* the inductive strengthening: the stages partition the window, the queues
\* are the right way round
SlotInv == SlotConservation /\ Ordered(dma_queue) /\ Ordered(launch_queue) /\ Ordered(dec_queue)

\* what SlotInv depends on
stageVars == <<pending_packets, free_slots, remaining_dispatch_slots,
               dma_queue, current_dma_packet_id, launch_queue, core_usage,
               dec_queue, current_cmpl_packet_id>>

LEMMA UnchangedSlotInv ==
  ASSUME SlotInv, UNCHANGED stageVars
  PROVE  SlotInv'
<1>1. /\ FreeSlots' = FreeSlots /\ DmaSlots' = DmaSlots /\ ComputeSlots' = ComputeSlots
      /\ CoreSlots' = CoreSlots /\ RunningCores' = RunningCores /\ CmplSlots' = CmplSlots
  BY DEF stageVars, FreeSlots, DmaSlots, ComputeSlots, CoreSlots, CmplSlots, RunningCores
<1>2. FreeStack' /\ NoSlotLost'
  BY <1>1 DEF SlotInv, SlotConservation, FreeStack, NoSlotLost, stageVars
<1>3. DmaStage'
  BY <1>1 DEF SlotInv, SlotConservation, DmaStage, HasStatus, stageVars
<1>4. ComputeStage' /\ CmplStage'
  BY <1>1 DEF SlotInv, SlotConservation, ComputeStage, CmplStage, HasStatus, stageVars
<1>5. Ordered(dma_queue') /\ Ordered(launch_queue') /\ Ordered(dec_queue')
  BY DEF SlotInv, stageVars
<1>6. QED
  BY <1>2, <1>3, <1>4, <1>5 DEF SlotInv, SlotConservation

LEMMA SlotInvInit == Init => SlotInv
<1> SUFFICES ASSUME Init PROVE SlotInv
  OBVIOUS
<1>1. /\ dma_queue.read = 0 /\ dma_queue.write = 0
      /\ launch_queue.read = 0 /\ launch_queue.write = 0
      /\ dec_queue.read = 0 /\ dec_queue.write = 0
  BY DEF Init, EmptyRing
<1>2. Pending(dma_queue) = {} /\ Pending(launch_queue) = {} /\ Pending(dec_queue) = {}
  BY <1>1 DEF Pending
<1>3. /\ Queued(dma_queue) = {} /\ Queued(launch_queue) = {} /\ Queued(dec_queue) = {}
      /\ Distinct(dma_queue) /\ Distinct(launch_queue) /\ Distinct(dec_queue)
  BY <1>2 DEF Queued, Distinct
<1>4. RunningCores = {} /\ CoreSlots = {}
  BY DEF Init, CoreSlots, RunningCores
<1>5. DmaSlots = {} /\ ComputeSlots = {} /\ CmplSlots = {}
  BY <1>3, <1>4 DEF Init, DmaSlots, ComputeSlots, CmplSlots
<1>6. \A i \in 0 .. remaining_dispatch_slots - 1 : free_slots[i] = i
  BY WindowAssumption DEF Init, Slots
<1>7. FreeSlots = Slots
  BY <1>6, WindowAssumption DEF Init, FreeSlots, Slots
<1>8. FreeStack /\ NoSlotLost
  BY <1>5, <1>6, <1>7 DEF FreeStack, NoSlotLost
<1>9. DmaStage /\ ComputeStage /\ CmplStage
  BY <1>3, <1>4, <1>5 DEF DmaStage, ComputeStage, CmplStage, HasStatus
<1>10. QED
  BY <1>1, <1>8, <1>9 DEF SlotInv, SlotConservation, Ordered

\* The stages are sets of slots, apart from each other and from the free stack.
LEMMA StagesApart ==
  ASSUME TypeInv, SlotInv
  PROVE  /\ DmaSlots \subseteq Slots /\ ComputeSlots \subseteq Slots /\ CmplSlots \subseteq Slots
         /\ FreeSlots \subseteq Slots
         /\ DmaSlots \intersect ComputeSlots = {}
         /\ DmaSlots \intersect CmplSlots = {}
         /\ ComputeSlots \intersect CmplSlots = {}
<1>1. DmaSlots \subseteq Slots /\ ComputeSlots \subseteq Slots
  BY StageTypes, CoreSlotsType DEF TypeInv, ComputeSlots
<1>2. CmplSlots \subseteq Slots
  BY DEF SlotInv, SlotConservation, CmplStage
<1>3. remaining_dispatch_slots \in 0 .. W /\ free_slots \in [Slots -> Slots]
  BY DEF TypeInv, TypeOK, SlotTypes
<1>4. \A i \in 0 .. remaining_dispatch_slots - 1 : i \in Slots
  BY <1>3, WindowAssumption DEF Slots
<1>5. FreeSlots \subseteq Slots
  BY <1>3, <1>4 DEF FreeSlots
<1>6. /\ HasStatus(DmaSlots, {"GET_KERNARG", "GET_IMAGE", "STORE_IMAGE"})
      /\ HasStatus(ComputeSlots, {"PROCESSING"})
      /\ HasStatus(CmplSlots, {"COMPLETION"})
  BY DEF SlotInv, SlotConservation, DmaStage, ComputeStage, CmplStage
<1>7. QED
  BY <1>1, <1>2, <1>5, <1>6 DEF HasStatus

-----------------------------------------------------------------------------
(* The main loop.                                                           *)

\* DispatchKernel moves the top of the stack to the DMA stage.
LEMMA DispatchConserves ==
  ASSUME TypeInv, SlotInv, DispatchKernel
  PROVE  SlotInv'
<1> DEFINE s == free_slots[remaining_dispatch_slots - 1]
           p == CurrentPacket.num
           e == DmaRequest(s, "kernarg", "LOAD", p)
           r == remaining_dispatch_slots
<1>1. r \in 1 .. W
  BY DEF DispatchKernel, TypeInv, SlotAvailable, TypeOK, SlotTypes, Goto
<1>2. s \in Slots /\ s \in FreeSlots
  BY <1>1, WindowAssumption DEF TypeInv, TypeOK, SlotTypes, Slots, FreeSlots
<1>3. e \in DmaRequests /\ e.packet_id = s
  <2>1. p \in Packets \union {None}
    BY CurrentPacketType DEF TypeInv, AqlPackets
  <2>2. QED
    BY <1>2, <2>1 DEF DmaRequest, DmaRequests
<1>4. /\ r' = r - 1
      /\ pending_packets' = [pending_packets EXCEPT
           ![s] = [kp |-> packet_index, status |-> "GET_KERNARG", pasid |-> p]]
      /\ dma_queue' = Push(dma_queue, e)
      /\ UNCHANGED <<free_slots, current_dma_packet_id, launch_queue, core_usage,
                     dec_queue, current_cmpl_packet_id>>
  BY DEF DispatchKernel, coreVars, cmplVars, Goto
<1>5. /\ FreeStack /\ DmaStage /\ ComputeStage /\ CmplStage /\ NoSlotLost
      /\ Ordered(dma_queue) /\ dma_queue \in Rings(DmaRequests)
  BY DEF SlotInv, SlotConservation, TypeInv, TypeOK, DmaTypes
<1>6. s \notin DmaSlots /\ s \notin ComputeSlots /\ s \notin CmplSlots
  BY <1>2, <1>5 DEF FreeStack
<1>7. \A q \in Slots : pending_packets'[q].status =
                         IF q = s THEN "GET_KERNARG" ELSE pending_packets[q].status
  BY <1>2, <1>4 DEF TypeInv, TypeOK, SlotTypes
<1> HIDE DEF s, p, e
<1>8. /\ Queued(dma_queue') = Queued(dma_queue) \union {s}
      /\ Distinct(dma_queue') /\ Ordered(dma_queue')
  <2>1. s \notin Queued(dma_queue) /\ Queued(dma_queue) \subseteq Slots
    BY <1>6, StageTypes DEF DmaSlots, TypeInv
  <2>2. HasRoom(dma_queue)
    BY <1>2, <1>5, <2>1, RoomForMissingSlot DEF DmaStage
  <2>3. QED
    BY <1>3, <1>4, <1>5, <2>1, <2>2, PushQueued DEF DmaStage
<1>9. /\ DmaSlots' = DmaSlots \union {s}
      /\ ComputeSlots' = ComputeSlots /\ CoreSlots' = CoreSlots /\ RunningCores' = RunningCores
      /\ CmplSlots' = CmplSlots
  BY <1>4, <1>8 DEF DmaSlots, ComputeSlots, CmplSlots, CoreSlots, RunningCores
<1>10. FreeSlots' = FreeSlots \ {s}
  BY <1>1, <1>4, <1>5 DEF FreeSlots, FreeStack, s
<1>11. FreeStack'
  BY <1>1, <1>4, <1>5, <1>9, <1>10 DEF FreeStack
<1>12. DmaStage'
  <2>1. current_dma_packet_id' \notin Queued(dma_queue')
    BY <1>2, <1>4, <1>5, <1>6, <1>8 DEF DmaStage, DmaSlots, Slots, None
  <2>2. HasStatus(DmaSlots, {"GET_KERNARG", "GET_IMAGE", "STORE_IMAGE"})'
    BY <1>2, <1>5, <1>7, <1>9, StagesApart DEF DmaStage, HasStatus
  <2>3. QED
    BY <1>8, <2>1, <2>2 DEF DmaStage
<1>13. ComputeStage'
  BY <1>4, <1>5, <1>6, <1>7, <1>9, StagesApart DEF ComputeStage, HasStatus
<1>14. CmplStage'
  BY <1>4, <1>5, <1>6, <1>7, <1>9, StagesApart DEF CmplStage, HasStatus
<1>15. NoSlotLost'
  BY <1>5, <1>9, <1>10 DEF NoSlotLost
<1>16. Ordered(launch_queue') /\ Ordered(dec_queue')
  BY <1>4 DEF SlotInv
<1>17. QED
  BY <1>8, <1>11, <1>12, <1>13, <1>14, <1>15, <1>16 DEF SlotInv, SlotConservation

\* ProcessDmaQueue moves the front of the queue to the engine.
LEMMA ProcessDmaConserves ==
  ASSUME TypeInv, SlotInv, ProcessDmaQueue
  PROVE  SlotInv'
<1>1. UNCHANGED <<pending_packets, free_slots, remaining_dispatch_slots, launch_queue,
                  core_usage, dec_queue, current_cmpl_packet_id>>
  BY DEF ProcessDmaQueue, slotVars, coreVars, cmplVars, Goto, DmaIdle
<1>2. CASE ~IsEmpty(dma_queue) /\ DmaIdle
  <2>1. dma_queue' = Pop(dma_queue) /\ current_dma_packet_id' = Front(dma_queue).packet_id
    BY <1>2 DEF ProcessDmaQueue, Goto, DmaIdle
  <2>2. /\ FreeStack /\ DmaStage /\ ComputeStage /\ CmplStage /\ NoSlotLost
        /\ Ordered(dma_queue) /\ dma_queue \in Rings(DmaRequests)
    BY DEF SlotInv, SlotConservation, TypeInv, TypeOK, DmaTypes
  <2> DEFINE s == Front(dma_queue).packet_id
  <2>3. /\ Ordered(dma_queue') /\ Distinct(dma_queue')
        /\ s \in Queued(dma_queue)
        /\ Queued(dma_queue') = Queued(dma_queue) \ {s}
    BY <1>2, <2>1, <2>2, PopQueued DEF DmaStage
  <2> HIDE DEF s
  <2>4. current_dma_packet_id' = s /\ s \in Slots
    BY <2>1, <2>3, StageTypes DEF s, TypeInv
  <2>5. /\ DmaSlots' = DmaSlots
        /\ ComputeSlots' = ComputeSlots /\ CoreSlots' = CoreSlots /\ RunningCores' = RunningCores
        /\ CmplSlots' = CmplSlots /\ FreeSlots' = FreeSlots
    <3>1. DmaSlots' = (Queued(dma_queue) \ {s}) \union ({s} \ {None})
      BY <2>3, <2>4 DEF DmaSlots
    <3>2. DmaSlots = Queued(dma_queue) /\ s # None
      BY <1>2, <2>4 DEF DmaSlots, DmaIdle, Slots, None
    <3>3. DmaSlots' = DmaSlots
      BY <2>3, <3>1, <3>2
    <3>4. QED
      BY <1>1, <3>3 DEF ComputeSlots, CmplSlots, CoreSlots, RunningCores, FreeSlots
  <2>6. FreeStack' /\ NoSlotLost'
    BY <1>1, <2>2, <2>5 DEF FreeStack, NoSlotLost
  <2>7. DmaStage'
    BY <1>1, <2>2, <2>3, <2>4, <2>5 DEF DmaStage, HasStatus
  <2>8. ComputeStage' /\ CmplStage'
    BY <1>1, <2>2, <2>5 DEF ComputeStage, CmplStage, HasStatus
  <2>9. Ordered(launch_queue') /\ Ordered(dec_queue')
    BY <1>1 DEF SlotInv
  <2>10. QED
    BY <2>3, <2>6, <2>7, <2>8, <2>9 DEF SlotInv, SlotConservation
<1>3. CASE ~(~IsEmpty(dma_queue) /\ DmaIdle)
  BY <1>1, <1>3, UnchangedSlotInv DEF ProcessDmaQueue, dmaVars, stageVars, Goto, DmaIdle
<1>4. QED
  BY <1>2, <1>3

\* ProcessDecQueue moves the front of the queue to the engine.
LEMMA ProcessDecConserves ==
  ASSUME TypeInv, SlotInv, ProcessDecQueue
  PROVE  SlotInv'
<1>1. UNCHANGED <<pending_packets, free_slots, remaining_dispatch_slots, launch_queue,
                  core_usage, dma_queue, current_dma_packet_id>>
  BY DEF ProcessDecQueue, slotVars, coreVars, dmaVars, Goto
<1>2. CASE ~IsEmpty(dec_queue) /\ current_cmpl_packet_id = None
  <2>1. dec_queue' = Pop(dec_queue) /\ current_cmpl_packet_id' = Front(dec_queue).packet_id
    BY <1>2 DEF ProcessDecQueue, Goto
  <2>2. /\ FreeStack /\ DmaStage /\ ComputeStage /\ CmplStage /\ NoSlotLost
        /\ Ordered(dec_queue) /\ dec_queue \in Rings(DecRequests)
    BY DEF SlotInv, SlotConservation, TypeInv, TypeOK, CmplTypes
  <2> DEFINE s == Front(dec_queue).packet_id
  <2>3. /\ Ordered(dec_queue') /\ Distinct(dec_queue')
        /\ s \in Queued(dec_queue)
        /\ Queued(dec_queue') = Queued(dec_queue) \ {s}
    BY <1>2, <2>1, <2>2, PopQueued DEF CmplStage
  <2> HIDE DEF s
  <2>4. current_cmpl_packet_id' = s /\ s \in Nat
    BY <2>1, <2>3, StageTypes DEF s, TypeInv
  <2>5. /\ CmplSlots' = CmplSlots
        /\ ComputeSlots' = ComputeSlots /\ CoreSlots' = CoreSlots /\ RunningCores' = RunningCores
        /\ DmaSlots' = DmaSlots /\ FreeSlots' = FreeSlots
    <3>1. CmplSlots' = (Queued(dec_queue) \ {s}) \union ({s} \ {None})
      BY <2>3, <2>4 DEF CmplSlots
    <3>2. CmplSlots = Queued(dec_queue) /\ s # None
      BY <1>2, <2>4 DEF CmplSlots, None
    <3>3. CmplSlots' = CmplSlots
      BY <2>3, <3>1, <3>2
    <3>4. QED
      BY <1>1, <3>3 DEF ComputeSlots, DmaSlots, CoreSlots, RunningCores, FreeSlots
  <2>6. FreeStack' /\ NoSlotLost'
    BY <1>1, <2>2, <2>5 DEF FreeStack, NoSlotLost
  <2>7. CmplStage'
    BY <1>1, <2>2, <2>3, <2>4, <2>5 DEF CmplStage, HasStatus
  <2>8. ComputeStage' /\ DmaStage'
    BY <1>1, <2>2, <2>5 DEF ComputeStage, DmaStage, HasStatus
  <2>9. Ordered(launch_queue') /\ Ordered(dma_queue')
    BY <1>1 DEF SlotInv
  <2>10. QED
    BY <2>3, <2>6, <2>7, <2>8, <2>9 DEF SlotInv, SlotConservation
<1>3. CASE ~(~IsEmpty(dec_queue) /\ current_cmpl_packet_id = None)
  BY <1>1, <1>3, UnchangedSlotInv DEF ProcessDecQueue, cmplVars, stageVars, Goto
<1>4. QED
  BY <1>2, <1>3

\* ProcessLaunchQueue moves the front of the queue to an idle core.
LEMMA ProcessLaunchConserves ==
  ASSUME TypeInv, SlotInv, ProcessLaunchQueue
  PROVE  SlotInv'
<1>1. UNCHANGED <<pending_packets, free_slots, remaining_dispatch_slots, dma_queue,
                  current_dma_packet_id, dec_queue, current_cmpl_packet_id>>
  BY DEF ProcessLaunchQueue, slotVars, dmaVars, cmplVars, Goto
<1>2. CASE ~IsEmpty(launch_queue) /\ RunningCores # Cores
  <2> DEFINE s == Front(launch_queue).packet_id
  <2>1. PICK c \in Cores :
          /\ c \notin RunningCores
          /\ core_usage' = [core_usage EXCEPT ![c] = [running |-> TRUE, packet_id |-> s]]
          /\ launch_queue' = Pop(launch_queue)
    BY <1>2 DEF ProcessLaunchQueue, FirstIdle, Goto
  <2>2. /\ FreeStack /\ DmaStage /\ ComputeStage /\ CmplStage /\ NoSlotLost
        /\ Ordered(launch_queue) /\ launch_queue \in Rings(LaunchRequests)
    BY DEF SlotInv, SlotConservation, TypeInv, TypeOK, CoreTypes
  <2>3. /\ Ordered(launch_queue') /\ Distinct(launch_queue')
        /\ s \in Queued(launch_queue)
        /\ Queued(launch_queue') = Queued(launch_queue) \ {s}
    BY <1>2, <2>1, <2>2, PopQueued DEF ComputeStage
  <2> HIDE DEF s
  <2>4. /\ RunningCores' = RunningCores \union {c}
        /\ core_usage'[c].packet_id = s
        /\ \A d \in RunningCores : core_usage'[d].packet_id = core_usage[d].packet_id
    BY <2>1 DEF RunningCores, TypeInv, TypeOK, CoreTypes
  <2>5. CoreSlots' = CoreSlots \union {s}
    BY <2>4 DEF CoreSlots
  <2>6. s \notin CoreSlots
    BY <2>2, <2>3 DEF ComputeStage
  <2>7. /\ ComputeSlots' = ComputeSlots /\ DmaSlots' = DmaSlots
        /\ CmplSlots' = CmplSlots /\ FreeSlots' = FreeSlots
    BY <1>1, <2>3, <2>5 DEF ComputeSlots, DmaSlots, CmplSlots, FreeSlots
  <2>8. FreeStack' /\ NoSlotLost'
    BY <1>1, <2>2, <2>7 DEF FreeStack, NoSlotLost
  <2>9. ComputeStage'
    <3>1. CoreSlots' \intersect Queued(launch_queue') = {}
      BY <2>2, <2>3, <2>5, <2>6 DEF ComputeStage
    <3>2. \A d \in RunningCores : core_usage[d].packet_id # s
      BY <2>6 DEF CoreSlots
    <3>3. \A d, b \in RunningCores' :
            core_usage'[d].packet_id = core_usage'[b].packet_id => d = b
      BY <2>2, <2>4, <3>2 DEF ComputeStage
    <3>4. HasStatus(ComputeSlots, {"PROCESSING"})'
      BY <1>1, <2>2, <2>7 DEF ComputeStage, HasStatus
    <3>5. QED
      BY <2>3, <3>1, <3>3, <3>4 DEF ComputeStage
  <2>10. DmaStage' /\ CmplStage'
    BY <1>1, <2>2, <2>7 DEF DmaStage, CmplStage, HasStatus
  <2>11. Ordered(dma_queue') /\ Ordered(dec_queue')
    BY <1>1 DEF SlotInv
  <2>12. QED
    BY <2>3, <2>8, <2>9, <2>10, <2>11 DEF SlotInv, SlotConservation
<1>3. CASE ~(~IsEmpty(launch_queue) /\ RunningCores # Cores)
  BY <1>1, <1>3, UnchangedSlotInv DEF ProcessLaunchQueue, coreVars, stageVars, Goto
<1>4. QED
  BY <1>2, <1>3

-----------------------------------------------------------------------------
(* The handlers.                                                            *)

\* ReleaseSlot puts the slot of its packet on the stack.
LEMMA ReleaseConserves ==
  ASSUME TypeInv, SlotInv, NEW s \in Slots, s \in DmaSlots \union CmplSlots, ReleaseSlot(s)
  PROVE  /\ FreeSlots' = FreeSlots \union {s}
         /\ \A i, j \in 0 .. remaining_dispatch_slots' - 1 :
              free_slots'[i] = free_slots'[j] => i = j
         /\ pending_packets' = pending_packets
<1> DEFINE r == remaining_dispatch_slots
<1>1. /\ r \in Slots
      /\ r' = r + 1 /\ free_slots' = [free_slots EXCEPT ![r] = s]
      /\ pending_packets' = pending_packets
  BY WindowAssumption DEF ReleaseSlot, TypeInv, TypeOK, SlotTypes, Slots, Freed, Counted
<1>2. free_slots \in [Slots -> Slots] /\ r \in Nat
  BY <1>1 DEF TypeInv, TypeOK, SlotTypes, Slots
<1>3. s \notin FreeSlots /\ FreeStack
  BY DEF SlotInv, SlotConservation, FreeStack
<1>4. \A i \in 0 .. r - 1 : i \in Slots /\ i # r /\ free_slots'[i] = free_slots[i]
  BY <1>1, <1>2, WindowAssumption DEF Slots
<1>5. free_slots'[r] = s
  BY <1>1, <1>2
<1>6. 0 .. r' - 1 = (0 .. r - 1) \union {r}
  BY <1>1, <1>2
<1>7. FreeSlots' = FreeSlots \union {s}
  BY <1>4, <1>5, <1>6 DEF FreeSlots
<1>8. \A i \in 0 .. r - 1 : free_slots[i] # s
  BY <1>3 DEF FreeSlots
<1>9. \A i, j \in 0 .. r' - 1 : free_slots'[i] = free_slots'[j] => i = j
  BY <1>3, <1>4, <1>5, <1>6, <1>8 DEF FreeStack
<1>10. QED
  BY <1>1, <1>7, <1>9

\* InterruptCompletion moves the current slot from the completion stage to the stack.
LEMMA CompletionConserves ==
  ASSUME TypeInv, SlotInv, InterruptCompletion
  PROVE  SlotInv'
<1> DEFINE s == current_cmpl_packet_id
<1>1. s \in Slots /\ s \in CmplSlots /\ ReleaseSlot(s)
  BY DEF InterruptCompletion, CmplSlots, Slots, None
<1>2. /\ current_cmpl_packet_id' = None
      /\ UNCHANGED <<dma_queue, current_dma_packet_id, launch_queue, core_usage, dec_queue>>
  BY DEF InterruptCompletion, dmaVars, coreVars
<1>3. /\ FreeSlots' = FreeSlots \union {s}
      /\ \A i, j \in 0 .. remaining_dispatch_slots' - 1 :
           free_slots'[i] = free_slots'[j] => i = j
      /\ pending_packets' = pending_packets
  BY <1>1, ReleaseConserves
<1>4. /\ FreeStack /\ DmaStage /\ ComputeStage /\ CmplStage /\ NoSlotLost
  BY DEF SlotInv, SlotConservation
<1>5. /\ DmaSlots' = DmaSlots /\ ComputeSlots' = ComputeSlots
      /\ CoreSlots' = CoreSlots /\ RunningCores' = RunningCores
  BY <1>2 DEF DmaSlots, ComputeSlots, CoreSlots, RunningCores
<1>6. CmplSlots' = CmplSlots \ {s}
  BY <1>1, <1>2, <1>4 DEF CmplSlots, CmplStage
<1> HIDE DEF s
<1>7. FreeStack'
  BY <1>1, <1>3, <1>4, <1>5, <1>6, StagesApart DEF FreeStack
<1>8. NoSlotLost'
  BY <1>3, <1>4, <1>5, <1>6 DEF NoSlotLost
<1>9. DmaStage' /\ ComputeStage'
  BY <1>2, <1>3, <1>4, <1>5 DEF DmaStage, ComputeStage, HasStatus
<1>10. CmplStage'
  <2>1. Queued(dec_queue) \subseteq Slots
    BY <1>4 DEF CmplStage, CmplSlots
  <2>2. current_cmpl_packet_id' \notin Queued(dec_queue')
    BY <1>2, <2>1 DEF Slots, None
  <2>3. QED
    BY <1>2, <1>3, <1>4, <1>6, <2>2 DEF CmplStage, HasStatus
<1>11. Ordered(dma_queue') /\ Ordered(launch_queue') /\ Ordered(dec_queue')
  BY <1>2 DEF SlotInv
<1>12. QED
  BY <1>7, <1>8, <1>9, <1>10, <1>11 DEF SlotInv, SlotConservation

\* InterruptKernel moves the slot of a finished core to the DMA stage.
LEMMA KernelConserves ==
  ASSUME TypeInv, SlotInv, NEW c \in Cores, InterruptKernel(c)
  PROVE  SlotInv'
<1> DEFINE s == core_usage[c].packet_id
           e == DmaRequest(s, "image", "STORE", pending_packets[s].pasid)
<1>1. c \in RunningCores
  BY DEF InterruptKernel, TypeInv, OneRequestPerEngine, CoreHandshake, ResultRequest, IdleCore
<1>2. s \in CoreSlots /\ s \in Slots /\ s \in ComputeSlots
  BY <1>1, CoreSlotsType DEF CoreSlots, ComputeSlots
<1>3. /\ FreeStack /\ DmaStage /\ ComputeStage /\ CmplStage /\ NoSlotLost
      /\ Ordered(dma_queue) /\ dma_queue \in Rings(DmaRequests) /\ SlotTypes
  BY DEF SlotInv, SlotConservation, TypeInv, TypeOK, DmaTypes
<1>4. e \in DmaRequests /\ e.packet_id = s
  BY <1>2, <1>3 DEF DmaRequest, DmaRequests, SlotTypes
<1>5. /\ dma_queue' = Push(dma_queue, e)
      /\ core_usage' = [core_usage EXCEPT ![c] = [running |-> FALSE, packet_id |-> None]]
      /\ UNCHANGED <<free_slots, remaining_dispatch_slots, current_dma_packet_id,
                     launch_queue, dec_queue, current_cmpl_packet_id>>
  BY DEF InterruptKernel, cmplVars, ResultRequest, IdleCore
<1>6. \A q \in Slots : pending_packets'[q].status =
                         IF q = s THEN "STORE_IMAGE" ELSE pending_packets[q].status
  <2>1. pending_packets' = [pending_packets EXCEPT ![s].status = "STORE_IMAGE"]
    BY DEF InterruptKernel, ResultRequest, IdleCore
  <2>2. "STORE_IMAGE" \in Statuses
    BY DEF Statuses
  <2> HIDE DEF s
  <2>3. QED
    BY <1>2, <1>3, <2>1, <2>2, SetStatus
<1>7. \A d \in RunningCores : core_usage[d].packet_id = s => d = c
  BY <1>1, <1>3 DEF ComputeStage
<1>8. s \notin DmaSlots /\ s \notin CmplSlots /\ s \notin FreeSlots
  BY <1>2, <1>3, StagesApart DEF FreeStack
<1> HIDE DEF s, e
<1>9. /\ Queued(dma_queue') = Queued(dma_queue) \union {s}
      /\ Distinct(dma_queue') /\ Ordered(dma_queue')
  <2>1. s \notin Queued(dma_queue) /\ Queued(dma_queue) \subseteq Slots
    BY <1>8, StageTypes DEF DmaSlots, TypeInv
  <2>2. HasRoom(dma_queue)
    BY <1>2, <1>3, <2>1, RoomForMissingSlot DEF DmaStage
  <2>3. QED
    BY <1>3, <1>4, <1>5, <2>1, <2>2, PushQueued DEF DmaStage
<1>10. /\ RunningCores' = RunningCores \ {c}
       /\ \A d \in RunningCores' : core_usage'[d] = core_usage[d]
  BY <1>5 DEF RunningCores, TypeInv, TypeOK, CoreTypes
<1>11. CoreSlots' = CoreSlots \ {s}
  BY <1>1, <1>7, <1>10 DEF CoreSlots, s
<1>12. /\ DmaSlots' = DmaSlots \union {s} /\ CmplSlots' = CmplSlots /\ FreeSlots' = FreeSlots
  BY <1>5, <1>9 DEF DmaSlots, CmplSlots, FreeSlots
<1>13. ComputeSlots' = ComputeSlots \ {s}
  BY <1>2, <1>3, <1>5, <1>11 DEF ComputeSlots, ComputeStage
<1>14. FreeStack' /\ NoSlotLost'
  BY <1>2, <1>3, <1>5, <1>8, <1>12, <1>13 DEF FreeStack, NoSlotLost
<1>15. DmaStage'
  <2>1. current_dma_packet_id' \notin Queued(dma_queue')
    BY <1>2, <1>3, <1>5, <1>8, <1>9 DEF DmaStage, DmaSlots, Slots, None
  <2>2. HasStatus(DmaSlots, {"GET_KERNARG", "GET_IMAGE", "STORE_IMAGE"})'
    BY <1>2, <1>3, <1>6, <1>12, StagesApart DEF DmaStage, HasStatus
  <2>3. QED
    BY <1>9, <2>1, <2>2 DEF DmaStage
<1>16. ComputeStage'
  <2>1. HasStatus(ComputeSlots, {"PROCESSING"})'
    BY <1>3, <1>6, <1>13, StagesApart DEF ComputeStage, HasStatus
  <2>2. \A d, b \in RunningCores' :
          core_usage'[d].packet_id = core_usage'[b].packet_id => d = b
    BY <1>3, <1>10 DEF ComputeStage
  <2>3. QED
    BY <1>3, <1>5, <1>11, <2>1, <2>2 DEF ComputeStage
<1>17. CmplStage'
  BY <1>3, <1>5, <1>6, <1>8, <1>12, StagesApart DEF CmplStage, HasStatus
<1>18. Ordered(launch_queue') /\ Ordered(dec_queue')
  BY <1>5 DEF SlotInv
<1>19. QED
  BY <1>9, <1>14, <1>15, <1>16, <1>17, <1>18 DEF SlotInv, SlotConservation

\* InterruptTransfer moves the current slot back to the end of the DMA queue, to
\* the compute stage, to the completion stage or to the stack.
LEMMA TransferConserves ==
  ASSUME TypeInv, SlotInv, InterruptTransfer
  PROVE  SlotInv'
<1> DEFINE s == current_dma_packet_id
<1>1. s \in Slots /\ s \in DmaSlots /\ s \notin Queued(dma_queue)
  BY DEF InterruptTransfer, TypeInv, OneRequestPerEngine, DmaHandshake, TypeOK, DmaTypes,
         DmaSlots, SlotInv, SlotConservation, DmaStage
<1>2. /\ current_dma_packet_id' = None
      /\ UNCHANGED <<core_usage, current_cmpl_packet_id>>
  BY DEF InterruptTransfer
<1>3. /\ FreeStack /\ DmaStage /\ ComputeStage /\ CmplStage /\ NoSlotLost /\ SlotTypes
      /\ Ordered(dma_queue) /\ dma_queue \in Rings(DmaRequests)
      /\ Ordered(launch_queue) /\ launch_queue \in Rings(LaunchRequests)
      /\ Ordered(dec_queue) /\ dec_queue \in Rings(DecRequests)
  BY DEF SlotInv, SlotConservation, TypeInv, TypeOK, DmaTypes, CoreTypes, CmplTypes
<1>4. DmaSlots = Queued(dma_queue) \union {s}
  BY <1>1 DEF DmaSlots, Slots, None
<1>5. RunningCores' = RunningCores /\ CoreSlots' = CoreSlots
  BY <1>2 DEF RunningCores, CoreSlots
<1>6. /\ s \notin ComputeSlots /\ s \notin CmplSlots /\ s \notin FreeSlots
      /\ pending_packets[s].status \in {"GET_KERNARG", "GET_IMAGE", "STORE_IMAGE"}
  BY <1>1, <1>3, StagesApart DEF FreeStack, DmaStage, HasStatus
<1>7. Queued(dma_queue) \subseteq Slots /\ Queued(launch_queue) \subseteq Slots
      /\ Queued(dec_queue) \subseteq Slots /\ None \notin Slots
  BY StageTypes, StagesApart DEF TypeInv, CmplSlots, Slots, None
<1> DEFINE StatusSet(t) ==
             \A q \in Slots : pending_packets'[q].status =
                               IF q = s THEN t ELSE pending_packets[q].status
<1>8. ASSUME TransferKernarg(s) PROVE SlotInv'
  <2> DEFINE e == DmaRequest(s, "image", "LOAD", pending_packets[s].pasid)
  <2>1. e \in DmaRequests /\ e.packet_id = s
    BY <1>1, <1>3 DEF DmaRequest, DmaRequests, SlotTypes
  <2>2. /\ dma_queue' = Push(dma_queue, e)
        /\ UNCHANGED <<free_slots, remaining_dispatch_slots, launch_queue, dec_queue>>
    BY <1>8 DEF TransferKernarg
  <2>3. StatusSet("GET_IMAGE")
    <3>1. pending_packets' = [pending_packets EXCEPT ![s].status = "GET_IMAGE"]
      BY <1>8 DEF TransferKernarg
    <3>2. "GET_IMAGE" \in Statuses
      BY DEF Statuses
    <3>3. QED
      BY <1>1, <1>3, <3>1, <3>2, SetStatus
  <2> HIDE DEF s, e
  <2>4. HasRoom(dma_queue)
    BY <1>1, <1>3, <1>7, RoomForMissingSlot DEF DmaStage
  <2>5. /\ Queued(dma_queue') = Queued(dma_queue) \union {s}
        /\ Distinct(dma_queue') /\ Ordered(dma_queue')
    BY <1>1, <1>3, <2>1, <2>2, <2>4, PushQueued DEF DmaStage
  <2>6. DmaSlots' = DmaSlots
    BY <1>2, <1>4, <2>5 DEF DmaSlots
  <2>7. ComputeSlots' = ComputeSlots /\ CmplSlots' = CmplSlots /\ FreeSlots' = FreeSlots
    BY <1>2, <1>5, <2>2 DEF ComputeSlots, CmplSlots, FreeSlots
  <2>8. FreeStack' /\ NoSlotLost'
    BY <1>3, <2>2, <2>6, <2>7 DEF FreeStack, NoSlotLost
  <2>9. DmaStage'
    BY <1>1, <1>2, <1>3, <1>7, <2>3, <2>5, <2>6, StagesApart DEF DmaStage, HasStatus
  <2>10. ComputeStage' /\ CmplStage'
    BY <1>2, <1>3, <1>5, <1>6, <2>2, <2>3, <2>7, StagesApart
    DEF ComputeStage, CmplStage, HasStatus
  <2>11. QED
    BY <1>3, <2>2, <2>5, <2>8, <2>9, <2>10 DEF SlotInv, SlotConservation
<1>9. ASSUME TransferImage(s) PROVE SlotInv'
  <2> DEFINE e == LaunchRequest(s)
  <2>1. e \in LaunchRequests /\ e.packet_id = s
    BY <1>1 DEF LaunchRequest, LaunchRequests
  <2>2. /\ launch_queue' = Push(launch_queue, e)
        /\ UNCHANGED <<free_slots, remaining_dispatch_slots, dma_queue, dec_queue>>
    BY <1>9 DEF TransferImage
  <2>3. StatusSet("PROCESSING")
    <3>1. pending_packets' = [pending_packets EXCEPT ![s].status = "PROCESSING"]
      BY <1>9 DEF TransferImage
    <3>2. "PROCESSING" \in Statuses
      BY DEF Statuses
    <3>3. QED
      BY <1>1, <1>3, <3>1, <3>2, SetStatus
  <2> HIDE DEF s, e
  <2>4. s \notin Queued(launch_queue) /\ s \notin CoreSlots
    BY <1>6 DEF ComputeSlots
  <2>5. HasRoom(launch_queue)
    BY <1>1, <1>3, <1>7, <2>4, RoomForMissingSlot DEF ComputeStage
  <2>6. /\ Queued(launch_queue') = Queued(launch_queue) \union {s}
        /\ Distinct(launch_queue') /\ Ordered(launch_queue')
    BY <1>3, <2>1, <2>2, <2>4, <2>5, PushQueued DEF ComputeStage
  <2>7. DmaSlots' = DmaSlots \ {s} /\ DmaSlots' = Queued(dma_queue)
    BY <1>1, <1>2, <1>4, <2>2 DEF DmaSlots
  <2>8. ComputeSlots' = ComputeSlots \union {s}
    BY <1>5, <2>6 DEF ComputeSlots
  <2>9. CmplSlots' = CmplSlots /\ FreeSlots' = FreeSlots
    BY <1>2, <2>2 DEF CmplSlots, FreeSlots
  <2>10. FreeStack' /\ NoSlotLost'
    BY <1>3, <1>6, <2>2, <2>7, <2>8, <2>9 DEF FreeStack, NoSlotLost
  <2>11. DmaStage'
    BY <1>1, <1>2, <1>3, <1>7, <2>2, <2>3, <2>7, StagesApart DEF DmaStage, HasStatus
  <2>12. ComputeStage'
    BY <1>1, <1>2, <1>3, <1>5, <2>3, <2>4, <2>6, <2>8, StagesApart DEF ComputeStage, HasStatus
  <2>13. CmplStage'
    BY <1>2, <1>3, <1>6, <2>2, <2>3, <2>9, StagesApart DEF CmplStage, HasStatus
  <2>14. QED
    BY <1>3, <2>2, <2>6, <2>10, <2>11, <2>12, <2>13 DEF SlotInv, SlotConservation
<1>10. ASSUME TransferResultSignal(s) PROVE SlotInv'
  <2> DEFINE h == aql[pending_packets[s].kp].num
             e == DecRequest(s, h, pending_packets[s].pasid)
  <2>1. e.packet_id = s /\ e \in [packet_id : Nat, signal_handle : {h}, pasid : {e.pasid}]
    BY <1>1 DEF DecRequest, Slots
  <2>2. /\ dec_queue' = Push(dec_queue, e)
        /\ UNCHANGED <<free_slots, remaining_dispatch_slots, dma_queue, launch_queue>>
    BY <1>10 DEF TransferResultSignal
  <2>3. StatusSet("COMPLETION")
    <3>1. pending_packets' = [pending_packets EXCEPT ![s].status = "COMPLETION"]
      BY <1>10 DEF TransferResultSignal
    <3>2. "COMPLETION" \in Statuses
      BY DEF Statuses
    <3>3. QED
      BY <1>1, <1>3, <3>1, <3>2, SetStatus
  <2> HIDE DEF s, e, h
  <2>4. s \notin Queued(dec_queue) /\ current_cmpl_packet_id # s
    BY <1>1, <1>6, <1>7 DEF CmplSlots
  <2>5. dec_queue \in Rings(DecRequests \union {e}) /\ e \in DecRequests \union {e}
    BY <1>3 DEF Rings
  <2>6. HasRoom(dec_queue)
    BY <1>1, <1>3, <1>7, <2>4, RoomForMissingSlot DEF CmplStage
  <2>7. /\ Queued(dec_queue') = Queued(dec_queue) \union {s}
        /\ Distinct(dec_queue') /\ Ordered(dec_queue')
    BY <1>3, <2>1, <2>2, <2>4, <2>5, <2>6, PushQueued DEF CmplStage
  <2>8. DmaSlots' = DmaSlots \ {s} /\ DmaSlots' = Queued(dma_queue)
    BY <1>1, <1>2, <1>4, <2>2 DEF DmaSlots
  <2>9. CmplSlots' = CmplSlots \union {s}
    BY <1>2, <2>7 DEF CmplSlots
  <2>10. ComputeSlots' = ComputeSlots /\ FreeSlots' = FreeSlots
    BY <1>5, <2>2 DEF ComputeSlots, FreeSlots
  <2>11. FreeStack' /\ NoSlotLost'
    BY <1>3, <1>6, <2>2, <2>8, <2>9, <2>10 DEF FreeStack, NoSlotLost
  <2>12. DmaStage'
    BY <1>1, <1>2, <1>3, <1>7, <2>2, <2>3, <2>8, StagesApart DEF DmaStage, HasStatus
  <2>13. ComputeStage'
    BY <1>2, <1>3, <1>5, <1>6, <2>2, <2>3, <2>10, StagesApart DEF ComputeStage, HasStatus
  <2>14. CmplStage'
    BY <1>1, <1>2, <1>3, <2>3, <2>4, <2>7, <2>9, StagesApart DEF CmplStage, HasStatus
  <2>15. QED
    BY <1>3, <2>2, <2>7, <2>11, <2>12, <2>13, <2>14 DEF SlotInv, SlotConservation
<1>11. ASSUME TransferResult(s) PROVE SlotInv'
  <2>1. ReleaseSlot(s) /\ UNCHANGED <<dma_queue, launch_queue, dec_queue>>
    BY <1>11 DEF TransferResult
  <2>2. /\ FreeSlots' = FreeSlots \union {s}
        /\ \A i, j \in 0 .. remaining_dispatch_slots' - 1 :
             free_slots'[i] = free_slots'[j] => i = j
        /\ pending_packets' = pending_packets
    BY <1>1, <2>1, ReleaseConserves
  <2> HIDE DEF s
  <2>3. DmaSlots' = DmaSlots \ {s} /\ DmaSlots' = Queued(dma_queue)
    BY <1>1, <1>2, <1>4, <2>1 DEF DmaSlots
  <2>4. ComputeSlots' = ComputeSlots /\ CmplSlots' = CmplSlots
    BY <1>2, <1>5, <2>1 DEF ComputeSlots, CmplSlots
  <2>5. FreeStack' /\ NoSlotLost'
    BY <1>3, <1>6, <2>2, <2>3, <2>4 DEF FreeStack, NoSlotLost
  <2>6. DmaStage'
    BY <1>2, <1>3, <1>7, <2>1, <2>2, <2>3 DEF DmaStage, HasStatus
  <2>7. ComputeStage' /\ CmplStage'
    BY <1>2, <1>3, <1>5, <2>1, <2>2, <2>4 DEF ComputeStage, CmplStage, HasStatus
  <2>8. QED
    BY <1>3, <2>1, <2>5, <2>6, <2>7 DEF SlotInv, SlotConservation
<1>12. ~TransferIgnored(s)
  BY <1>6 DEF TransferIgnored
<1>13. QED
  BY <1>8, <1>9, <1>10, <1>11, <1>12 DEF InterruptTransfer

-----------------------------------------------------------------------------
(* Every step but the one that queues a barrier packet's signal.            *)

LEMMA SlotInvStep ==
  ASSUME TypeInv, SlotInv, [Next]_vars, pc # "barrier_signal"
  PROVE  SlotInv'
<1>1. CASE Host
  <2>1. UNCHANGED stageVars
    BY <1>1 DEF Host, Claim, WritePacket, Doorbell, RaiseAdmin, stageVars, slotVars, dmaVars,
                coreVars, cmplVars
  <2>2. QED
    BY <2>1, UnchangedSlotInv
<1>2. CASE Tpc \/ \E c \in Cores : CoreCompute(c)
  <2>1. UNCHANGED stageVars
    BY <1>2 DEF Tpc, TpcTransfer, TpcDecrement, TpcEcho, TpcPassOver, CoreCompute, stageVars,
                slotVars, dmaVars, coreVars, cmplVars
  <2>2. QED
    BY <2>1, UnchangedSlotInv
<1>3. CASE \/ NothingToProcess \/ ReadHeader \/ BarrierBit \/ AwaitDeps
           \/ RetireBarrier \/ StoreReadIndex \/ Advance \/ ClearAqlLeft
  <2>1. UNCHANGED stageVars
    BY <1>3 DEF NothingToProcess, ReadHeader, BarrierBit, AwaitDeps, RetireBarrier,
                StoreReadIndex, Advance, ClearAqlLeft, stageVars, slotVars, dmaVars,
                coreVars, cmplVars, Goto
  <2>2. QED
    BY <2>1, UnchangedSlotInv
<1>4. ~QueueBarrierSignal
  BY DEF QueueBarrierSignal, Goto
<1>5. CASE \E i \in DOMAIN AdminAnswer : InterruptAdmin(i)
  <2>1. UNCHANGED stageVars
    BY <1>5 DEF InterruptAdmin, stageVars, slotVars, dmaVars, coreVars, cmplVars
  <2>2. QED
    BY <2>1, UnchangedSlotInv
<1>6. CASE UNCHANGED vars
  BY <1>6, UnchangedSlotInv DEF vars, stageVars, slotVars, dmaVars, coreVars, cmplVars
<1>7. QED
  BY <1>1, <1>2, <1>3, <1>4, <1>5, <1>6, DispatchConserves, ProcessDmaConserves,
     ProcessLaunchConserves, ProcessDecConserves, TransferConserves, KernelConserves,
     CompletionConserves
  DEF Next, MainLoop, ProcessAqlPackets, Handlers

\* No queue overflows, as no slot is queued twice.
LEMMA StagesFit ==
  ASSUME TypeInv, SlotInv
  PROVE  QueuesFit
<1>1. /\ dma_queue \in Rings(DmaRequests) /\ Ordered(dma_queue) /\ Distinct(dma_queue)
      /\ launch_queue \in Rings(LaunchRequests) /\ Ordered(launch_queue) /\ Distinct(launch_queue)
      /\ dec_queue \in Rings(DecRequests) /\ Ordered(dec_queue) /\ Distinct(dec_queue)
  BY DEF SlotInv, SlotConservation, DmaStage, ComputeStage, CmplStage, TypeInv, TypeOK,
         DmaTypes, CoreTypes, CmplTypes
<1>2. dma_queue.write <= dma_queue.read + W
  BY <1>1, DistinctFits
<1>3. launch_queue.write <= launch_queue.read + W
  BY <1>1, DistinctFits
<1>4. dec_queue.write <= dec_queue.read + W
  BY <1>1, DistinctFits
<1>5. remaining_dispatch_slots <= W
  BY WindowAssumption DEF TypeInv, TypeOK, SlotTypes
<1>6. QED
  BY <1>1, <1>2, <1>3, <1>4, <1>5 DEF QueuesFit, Ordered

\* A handler that gives a slot back finds room on the stack for it.
StackHasRoom == \A s \in DmaSlots \union ComputeSlots \union CmplSlots :
                  remaining_dispatch_slots < W

LEMMA RoomOnStack ==
  ASSUME TypeInv, SlotInv
  PROVE  StackHasRoom
<1> SUFFICES ASSUME NEW s \in DmaSlots \union ComputeSlots \union CmplSlots
             PROVE  remaining_dispatch_slots < W
  BY DEF StackHasRoom
<1> DEFINE r == remaining_dispatch_slots
           f == [i \in 0 .. r - 1 |-> free_slots[i]]
<1>1. r \in Nat /\ r <= W /\ free_slots \in [Slots -> Slots]
  BY WindowAssumption DEF TypeInv, TypeOK, SlotTypes
<1>2. s \in Slots /\ s \notin FreeSlots /\ FreeStack
  BY StagesApart DEF SlotInv, SlotConservation, FreeStack
<1>3. \A i \in 0 .. r - 1 : f[i] \in Slots /\ f[i] # s
  BY <1>1, <1>2, WindowAssumption DEF FreeSlots, Slots
<1>4. f \in [0 .. r - 1 -> Slots]
  BY <1>3
<1>5. \A i, j \in 0 .. r - 1 : f[i] = f[j] => i = j
  BY <1>2 DEF FreeStack
<1> HIDE DEF f
<1>6. r < 0 + W
  BY <1>1, <1>2, <1>3, <1>4, <1>5, SlotPigeonhole
<1>7. QED
  BY <1>1, <1>6, WindowAssumption

\* As long as no barrier packet's completion signal is queued, the main loop and
\* the interrupt handlers never lose or duplicate a slot of the window, none of
\* the three queues overflows, and the free stack has room for every slot given
\* back: the checks for full queues that the firmware does without are not needed.
THEOREM WindowConserved ==
  Spec /\ [](pc # "barrier_signal") => [](SlotConservation /\ QueuesFit /\ StackHasRoom)
<1>1. Init => TypeInv /\ InFlightNamed /\ SlotInv
  BY TypeInvInit, InFlightNamedInit, SlotInvInit
<1>2. /\ TypeInv /\ InFlightNamed /\ SlotInv
      /\ [Next]_vars /\ pc # "barrier_signal"
      => TypeInv' /\ InFlightNamed' /\ SlotInv'
  BY TypeInvStep, InFlightStep, SlotInvStep
<1>3. TypeInv /\ SlotInv => SlotConservation /\ QueuesFit /\ StackHasRoom
  BY StagesFit, RoomOnStack DEF SlotInv
<1>4. QED
  BY <1>1, <1>2, <1>3, PTL DEF Spec

-----------------------------------------------------------------------------
(* A host that submits no barrier packets.                                  *)

BarrierTypes == {"BARRIER_AND", "BARRIER_OR"}

NoBarrierPackets == \A s \in Shapes : s.type \notin BarrierTypes

\* the main loop never sees a barrier packet
NoBarrierInv ==
  /\ \A i \in 0 .. Q - 1 : aql[i].type \notin BarrierTypes
  /\ header.type \notin BarrierTypes
  /\ pc \notin {"barrier_and", "barrier_or", "barrier_signal", "barrier_retire", "barrier_store"}

LEMMA NoBarrierStep ==
  ASSUME NoBarrierPackets, TypeInv, NoBarrierInv, [Next]_vars
  PROVE  NoBarrierInv'
<1>1. aql \in [0 .. Q - 1 -> AqlPackets] /\ packet_index \in 0 .. Q - 1
  BY PacketIndexType DEF TypeInv, TypeOK, HostTypes, MainTypes
<1>2. CurrentPacket.type \notin BarrierTypes
  BY <1>1 DEF NoBarrierInv, CurrentPacket
<1>3. \A t : t \notin BarrierTypes => Branch(t) \in {"dma", "kernel", "advance"}
  BY DEF Branch, BarrierTypes
<1>4. ASSUME UNCHANGED <<aql, pc, header>> PROVE NoBarrierInv'
  BY <1>4 DEF NoBarrierInv
<1>5. ASSUME UNCHANGED <<aql, header>>, pc' \in {"aql", "advance", "clear", "dma", "launch", "dec"}
      PROVE  NoBarrierInv'
  BY <1>5 DEF NoBarrierInv
<1>6. ASSUME NEW s \in Slots, ReleaseSlot(s), UNCHANGED <<pc, header>>
      PROVE  NoBarrierInv'
  <2>1. aql' = [aql EXCEPT ![pending_packets[s].kp] = Invalidate(@)]
    BY <1>6 DEF ReleaseSlot, Freed, Counted
  <2>2. Invalidate(aql[pending_packets[s].kp]).type = "INVALID"
    BY DEF Invalidate
  <2>3. \A i \in 0 .. Q - 1 : aql'[i].type \in {"INVALID", aql[i].type}
    BY <1>1, <2>1, <2>2
  <2>4. QED
    BY <1>6, <2>3 DEF NoBarrierInv, BarrierTypes
<1>7. CASE Host
  <2>1. ASSUME NEW n \in Packets, WritePacket(n) PROVE NoBarrierInv'
    <3>1. PICK s \in Shapes : aql' = [aql EXCEPT ![n % Q] = Packet(n, s)]
      BY <2>1 DEF WritePacket
    <3>2. Packet(n, s).type \notin BarrierTypes
      BY DEF Packet, NoBarrierPackets
    <3>3. \A i \in 0 .. Q - 1 : aql'[i] = Packet(n, s) \/ aql'[i] = aql[i]
      BY <1>1, <3>1
    <3>4. pc' = pc /\ header' = header
      BY <2>1 DEF WritePacket, mainVars
    <3>5. QED
      BY <3>2, <3>3, <3>4 DEF NoBarrierInv
  <2>2. CASE Claim \/ (\E n \in Packets : Doorbell(n)) \/ \E i \in AdminInts : RaiseAdmin(i)
    BY <1>4, <2>2 DEF Claim, Doorbell, RaiseAdmin, mainVars, hostVars
  <2>3. QED
    BY <1>7, <2>1, <2>2 DEF Host
<1>8. CASE Tpc \/ \E c \in Cores : CoreCompute(c)
  BY <1>4, <1>8 DEF Tpc, TpcTransfer, TpcDecrement, TpcEcho, TpcPassOver, CoreCompute, mainVars,
                    hostVars
<1>9. CASE ProcessAqlPackets
  <2>1. CASE ReadHeader
    BY <1>2, <1>3, <2>1 DEF ReadHeader, NoBarrierInv, hostVars
  <2>2. CASE BarrierBit
    BY <1>3, <2>2 DEF BarrierBit, NoBarrierInv, hostVars, Goto
  <2>3. CASE NothingToProcess \/ DispatchKernel \/ Advance \/ ClearAqlLeft
    BY <1>5, <2>3 DEF NothingToProcess, DispatchKernel, Advance, ClearAqlLeft, hostVars, Goto
  <2>4. ~(AwaitDeps \/ QueueBarrierSignal \/ RetireBarrier \/ StoreReadIndex)
    BY DEF AwaitDeps, DepsReady, QueueBarrierSignal, RetireBarrier, StoreReadIndex, NoBarrierInv, Goto
  <2>5. QED
    BY <1>9, <2>1, <2>2, <2>3, <2>4 DEF ProcessAqlPackets
<1>10. CASE ProcessDmaQueue \/ ProcessLaunchQueue \/ ProcessDecQueue
  BY <1>5, <1>10 DEF ProcessDmaQueue, ProcessLaunchQueue, ProcessDecQueue, hostVars, Goto, DmaIdle
<1>11. CASE InterruptTransfer
  <2>1. pc' = pc /\ header' = header
    BY <1>11 DEF InterruptTransfer, mainVars
  <2>2. current_dma_packet_id \in Slots
    BY <1>11 DEF InterruptTransfer, TypeInv, OneRequestPerEngine, DmaHandshake, TypeOK, DmaTypes
  <2>3. CASE TransferResult(current_dma_packet_id)
    BY <1>6, <2>1, <2>2, <2>3 DEF TransferResult
  <2>4. CASE ~TransferResult(current_dma_packet_id)
    <3>1. aql' = aql
      BY <1>11, <2>4 DEF InterruptTransfer, TransferKernarg, TransferImage,
                         TransferResultSignal, TransferIgnored
    <3>2. QED
      BY <1>4, <2>1, <3>1
  <2>5. QED
    BY <2>3, <2>4
<1>12. CASE InterruptCompletion
  BY <1>6, <1>12 DEF InterruptCompletion, mainVars
<1>13. CASE (\E c \in Cores : InterruptKernel(c)) \/ \E i \in DOMAIN AdminAnswer : InterruptAdmin(i)
  BY <1>4, <1>13 DEF InterruptKernel, InterruptAdmin, mainVars, hostVars, ResultRequest, IdleCore
<1>14. CASE UNCHANGED vars
  BY <1>4, <1>14 DEF vars, mainVars, hostVars
<1>15. QED
  BY <1>7, <1>8, <1>9, <1>10, <1>11, <1>12, <1>13, <1>14 DEF Next, MainLoop, Handlers

\* For a host that submits no barrier packets the window is conserved and no
\* queue overflows, whatever the window size, the cores and the interleaving.
THEOREM KernelsConserveWindow ==
  ASSUME NoBarrierPackets
  PROVE  Spec => [](SlotConservation /\ QueuesFit)
<1>1. Init => TypeInv /\ InFlightNamed /\ NoBarrierInv
  <2>1. Init => NoBarrierInv
    BY DEF Init, NoBarrierInv, NoPacket, BarrierTypes
  <2>2. QED
    BY <2>1, TypeInvInit, InFlightNamedInit
<1>2. TypeInv /\ InFlightNamed /\ NoBarrierInv /\ [Next]_vars
      => TypeInv' /\ InFlightNamed' /\ NoBarrierInv'
  BY TypeInvStep, InFlightStep, NoBarrierStep
<1>3. NoBarrierInv => pc # "barrier_signal"
  BY DEF NoBarrierInv
<1>4. QED
  BY <1>1, <1>2, <1>3, WindowConserved, PTL DEF Spec

-----------------------------------------------------------------------------
(* The count.                                                               *)

\* the kernels completed and in flight, and the packets the main loop is past
Counts == read_index + (W - remaining_dispatch_slots)
Passed == current_packet_number + (IF pc = "advance" THEN 1 ELSE 0)

\* a barrier packet's ++(*READ_INDEX) stores no more than one too little
LoadedBehind == pc = "barrier_store" => loaded_index <= read_index

CountInv == CountNeverAhead /\ LoadedBehind

\* The packets process_aql_packets goes past without a window slot.
SkipsPacket == QueueBarrierSignal \/ ((ReadHeader \/ BarrierBit) /\ pc' = "advance")

LEMMA CountTypes ==
  ASSUME TypeInv
  PROVE  /\ read_index \in Nat /\ loaded_index \in Nat /\ current_packet_number \in Nat
         /\ remaining_dispatch_slots \in 0 .. W /\ W \in Nat /\ pc \in MainPoints
BY WindowAssumption DEF TypeInv, TypeOK, SharedTypes, MainTypes, SlotTypes

LEMMA BranchPoint ==
  ASSUME NEW t
  PROVE  Branch(t) \in {"dma", "kernel", "barrier_and", "barrier_or", "advance"}
BY DEF Branch

\* Releasing a slot counts one packet and frees one slot.
LEMMA ReleaseCounts ==
  ASSUME TypeInv, NEW s, ReleaseSlot(s), UNCHANGED mainVars
  PROVE  Counts' = Counts /\ Passed' = Passed /\ read_index' = read_index + 1
<1>1. /\ remaining_dispatch_slots' = remaining_dispatch_slots + 1
      /\ read_index' = read_index + 1
  BY DEF ReleaseSlot, Counted
<1>2. Counts' = Counts
  BY <1>1, CountTypes DEF Counts
<1>3. Passed' = Passed
  BY DEF Passed, mainVars
<1>4. QED
  BY <1>1, <1>2, <1>3

\* How a step changes both sides of the count: only barrier packets and skipped
\* packets change them differently.
LEMMA CountChange ==
  ASSUME TypeInv, [Next]_vars
  PROVE  \/ Counts' = Counts /\ Passed' = Passed
         \/ Counts' = Counts + 1 /\ Passed' = Passed + 1
         \/ SkipsPacket /\ Counts' = Counts /\ Passed' = Passed + 1
         \/ StoreReadIndex /\ Passed' = Passed + 1
                           /\ Counts' = loaded_index + 1 + (W - remaining_dispatch_slots)
<1> DEFINE Same == Counts' = Counts /\ Passed' = Passed
<1>0. ASSUME UNCHANGED <<read_index, remaining_dispatch_slots, mainVars>> PROVE Same
  BY <1>0 DEF Counts, Passed, mainVars
<1>1. CASE Host \/ Tpc
  BY <1>0, <1>1 DEF Host, Claim, WritePacket, Doorbell, RaiseAdmin, Tpc, TpcTransfer, TpcDecrement,
                    TpcEcho, TpcPassOver, slotVars
<1>2. ASSUME NEW c \in Cores, CoreCompute(c) \/ InterruptKernel(c) PROVE Same
  BY <1>0, <1>2 DEF CoreCompute, InterruptKernel, slotVars
<1>3. ASSUME NEW i \in DOMAIN AdminAnswer, InterruptAdmin(i) PROVE Same
  BY <1>0, <1>3 DEF InterruptAdmin, slotVars
<1>4. CASE InterruptTransfer
  <2> DEFINE s == current_dma_packet_id
  <2>1. UNCHANGED mainVars
    BY <1>4 DEF InterruptTransfer
  <2>2. \/ TransferKernarg(s) \/ TransferImage(s) \/ TransferResultSignal(s)
        \/ TransferResult(s) \/ TransferIgnored(s)
    BY <1>4 DEF InterruptTransfer
  <2>3. CASE TransferResult(s)
    BY <2>1, <2>3, ReleaseCounts DEF TransferResult
  <2>4. CASE TransferKernarg(s) \/ TransferImage(s) \/ TransferResultSignal(s)
    BY <1>0, <2>1, <2>4 DEF TransferKernarg, TransferImage, TransferResultSignal
  <2>5. CASE TransferIgnored(s)
    BY <1>0, <2>1, <2>5 DEF TransferIgnored, slotVars
  <2>6. QED
    BY <2>2, <2>3, <2>4, <2>5
<1>5. CASE InterruptCompletion
  BY <1>5, ReleaseCounts DEF InterruptCompletion
<1>6. CASE NothingToProcess \/ ReadHeader \/ BarrierBit
  <2>1. /\ UNCHANGED <<read_index, remaining_dispatch_slots, current_packet_number>>
        /\ pc # "advance"
    BY <1>6 DEF NothingToProcess, ReadHeader, BarrierBit, slotVars, Goto
  <2>2. Counts' = Counts
    BY <2>1 DEF Counts
  <2>3. CASE pc' # "advance"
    BY <2>1, <2>2, <2>3 DEF Passed
  <2>4. CASE pc' = "advance"
    <3>1. ReadHeader \/ BarrierBit
      BY <1>6, <2>4 DEF NothingToProcess, Goto
    <3>2. Passed' = Passed + 1
      BY <2>1, <2>4, CountTypes DEF Passed
    <3>3. QED
      BY <2>2, <2>4, <3>1, <3>2 DEF SkipsPacket
  <2>5. QED
    BY <2>3, <2>4
<1>7. CASE DispatchKernel
  <2>1. /\ remaining_dispatch_slots' = remaining_dispatch_slots - 1
        /\ pc = "kernel" /\ pc' = "advance"
        /\ UNCHANGED <<read_index, current_packet_number>>
    BY <1>7 DEF DispatchKernel, Goto
  <2>2. Counts' = Counts + 1
    BY <2>1, CountTypes DEF Counts
  <2>3. Passed' = Passed + 1
    BY <2>1, CountTypes DEF Passed
  <2>4. QED
    BY <2>2, <2>3
<1>8. CASE AwaitDeps \/ RetireBarrier
  BY <1>8 DEF AwaitDeps, DepsReady, RetireBarrier, slotVars, Goto, Counts, Passed
<1>9. CASE QueueBarrierSignal \/ StoreReadIndex
  <2>1. /\ pc # "advance" /\ pc' = "advance"
        /\ UNCHANGED <<remaining_dispatch_slots, current_packet_number>>
        /\ QueueBarrierSignal => UNCHANGED read_index
        /\ StoreReadIndex => read_index' = loaded_index + 1
    BY <1>9 DEF QueueBarrierSignal, StoreReadIndex, slotVars, Goto
  <2>2. Passed' = Passed + 1
    BY <2>1, CountTypes DEF Passed
  <2>3. QueueBarrierSignal => Counts' = Counts
    BY <2>1 DEF Counts
  <2>4. StoreReadIndex => Counts' = loaded_index + 1 + (W - remaining_dispatch_slots)
    BY <2>1 DEF Counts
  <2>5. QED
    BY <1>9, <2>2, <2>3, <2>4 DEF SkipsPacket
<1>10. CASE Advance
  <2>1. /\ pc = "advance" /\ pc' # "advance"
        /\ current_packet_number' = current_packet_number + 1
        /\ UNCHANGED <<read_index, remaining_dispatch_slots>>
    BY <1>10 DEF Advance, slotVars
  <2>2. QED
    BY <2>1, CountTypes DEF Counts, Passed
<1>11. CASE ClearAqlLeft \/ ProcessDmaQueue \/ ProcessLaunchQueue \/ ProcessDecQueue
  BY <1>11 DEF ClearAqlLeft, ProcessDmaQueue, ProcessLaunchQueue, ProcessDecQueue, slotVars, Goto,
               Counts, Passed
<1>12. CASE UNCHANGED vars
  BY <1>0, <1>12 DEF vars, slotVars
<1>13. QED
  BY <1>1, <1>2, <1>3, <1>4, <1>5, <1>6, <1>7, <1>8, <1>9, <1>10, <1>11, <1>12, NextCases
     DEF Host, Tpc

\* READ_INDEX never falls, except where a barrier packet stores what it loaded.
LEMMA ReadIndexGrows ==
  ASSUME TypeInv, [Next]_vars, ~StoreReadIndex
  PROVE  read_index' = read_index \/ read_index' = read_index + 1
<1>1. CASE InterruptTransfer
  BY <1>1 DEF InterruptTransfer, TransferKernarg, TransferImage, TransferResultSignal,
              TransferResult, TransferIgnored, ReleaseSlot, Counted
<1>2. CASE InterruptCompletion
  BY <1>2 DEF InterruptCompletion, ReleaseSlot, Counted
<1>3. CASE ~InterruptTransfer /\ ~InterruptCompletion
  BY <1>3, NextCases
     DEF Claim, WritePacket, Doorbell, RaiseAdmin, TpcTransfer, TpcDecrement, TpcEcho, TpcPassOver,
         CoreCompute, InterruptKernel, InterruptAdmin, NothingToProcess, ReadHeader, BarrierBit,
         DispatchKernel, AwaitDeps, QueueBarrierSignal, RetireBarrier, Advance, ClearAqlLeft,
         ProcessDmaQueue, ProcessLaunchQueue, ProcessDecQueue, vars
<1>4. QED
  BY <1>1, <1>2, <1>3

LEMMA LoadedBehindStep ==
  ASSUME TypeInv, LoadedBehind, [Next]_vars
  PROVE  LoadedBehind'
<1> SUFFICES ASSUME pc' = "barrier_store" PROVE loaded_index' <= read_index'
  BY DEF LoadedBehind
<1>1. CASE RetireBarrier
  BY <1>1, CountTypes DEF RetireBarrier
<1>2. CASE ~RetireBarrier
  <2>1. UNCHANGED mainVars
    BY <1>2, NextCases, BranchPoint
       DEF Claim, WritePacket, Doorbell, RaiseAdmin, TpcTransfer, TpcDecrement, TpcEcho,
           TpcPassOver, CoreCompute, InterruptKernel, InterruptAdmin, NothingToProcess, ReadHeader,
           BarrierBit, DispatchKernel, AwaitDeps, QueueBarrierSignal, StoreReadIndex, Advance,
           ClearAqlLeft, ProcessDmaQueue, ProcessLaunchQueue, ProcessDecQueue, InterruptTransfer,
           InterruptCompletion, Goto, vars
  <2>2. pc = "barrier_store" /\ loaded_index' = loaded_index /\ ~StoreReadIndex
    BY <2>1 DEF mainVars, StoreReadIndex, Goto
  <2>3. QED
    BY <2>2, ReadIndexGrows, CountTypes DEF LoadedBehind
<1>3. QED
  BY <1>1, <1>2

\* With barrier packets, the count never runs ahead of the packets consumed:
\* for every mix of shapes, barrier packets that corrupt the window included.
THEOREM CountsBehind == Spec => []CountNeverAhead
<1>1. Init => TypeInv /\ InFlightNamed /\ CountInv
  <2>1. Init => CountInv
    BY WindowAssumption DEF Init, CountInv, CountNeverAhead, LoadedBehind
  <2>2. QED
    BY <2>1, TypeInvInit, InFlightNamedInit
<1>2. TypeInv /\ InFlightNamed /\ CountInv /\ [Next]_vars
      => TypeInv' /\ InFlightNamed' /\ CountInv'
  <2> SUFFICES ASSUME TypeInv, InFlightNamed, CountInv, [Next]_vars
               PROVE  TypeInv' /\ InFlightNamed' /\ CountInv'
    OBVIOUS
  <2>1. TypeInv' /\ InFlightNamed'
    BY TypeInvStep, InFlightStep
  <2>2. LoadedBehind'
    BY LoadedBehindStep DEF CountInv
  <2>3. Counts <= Passed
    BY DEF CountInv, CountNeverAhead, Counts, Passed
  <2>4. StoreReadIndex => loaded_index <= read_index
    BY DEF StoreReadIndex, CountInv, LoadedBehind
  <2>5. Counts \in Int /\ Passed \in Int
    BY CountTypes DEF Counts, Passed
  <2>6. Counts' <= Passed'
    <3>1. CASE StoreReadIndex /\ Passed' = Passed + 1
                              /\ Counts' = loaded_index + 1 + (W - remaining_dispatch_slots)
      BY <2>3, <2>4, <3>1, CountTypes DEF Counts, Passed
    <3>2. QED
      BY <2>3, <2>5, <3>1, CountChange
  <2>7. QED
    BY <2>1, <2>2, <2>6 DEF CountInv, CountNeverAhead, Counts, Passed
<1>3. CountInv => CountNeverAhead
  BY DEF CountInv
<1>4. QED
  BY <1>1, <1>2, <1>3, PTL DEF Spec
-----------------------------------------------------------------------------
(* The count of kernels alone.                                              *)

OnlyKernels == \A s \in Shapes : s.type = "KERNEL_DISPATCH"

\* the main loop sees kernels and invalidated packets
KernelsInv ==
  /\ \A i \in 0 .. Q - 1 : aql[i].type \in {"INVALID", "KERNEL_DISPATCH"}
  /\ header.type \in {"INVALID", "KERNEL_DISPATCH"}

LEMMA KernelBranch ==
  ASSUME NEW t \in {"INVALID", "KERNEL_DISPATCH"}
  PROVE  Branch(t) \in {"dma", "kernel"}
BY DEF Branch

LEMMA KernelsInvStep ==
  ASSUME OnlyKernels, TypeInv, KernelsInv, [Next]_vars
  PROVE  KernelsInv'
<1>1. aql \in [0 .. Q - 1 -> AqlPackets] /\ packet_index \in 0 .. Q - 1
  BY PacketIndexType DEF TypeInv, TypeOK, HostTypes, MainTypes
<1>2. CASE UNCHANGED <<aql, header>>
  BY <1>2 DEF KernelsInv
<1>3. ASSUME NEW n \in Packets, WritePacket(n) PROVE KernelsInv'
  <2>1. PICK s \in Shapes : aql' = [aql EXCEPT ![n % Q] = Packet(n, s)]
    BY <1>3 DEF WritePacket
  <2>2. Packet(n, s).type = "KERNEL_DISPATCH" /\ header' = header
    BY <1>3 DEF Packet, OnlyKernels, WritePacket, mainVars
  <2>3. QED
    BY <1>1, <2>1, <2>2 DEF KernelsInv
<1>4. ASSUME NEW i, aql' = [aql EXCEPT ![i] = Invalidate(@)], header' = header PROVE KernelsInv'
  BY <1>1, <1>4 DEF KernelsInv, Invalidate
<1>5. CASE ReadHeader
  <2>1. header'.type = CurrentPacket.type /\ aql' = aql
    BY <1>5 DEF ReadHeader, hostVars
  <2>2. QED
    BY <1>1, <2>1 DEF KernelsInv, CurrentPacket
<1>6. CASE InterruptTransfer
  BY <1>2, <1>4, <1>6
     DEF InterruptTransfer, TransferKernarg, TransferImage, TransferResultSignal, TransferResult,
         TransferIgnored, ReleaseSlot, mainVars
<1>7. CASE InterruptCompletion
  BY <1>4, <1>7 DEF InterruptCompletion, ReleaseSlot, mainVars
<1>8. CASE RetireBarrier
  BY <1>4, <1>8 DEF RetireBarrier
<1>9. QED
  BY <1>2, <1>3, <1>5, <1>6, <1>7, <1>8, NextCases
     DEF Claim, Doorbell, RaiseAdmin, TpcTransfer, TpcDecrement, TpcEcho, TpcPassOver, CoreCompute,
         InterruptKernel, InterruptAdmin, NothingToProcess, BarrierBit, DispatchKernel, AwaitDeps,
         QueueBarrierSignal, StoreReadIndex, Advance, ClearAqlLeft, ProcessDmaQueue,
         ProcessLaunchQueue, ProcessDecQueue, Goto, vars, hostVars, mainVars

\* and stays away from the branches of the barrier packets
KernelPoints == pc \in {"aql", "barrier_bit", "kernel", "advance", "clear", "dma", "launch", "dec"}

LEMMA KernelPointsStep ==
  ASSUME TypeInv, KernelsInv, KernelPoints, [Next]_vars
  PROVE  KernelPoints' /\ ~SkipsPacket /\ ~StoreReadIndex
<1>1. CurrentPacket.type \in {"INVALID", "KERNEL_DISPATCH"}
  BY PacketIndexType DEF TypeInv, TypeOK, MainTypes, KernelsInv, CurrentPacket
<1>2. Branch(CurrentPacket.type) \in {"dma", "kernel"} /\ Branch(header.type) \in {"dma", "kernel"}
  BY <1>1, KernelBranch DEF KernelsInv
<1>3. ~QueueBarrierSignal /\ ~StoreReadIndex /\ ~RetireBarrier /\ ~AwaitDeps
  BY DEF KernelPoints, QueueBarrierSignal, StoreReadIndex, RetireBarrier, AwaitDeps, DepsReady
<1>4. ReadHeader \/ BarrierBit => pc' \in {"barrier_bit", "dma", "kernel"}
  BY <1>2 DEF ReadHeader, BarrierBit, Goto
<1>5. KernelPoints'
  BY <1>3, <1>4, NextCases
     DEF KernelPoints, Claim, WritePacket, Doorbell, RaiseAdmin, TpcTransfer, TpcDecrement,
         TpcEcho, TpcPassOver, CoreCompute, InterruptKernel, InterruptAdmin, NothingToProcess,
         DispatchKernel, Advance, ClearAqlLeft, ProcessDmaQueue, ProcessLaunchQueue,
         ProcessDecQueue, InterruptTransfer, InterruptCompletion, Goto, vars, mainVars
<1>6. QED
  BY <1>3, <1>4, <1>5 DEF SkipsPacket

\* Kernels in flight, READ_INDEX and the packets consumed add up, for every
\* window, queue, number of cores and host that submits kernels only.
THEOREM KernelsAddUp ==
  ASSUME OnlyKernels
  PROVE  Spec => []CompletionAccounting
<1> DEFINE Inv == TypeInv /\ InFlightNamed /\ KernelsInv /\ KernelPoints /\ CompletionAccounting
<1>1. Init => Inv
  <2>1. Init => KernelsInv
    BY DEF Init, KernelsInv, NoPacket
  <2>2. Init => KernelPoints /\ CompletionAccounting
    BY WindowAssumption DEF Init, KernelPoints, CompletionAccounting
  <2>3. QED
    BY <2>1, <2>2, TypeInvInit, InFlightNamedInit
<1>2. Inv /\ [Next]_vars => Inv'
  <2> SUFFICES ASSUME Inv, [Next]_vars PROVE Inv'
    OBVIOUS
  <2>1. TypeInv' /\ InFlightNamed' /\ KernelsInv'
    BY TypeInvStep, InFlightStep, KernelsInvStep
  <2>2. KernelPoints' /\ ~SkipsPacket /\ ~StoreReadIndex
    BY KernelPointsStep
  <2>3. Counts = Passed
    BY DEF CompletionAccounting, Counts, Passed
  <2>4. Counts' = Passed'
    BY <2>2, <2>3, CountChange
  <2>5. CompletionAccounting'
    BY <2>4 DEF CompletionAccounting, Counts, Passed
  <2>6. QED
    BY <2>1, <2>2, <2>5
<1>3. QED
  BY <1>1, <1>2, PTL DEF Spec
-----------------------------------------------------------------------------
(* The buffers.                                                             *)

\* what a slot's buffers hold at its status, taken or free
Ready(s) ==
  LET p == pending_packets[s] IN
  /\ p.status \in {"GET_IMAGE", "PROCESSING", "STORE_IMAGE"} => kernargs[s] = p.pasid
  /\ p.status = "PROCESSING" => image[s].of = p.pasid
  /\ p.status = "STORE_IMAGE" => image[s] = FilteredImage(p.pasid)

\* the DMA request that a slot's status calls for
RequestOf(s) ==
  DmaRequest(s, IF pending_packets[s].status = "GET_KERNARG" THEN "kernarg" ELSE "image",
             IF pending_packets[s].status = "STORE_IMAGE" THEN "STORE" ELSE "LOAD",
             pending_packets[s].pasid)

Requested == \A i \in Pending(dma_queue) :
               At(dma_queue, i) = RequestOf(At(dma_queue, i).packet_id)

Described == current_dma_packet_id # None => dma_reg = RequestOf(current_dma_packet_id)

\* the TPC has answered: what was loaded is there
Transferred ==
  LET s == current_dma_packet_id
      p == pending_packets[s] IN
  "dma" \in pp_int => /\ p.status = "GET_KERNARG" => kernargs[s] = p.pasid
                      /\ p.status = "GET_IMAGE" => image[s] = RawImage(p.pasid)

\* a core has answered: its image is filtered
Computed ==
  \A c \in core_done :
    LET s == core_usage[c].packet_id IN image[s] = FilteredImage(pending_packets[s].pasid)

SlotsReady == \A s \in Slots : Ready(s)

DataInv == SlotsReady /\ Requested /\ Described /\ Transferred /\ Computed

\* The slots that the engines work on are apart, at the statuses of their stage.
LEMMA EnginesApart ==
  ASSUME TypeInv, SlotInv
  PROVE  /\ current_dma_packet_id # None =>
              /\ current_dma_packet_id \in Slots
              /\ current_dma_packet_id \notin FreeSlots
              /\ pending_packets[current_dma_packet_id].status
                   \in {"GET_KERNARG", "GET_IMAGE", "STORE_IMAGE"}
         /\ \A i \in Pending(dma_queue) : LET r == At(dma_queue, i).packet_id IN
              /\ r \in Slots /\ r \notin FreeSlots /\ r # current_dma_packet_id
              /\ pending_packets[r].status \in {"GET_KERNARG", "GET_IMAGE", "STORE_IMAGE"}
         /\ \A c \in RunningCores : LET r == core_usage[c].packet_id IN
              /\ r \in Slots /\ r \notin FreeSlots
              /\ pending_packets[r].status = "PROCESSING"
              /\ core_reg[c] = r
         /\ core_done \subseteq RunningCores /\ core_int \subseteq RunningCores
<1>1. /\ DmaSlots \subseteq Slots /\ ComputeSlots \subseteq Slots
      /\ HasStatus(DmaSlots, {"GET_KERNARG", "GET_IMAGE", "STORE_IMAGE"})
      /\ HasStatus(ComputeSlots, {"PROCESSING"})
      /\ FreeSlots \intersect (DmaSlots \union ComputeSlots) = {}
      /\ current_dma_packet_id \notin Queued(dma_queue)
  BY StagesApart DEF SlotInv, SlotConservation, FreeStack, DmaStage, ComputeStage
<1>2. current_dma_packet_id # None => current_dma_packet_id \in DmaSlots
  BY DEF DmaSlots
<1>3. \A i \in Pending(dma_queue) : At(dma_queue, i).packet_id \in Queued(dma_queue)
  BY DEF Queued
<1>4. Queued(dma_queue) \subseteq DmaSlots
  BY DEF DmaSlots
<1>5. \A c \in RunningCores : core_usage[c].packet_id \in ComputeSlots
  BY DEF ComputeSlots, CoreSlots
<1>6. /\ RunningCores = core_int \union core_done
      /\ \A c \in RunningCores : core_reg[c] = core_usage[c].packet_id
  BY DEF TypeInv, OneRequestPerEngine, CoreHandshake
<1>7. QED
  BY <1>1, <1>2, <1>3, <1>4, <1>5, <1>6 DEF HasStatus

\* what DataInv depends on
dataVars == <<pending_packets, dma_queue, current_dma_packet_id, dma_reg, core_usage,
              kernargs, image, core_done>>

LEMMA UnchangedData ==
  ASSUME DataInv, UNCHANGED dataVars, "dma" \in pp_int' => "dma" \in pp_int
  PROVE  DataInv'
BY DEF DataInv, dataVars, SlotsReady, Ready, Requested, Described, Transferred, Computed, RequestOf

\* A push of a slot's own request; the statuses of the queued slots stay.
LEMMA PushRequested ==
  ASSUME TypeInv, SlotInv, DataInv, NEW s \in Slots, s \notin Queued(dma_queue),
         \A r \in Slots \ {s} : pending_packets'[r] = pending_packets[r],
         RequestOf(s)' \in DmaRequests,
         dma_queue' = Push(dma_queue, RequestOf(s)')
  PROVE  Requested'
<1> DEFINE e == RequestOf(s)'
<1>1. e.packet_id = s
  BY DEF RequestOf, DmaRequest
<1> HIDE DEF e
<1>2. dma_queue \in Rings(DmaRequests) /\ Ordered(dma_queue) /\ Distinct(dma_queue)
  BY DEF TypeInv, TypeOK, DmaTypes, SlotInv, SlotConservation, DmaStage
<1>3. HasRoom(dma_queue)
  BY <1>2, StageTypes, RoomForMissingSlot DEF TypeInv
<1>4. /\ dma_queue'.read = dma_queue.read /\ dma_queue'.write = dma_queue.write + 1
      /\ At(dma_queue', dma_queue.write) = e
      /\ \A i \in Pending(dma_queue) : At(dma_queue', i) = At(dma_queue, i)
  BY <1>2, <1>3, PushEntries DEF e
<1>5. dma_queue.read \in Nat /\ dma_queue.write \in Nat
  BY <1>2 DEF Rings
<1> SUFFICES ASSUME NEW i \in Pending(dma_queue')
             PROVE  (At(dma_queue, i) = RequestOf(At(dma_queue, i).packet_id))'
  BY DEF Requested
<1>6. CASE i = dma_queue.write
  BY <1>1, <1>4, <1>6 DEF e
<1>7. CASE i # dma_queue.write
  <2>1. i \in Pending(dma_queue)
    BY <1>4, <1>5, <1>7 DEF Pending
  <2> PICK r : r = At(dma_queue, i).packet_id
    OBVIOUS
  <2>2. r \in Slots /\ r # s
    BY <2>1, EnginesApart DEF Queued
  <2>3. At(dma_queue', i) = At(dma_queue, i) /\ At(dma_queue, i) = RequestOf(r)
    BY <1>4, <2>1 DEF DataInv, Requested
  <2>4. RequestOf(r)' = RequestOf(r)
    BY <2>2 DEF RequestOf
  <2>5. At(dma_queue', i).packet_id = r /\ At(dma_queue', i) = RequestOf(r)'
    BY <2>3, <2>4
  <2>6. QED
    BY <2>5
<1>8. QED
  BY <1>6, <1>7

LEMMA DispatchData ==
  ASSUME TypeInv, SlotInv, DataInv, DispatchKernel
  PROVE  DataInv'
<1> PICK s, p : s = free_slots[remaining_dispatch_slots - 1] /\ p = CurrentPacket.num
  OBVIOUS
<1>1. remaining_dispatch_slots \in 1 .. W
  BY DEF DispatchKernel, TypeInv, SlotAvailable, TypeOK, SlotTypes
<1>2. s \in Slots /\ s \in FreeSlots
  BY <1>1, WindowAssumption DEF TypeInv, TypeOK, SlotTypes, Slots, FreeSlots
<1>3. /\ pending_packets' = [pending_packets EXCEPT
           ![s] = [kp |-> packet_index, status |-> "GET_KERNARG", pasid |-> p]]
      /\ dma_queue' = Push(dma_queue, DmaRequest(s, "kernarg", "LOAD", p))
      /\ kernargs' = [kernargs EXCEPT ![s] = None]
      /\ UNCHANGED <<current_dma_packet_id, dma_reg, core_usage, image, core_done, pp_int>>
  BY DEF DispatchKernel, coreVars, intVars
<1>4. p \in Packets \union {None}
  BY CurrentPacketType DEF TypeInv, AqlPackets
<1>5. \A r \in Slots : /\ r # s => /\ pending_packets'[r] = pending_packets[r]
                                   /\ kernargs'[r] = kernargs[r]
                       /\ r = s => pending_packets'[r] =
                                     [kp |-> packet_index, status |-> "GET_KERNARG", pasid |-> p]
  BY <1>3 DEF TypeInv, TypeOK, SlotTypes, MemTypes
<1>6. SlotsReady'
  BY <1>3, <1>5 DEF DataInv, SlotsReady, Ready
<1>7. RequestOf(s)' = DmaRequest(s, "kernarg", "LOAD", p)
  BY <1>2, <1>5 DEF RequestOf
<1>8. Requested'
  <2>1. RequestOf(s)' \in DmaRequests
    BY <1>2, <1>4, <1>7 DEF DmaRequest, DmaRequests
  <2>2. s \notin Queued(dma_queue)
    BY <1>2, EnginesApart DEF Queued
  <2>3. QED
    BY <1>2, <1>3, <1>5, <1>7, <2>1, <2>2, PushRequested
<1>9. Described'
  BY <1>2, <1>3, <1>5, EnginesApart DEF DataInv, Described, RequestOf
<1>10. "dma" \in pp_int => current_dma_packet_id # None
  BY DEF TypeInv, OneRequestPerEngine, DmaHandshake
<1>11. Transferred'
  BY <1>2, <1>3, <1>5, <1>10, EnginesApart DEF DataInv, Transferred
<1>12. Computed'
  BY <1>2, <1>3, <1>5, EnginesApart DEF DataInv, Computed
<1>13. QED
  BY <1>6, <1>8, <1>9, <1>11, <1>12 DEF DataInv

LEMMA ProcessDmaData ==
  ASSUME TypeInv, SlotInv, DataInv, ProcessDmaQueue
  PROVE  DataInv'
<1>1. UNCHANGED <<pending_packets, core_usage, kernargs, image, core_done, pp_int>>
  BY DEF ProcessDmaQueue, slotVars, coreVars, memVars
<1>2. CASE ~IsEmpty(dma_queue) /\ DmaIdle
  <2>1. /\ dma_reg' = Front(dma_queue) /\ dma_queue' = Pop(dma_queue)
        /\ current_dma_packet_id' = Front(dma_queue).packet_id
        /\ current_dma_packet_id = None
    BY <1>2 DEF ProcessDmaQueue, DmaIdle
  <2>2. dma_queue \in Rings(DmaRequests) /\ Ordered(dma_queue)
    BY DEF TypeInv, TypeOK, DmaTypes, SlotInv
  <2>3. dma_queue.read \in Pending(dma_queue)
    BY <1>2, <2>2 DEF Rings, Ordered, IsEmpty, Pending
  <2>4. Front(dma_queue) = RequestOf(Front(dma_queue).packet_id)
    BY <2>3 DEF DataInv, Requested, Front
  <2>5. Described' /\ SlotsReady' /\ Computed'
    BY <1>1, <2>1, <2>4 DEF DataInv, Described, RequestOf, SlotsReady, Ready, Computed
  <2>6. "dma" \notin pp_int
    BY <2>1 DEF TypeInv, OneRequestPerEngine, DmaHandshake
  <2>7. Transferred'
    BY <1>1, <2>6 DEF Transferred
  <2>8. /\ Pending(dma_queue') \subseteq Pending(dma_queue)
        /\ \A i : At(dma_queue', i) = At(dma_queue, i)
    BY <2>1, <2>2 DEF Pop, Rings, Pending, At
  <2>9. Requested'
    BY <1>1, <2>8 DEF DataInv, Requested, RequestOf
  <2>10. QED
    BY <2>5, <2>7, <2>9 DEF DataInv
<1>3. CASE ~(~IsEmpty(dma_queue) /\ DmaIdle)
  BY <1>1, <1>3, UnchangedData DEF ProcessDmaQueue, dmaVars, dataVars
<1>4. QED
  BY <1>2, <1>3

LEMMA ProcessLaunchData ==
  ASSUME TypeInv, SlotInv, DataInv, ProcessLaunchQueue
  PROVE  DataInv'
<1>1. UNCHANGED <<pending_packets, dma_queue, current_dma_packet_id, dma_reg, kernargs, image,
                  core_done, pp_int>>
  BY DEF ProcessLaunchQueue, slotVars, dmaVars, memVars
<1>2. SlotsReady' /\ Requested' /\ Described' /\ Transferred'
  BY <1>1 DEF DataInv, SlotsReady, Ready, Requested, Described, Transferred, RequestOf
<1>3. \A c \in core_done : core_usage'[c] = core_usage[c]
  <2>1. CASE ~IsEmpty(launch_queue) /\ RunningCores # Cores
    <3>1. PICK c \in Cores : /\ FirstIdle(c)
                             /\ core_usage' = [core_usage EXCEPT ![c] =
                                  [running |-> TRUE, packet_id |-> Front(launch_queue).packet_id]]
      BY <2>1 DEF ProcessLaunchQueue
    <3>2. c \notin core_done
      BY <3>1, EnginesApart DEF FirstIdle
    <3>3. QED
      BY <3>1, <3>2 DEF TypeInv, TypeOK, CoreTypes, IntTypes
  <2>2. CASE ~(~IsEmpty(launch_queue) /\ RunningCores # Cores)
    BY <2>2 DEF ProcessLaunchQueue, coreVars
  <2>3. QED
    BY <2>1, <2>2
<1>4. Computed'
  BY <1>1, <1>3 DEF DataInv, Computed
<1>5. QED
  BY <1>2, <1>4 DEF DataInv

\* The TPC transfers what the slot's status calls for.
LEMMA TpcTransferData ==
  ASSUME TypeInv, SlotInv, DataInv, TpcTransfer
  PROVE  DataInv'
<1> DEFINE s == current_dma_packet_id
           p == pending_packets[s]
<1>1. s # None
  BY DEF TpcTransfer, AtTpc, TypeInv, OneRequestPerEngine, DmaHandshake
<1>2. s \in Slots /\ p.status \in {"GET_KERNARG", "GET_IMAGE", "STORE_IMAGE"}
  BY <1>1, EnginesApart
<1>3. dma_reg = RequestOf(s)
  BY <1>1 DEF DataInv, Described
<1>4. UNCHANGED <<pending_packets, dma_queue, current_dma_packet_id, dma_reg, core_usage, core_done>>
  BY DEF TpcTransfer, slotVars, dmaVars, coreVars
<1> HIDE DEF s
<1>5. /\ dma_reg.packet_id = s /\ dma_reg.pasid = p.pasid
      /\ dma_reg.buffer = (IF p.status = "GET_KERNARG" THEN "kernarg" ELSE "image")
      /\ dma_reg.ldst = (IF p.status = "STORE_IMAGE" THEN "STORE" ELSE "LOAD")
  BY <1>3 DEF RequestOf, DmaRequest
<1>6. /\ p.status = "GET_KERNARG" => kernargs' = [kernargs EXCEPT ![s] = p.pasid] /\ image' = image
      /\ p.status = "GET_IMAGE" => image' = [image EXCEPT ![s] = RawImage(p.pasid)] /\ kernargs' = kernargs
      /\ p.status = "STORE_IMAGE" => kernargs' = kernargs /\ image' = image
  BY <1>5 DEF TpcTransfer, LoadKernarg, LoadImage, StoreImage, memVars
<1> HIDE DEF p
<1>7. kernargs \in [Slots -> Packets \union {None}] /\ image \in [Slots -> [of : Packets \union {None}, filtered : BOOLEAN]]
  BY DEF TypeInv, TypeOK, MemTypes
<1>8. \A r \in Slots : r # s => kernargs'[r] = kernargs[r] /\ image'[r] = image[r]
  BY <1>2, <1>6, <1>7
<1>9. /\ p.status = "GET_KERNARG" => kernargs'[s] = p.pasid
      /\ p.status = "GET_IMAGE" => image'[s] = RawImage(p.pasid) /\ kernargs'[s] = kernargs[s]
      /\ p.status = "STORE_IMAGE" => kernargs'[s] = kernargs[s] /\ image'[s] = image[s]
  BY <1>2, <1>6, <1>7
<1>10. SlotsReady'
  <2> SUFFICES ASSUME NEW r \in Slots PROVE Ready(r)'
    BY DEF SlotsReady
  <2>1. Ready(r)
    BY DEF DataInv, SlotsReady
  <2>2. CASE r # s
    BY <1>4, <1>8, <2>1, <2>2 DEF Ready
  <2>3. CASE r = s
    BY <1>2, <1>4, <1>9, <2>1, <2>3 DEF Ready, p
  <2>4. QED
    BY <2>2, <2>3
<1>11. Requested' /\ Described'
  BY <1>4 DEF DataInv, Requested, Described, RequestOf
<1>12. Transferred'
  BY <1>4, <1>9 DEF Transferred, s, p
<1>13. Computed'
  BY <1>2, <1>4, <1>8, EnginesApart DEF DataInv, Computed, p
<1>14. QED
  BY <1>10, <1>11, <1>12, <1>13 DEF DataInv

LEMMA SetFiltered ==
  ASSUME NEW P, NEW r \in [of : P, filtered : BOOLEAN], NEW t
  PROVE  [r EXCEPT !.filtered = t] = [of |-> r.of, filtered |-> t]
OBVIOUS

\* A core filters the image of the slot it was started on.
LEMMA CoreComputeData ==
  ASSUME TypeInv, SlotInv, DataInv, NEW c \in Cores, CoreCompute(c)
  PROVE  DataInv'
<1> DEFINE s == core_reg[c]
<1>1. c \in RunningCores /\ c \in core_int
  BY EnginesApart DEF CoreCompute
<1>2. s \in Slots /\ pending_packets[s].status = "PROCESSING" /\ core_usage[c].packet_id = s
  BY <1>1, EnginesApart
<1>3. /\ image' = [image EXCEPT ![s].filtered = TRUE]
      /\ core_done' = core_done \union {c}
      /\ UNCHANGED <<pending_packets, dma_queue, current_dma_packet_id, dma_reg, core_usage,
                      kernargs, pp_int>>
  BY DEF CoreCompute, slotVars, dmaVars, coreVars
<1> HIDE DEF s
<1>4. image \in [Slots -> [of : Packets \union {None}, filtered : BOOLEAN]]
  BY DEF TypeInv, TypeOK, MemTypes
<1>5. image'[s] = FilteredImage(pending_packets[s].pasid)
  <2>1. image[s].of = pending_packets[s].pasid
    BY <1>2 DEF DataInv, SlotsReady, Ready
  <2>2. [image EXCEPT ![s].filtered = TRUE] = [image EXCEPT ![s] = [image[s] EXCEPT !.filtered = TRUE]]
    OBVIOUS
  <2>3. [image[s] EXCEPT !.filtered = TRUE] = [of |-> image[s].of, filtered |-> TRUE]
    <3>1. image[s] \in [of : Packets \union {None}, filtered : BOOLEAN]
      BY <1>2, <1>4
    <3>2. QED
      BY <3>1, SetFiltered, Zenon
  <2>4. QED
    BY <1>2, <1>3, <1>4, <2>1, <2>2, <2>3 DEF FilteredImage
<1>6. \A r \in Slots : r # s => image'[r] = image[r]
  BY <1>2, <1>3, <1>4
<1>7. SlotsReady'
  <2> SUFFICES ASSUME NEW r \in Slots PROVE Ready(r)'
    BY DEF SlotsReady
  <2>1. Ready(r)
    BY DEF DataInv, SlotsReady
  <2>2. CASE r # s
    BY <1>3, <1>6, <2>1, <2>2 DEF Ready
  <2>3. CASE r = s
    BY <1>2, <1>3, <1>5, <2>1, <2>3 DEF Ready, FilteredImage
  <2>4. QED
    BY <2>2, <2>3
<1>8. Requested' /\ Described'
  BY <1>3 DEF DataInv, Requested, Described, RequestOf
<1>9. Transferred'
  <2>1. "dma" \in pp_int => current_dma_packet_id # None
    BY DEF TypeInv, OneRequestPerEngine, DmaHandshake
  <2>2. current_dma_packet_id # None =>
          current_dma_packet_id \in Slots /\ current_dma_packet_id # s
    BY <1>2, EnginesApart
  <2>3. QED
    BY <1>3, <1>6, <2>1, <2>2 DEF DataInv, Transferred
<1>10. Computed'
  <2> SUFFICES ASSUME NEW d \in core_done'
               PROVE  image'[core_usage[d].packet_id] =
                        FilteredImage(pending_packets[core_usage[d].packet_id].pasid)
    BY <1>3 DEF Computed
  <2>1. CASE core_usage[d].packet_id = s
    BY <1>5, <2>1
  <2>2. CASE core_usage[d].packet_id # s
    <3>1. d \in core_done
      BY <1>2, <1>3, <2>2
    <3>2. core_usage[d].packet_id \in Slots
      BY <3>1, EnginesApart
    <3>3. QED
      BY <1>6, <2>2, <3>1, <3>2 DEF DataInv, Computed
  <2>3. QED
    BY <2>1, <2>2
<1>11. QED
  BY <1>7, <1>8, <1>9, <1>10 DEF DataInv
\* Setting the status of a slot leaves the other slots alone, and the slot's
\* process.
LEMMA MoveOn ==
  ASSUME SlotTypes, NEW s \in Slots, NEW t \in Statuses,
         pending_packets' = [pending_packets EXCEPT ![s].status = t]
  PROVE  /\ \A r \in Slots \ {s} : pending_packets'[r] = pending_packets[r]
         /\ pending_packets'[s].pasid = pending_packets[s].pasid
         /\ pending_packets'[s].status = t
<1> DEFINE e == [pending_packets[s] EXCEPT !.status = t]
<1>1. pending_packets' = [pending_packets EXCEPT ![s] = e]
  OBVIOUS
<1>2. e.pasid = pending_packets[s].pasid /\ e.status = t
  BY DEF SlotTypes
<1> HIDE DEF e
<1>3. pending_packets'[s] = e /\ \A r \in Slots \ {s} : pending_packets'[r] = pending_packets[r]
  BY <1>1 DEF SlotTypes
<1>4. QED
  BY <1>2, <1>3

\* What the others keep while slot s, which no DMA request is queued for, moves.
LEMMA OthersKeep ==
  ASSUME TypeInv, SlotInv, DataInv, NEW s \in Slots, s \notin Queued(dma_queue),
         \A r \in Slots \ {s} : pending_packets'[r] = pending_packets[r] /\ image'[r] = image[r],
         UNCHANGED kernargs
  PROVE  /\ \A r \in Slots \ {s} : Ready(r)'
         /\ dma_queue' = dma_queue => Requested'
<1>1. \A r \in Slots \ {s} : Ready(r)'
  <2> SUFFICES ASSUME NEW r \in Slots \ {s} PROVE Ready(r)'
    OBVIOUS
  <2>1. Ready(r)
    BY DEF DataInv, SlotsReady
  <2>2. QED
    BY <2>1 DEF Ready
<1>2. ASSUME dma_queue' = dma_queue PROVE Requested'
  <2> SUFFICES ASSUME NEW i \in Pending(dma_queue)
               PROVE  (At(dma_queue, i) = RequestOf(At(dma_queue, i).packet_id))'
    BY <1>2 DEF Requested
  <2> PICK r : r = At(dma_queue, i).packet_id
    OBVIOUS
  <2>1. r \in Slots \ {s}
    BY EnginesApart DEF Queued
  <2>2. At(dma_queue, i) = RequestOf(r)
    BY DEF DataInv, Requested
  <2>3. RequestOf(r)' = RequestOf(r)
    BY <2>1 DEF RequestOf
  <2>4. At(dma_queue', i).packet_id = r /\ At(dma_queue', i) = RequestOf(r)'
    BY <1>2, <2>2, <2>3
  <2>5. QED
    BY <2>4
<1>3. QED
  BY <1>1, <1>2

\* The slots of answered cores keep their images while another slot moves.
LEMMA ComputedKept ==
  ASSUME TypeInv, SlotInv, DataInv, NEW s \in Slots, UNCHANGED <<core_usage, core_done>>,
         pending_packets[s].status # "PROCESSING",
         \A r \in Slots \ {s} : pending_packets'[r] = pending_packets[r] /\ image'[r] = image[r]
  PROVE  Computed'
BY EnginesApart DEF DataInv, Computed

\* interrupt_transfer moves the slot on to what its buffers are ready for.
LEMMA TransferData ==
  ASSUME TypeInv, SlotInv, DataInv, InterruptTransfer
  PROVE  DataInv'
<1> PICK s : s = current_dma_packet_id
  OBVIOUS
<1>1. s \in Slots /\ s # None /\ s \notin Queued(dma_queue)
  BY EnginesApart DEF InterruptTransfer, TypeInv, OneRequestPerEngine, DmaHandshake, SlotInv,
                      SlotConservation, DmaStage
<1>2. pending_packets[s].status \in {"GET_KERNARG", "GET_IMAGE", "STORE_IMAGE"}
  BY <1>1, EnginesApart
<1>3. /\ "dma" \in pp_int /\ "dma" \notin pp_int'
      /\ current_dma_packet_id' = None
      /\ UNCHANGED <<dma_reg, core_usage, core_done>>
  BY DEF InterruptTransfer
<1>4. Described' /\ Transferred'
  BY <1>3 DEF Described, Transferred
<1>5. /\ pending_packets[s].status = "GET_KERNARG" => kernargs[s] = pending_packets[s].pasid
      /\ pending_packets[s].status = "GET_IMAGE" => image[s] = RawImage(pending_packets[s].pasid)
  BY <1>3 DEF DataInv, Transferred
<1>6. Ready(s)
  BY <1>1 DEF DataInv, SlotsReady
<1>7. SlotTypes
  BY DEF TypeInv, TypeOK
<1>8. \/ TransferKernarg(s) \/ TransferImage(s) \/ TransferResultSignal(s)
      \/ TransferResult(s) \/ TransferIgnored(s)
  BY DEF InterruptTransfer
<1>9. CASE TransferKernarg(s)
  <2>1. /\ pending_packets' = [pending_packets EXCEPT ![s].status = "GET_IMAGE"]
        /\ image' = [image EXCEPT ![s] = RawImage(None)]
        /\ dma_queue' = Push(dma_queue, DmaRequest(s, "image", "LOAD", pending_packets[s].pasid))
        /\ UNCHANGED kernargs /\ pending_packets[s].status = "GET_KERNARG"
    BY <1>9 DEF TransferKernarg
  <2>2. \A r \in Slots \ {s} : pending_packets'[r] = pending_packets[r] /\ image'[r] = image[r]
    BY <1>1, <1>7, <2>1, MoveOn DEF Statuses, TypeInv, TypeOK, MemTypes
  <2>3. pending_packets'[s].pasid = pending_packets[s].pasid /\ pending_packets'[s].status = "GET_IMAGE"
    BY <1>1, <1>7, <2>1, MoveOn DEF Statuses
  <2>4. SlotsReady'
    <3>1. Ready(s)'
      BY <1>5, <2>1, <2>3 DEF Ready
    <3>2. QED
      BY <1>1, <2>1, <2>2, <3>1, OthersKeep DEF SlotsReady
  <2>5. RequestOf(s)' = DmaRequest(s, "image", "LOAD", pending_packets[s].pasid)
    BY <2>3 DEF RequestOf
  <2>6. RequestOf(s)' \in DmaRequests
    BY <1>1, <1>7, <2>5 DEF DmaRequest, DmaRequests, SlotTypes
  <2>7. Requested'
    BY <1>1, <2>1, <2>2, <2>5, <2>6, PushRequested
  <2>8. Computed'
    BY <1>1, <1>3, <2>1, <2>2, ComputedKept
  <2>9. QED
    BY <1>4, <2>4, <2>7, <2>8 DEF DataInv
<1>10. CASE TransferImage(s) \/ TransferResultSignal(s)
  <2> PICK t \in {"PROCESSING", "COMPLETION"} :
        /\ pending_packets' = [pending_packets EXCEPT ![s].status = t]
        /\ t = "PROCESSING" => pending_packets[s].status = "GET_IMAGE"
    BY <1>10 DEF TransferImage, TransferResultSignal
  <2>1. UNCHANGED <<dma_queue, kernargs, image>>
    BY <1>10 DEF TransferImage, TransferResultSignal, memVars
  <2>2. \A r \in Slots \ {s} : pending_packets'[r] = pending_packets[r] /\ image'[r] = image[r]
    BY <1>1, <1>7, <2>1, MoveOn DEF Statuses
  <2>3. pending_packets'[s].pasid = pending_packets[s].pasid /\ pending_packets'[s].status = t
    BY <1>1, <1>7, MoveOn DEF Statuses
  <2>4. Ready(s)'
    BY <1>5, <1>6, <2>1, <2>3 DEF Ready, RawImage
  <2>5. SlotsReady' /\ Requested'
    BY <1>1, <2>1, <2>2, <2>4, OthersKeep DEF SlotsReady
  <2>6. Computed'
    BY <1>1, <1>2, <1>3, <2>1, <2>2, ComputedKept
  <2>7. QED
    BY <1>4, <2>5, <2>6 DEF DataInv
<1>11. CASE TransferResult(s) \/ TransferIgnored(s)
  <2>1. UNCHANGED <<pending_packets, dma_queue, kernargs, image>>
    BY <1>11 DEF TransferResult, TransferIgnored, ReleaseSlot, slotVars, memVars
  <2>2. SlotsReady' /\ Requested' /\ Computed'
    BY <1>3, <2>1 DEF DataInv, SlotsReady, Ready, Requested, RequestOf, Computed
  <2>3. QED
    BY <1>4, <2>2 DEF DataInv
<1>12. QED
  BY <1>8, <1>9, <1>10, <1>11

\* interrupt_kernel asks for the result to be stored once it is there.
LEMMA KernelData ==
  ASSUME TypeInv, SlotInv, DataInv, NEW c \in Cores, InterruptKernel(c)
  PROVE  DataInv'
<1> PICK s : s = core_usage[c].packet_id
  OBVIOUS
<1>1. c \in RunningCores /\ c \in core_done
  BY EnginesApart DEF InterruptKernel
<1>2. /\ s \in Slots /\ pending_packets[s].status = "PROCESSING"
      /\ s \notin Queued(dma_queue) /\ s # current_dma_packet_id
  <2>1. s \in Slots /\ pending_packets[s].status = "PROCESSING"
    BY <1>1, EnginesApart
  <2>2. s \notin Queued(dma_queue)
    BY <2>1, EnginesApart DEF Queued
  <2>3. s # current_dma_packet_id
    BY <2>1, EnginesApart DEF Slots, None
  <2>4. QED
    BY <2>1, <2>2, <2>3
<1>3. /\ core_done' = core_done \ {c}
      /\ dma_queue' = Push(dma_queue, DmaRequest(s, "image", "STORE", pending_packets[s].pasid))
      /\ pending_packets' = [pending_packets EXCEPT ![s].status = "STORE_IMAGE"]
      /\ core_usage' = [core_usage EXCEPT ![c] = IdleCore]
      /\ UNCHANGED <<current_dma_packet_id, dma_reg, pp_int, kernargs, image>>
  BY DEF InterruptKernel, ResultRequest, memVars
<1>4. SlotTypes
  BY DEF TypeInv, TypeOK
<1>5. \A r \in Slots \ {s} : pending_packets'[r] = pending_packets[r] /\ image'[r] = image[r]
  BY <1>2, <1>3, <1>4, MoveOn DEF Statuses
<1>6. pending_packets'[s].pasid = pending_packets[s].pasid /\ pending_packets'[s].status = "STORE_IMAGE"
  BY <1>2, <1>3, <1>4, MoveOn DEF Statuses
<1>7. Ready(s)'
  <2>1. image[s] = FilteredImage(pending_packets[s].pasid)
    BY <1>1 DEF DataInv, Computed
  <2>2. kernargs[s] = pending_packets[s].pasid
    BY <1>2 DEF DataInv, SlotsReady, Ready
  <2>3. QED
    BY <1>3, <1>6, <2>1, <2>2 DEF Ready
<1>8. SlotsReady'
  BY <1>2, <1>3, <1>5, <1>7, OthersKeep DEF SlotsReady
<1>9. RequestOf(s)' = DmaRequest(s, "image", "STORE", pending_packets[s].pasid)
  BY <1>6 DEF RequestOf
<1>10. RequestOf(s)' \in DmaRequests
  BY <1>2, <1>4, <1>9 DEF DmaRequest, DmaRequests, SlotTypes
<1>11. Requested'
  BY <1>2, <1>3, <1>5, <1>9, <1>10, PushRequested
<1>12. Described' /\ Transferred'
  <2> PICK d : d = current_dma_packet_id
    OBVIOUS
  <2>1. d # None => d \in Slots /\ d # s
    BY <1>2, EnginesApart
  <2>2. d # None => RequestOf(d)' = RequestOf(d)
    BY <1>5, <2>1 DEF RequestOf
  <2>3. current_dma_packet_id' = d /\ dma_reg' = dma_reg /\ (d # None => dma_reg = RequestOf(d))
    BY <1>3 DEF DataInv, Described
  <2>4. Described'
    BY <2>2, <2>3 DEF Described
  <2>5. "dma" \in pp_int => d # None
    BY DEF TypeInv, OneRequestPerEngine, DmaHandshake
  <2>6. Transferred'
    BY <1>3, <1>5, <2>1, <2>5 DEF DataInv, Transferred
  <2>7. QED
    BY <2>4, <2>6
<1>13. Computed'
  <2> SUFFICES ASSUME NEW d \in core_done \ {c} PROVE
        LET r == core_usage'[d].packet_id IN image'[r] = FilteredImage(pending_packets'[r].pasid)
    BY <1>3 DEF Computed
  <2>1. core_usage'[d] = core_usage[d]
    BY <1>3 DEF TypeInv, TypeOK, CoreTypes, IntTypes
  <2>2. core_usage[d].packet_id \in Slots
    BY EnginesApart
  <2>3. QED
    BY <1>3, <1>5, <1>6, <2>1, <2>2 DEF DataInv, Computed
<1>14. QED
  BY <1>8, <1>11, <1>12, <1>13 DEF DataInv

LEMMA DataInvStep ==
  ASSUME TypeInv, SlotInv, DataInv, [Next]_vars
  PROVE  DataInv'
<1>1. CASE DispatchKernel \/ ProcessDmaQueue \/ ProcessLaunchQueue \/ TpcTransfer \/ InterruptTransfer
  BY <1>1, DispatchData, ProcessDmaData, ProcessLaunchData, TpcTransferData, TransferData
<1>2. ASSUME NEW c \in Cores, CoreCompute(c) \/ InterruptKernel(c) PROVE DataInv'
  BY <1>2, CoreComputeData, KernelData
<1>3. CASE Claim \/ (\E n \in Packets : WritePacket(n) \/ Doorbell(n)) \/ TpcDecrement
  BY <1>3, UnchangedData
     DEF Claim, WritePacket, Doorbell, TpcDecrement, slotVars, dmaVars, coreVars, memVars, intVars,
         dataVars
<1>4. ASSUME NEW i \in {"add", "remove"}, NEW r,
             RaiseAdmin(i) \/ TpcEcho(i) \/ InterruptAdmin(i) \/ TpcPassOver(r)
      PROVE  DataInv'
  <2>1. i # "dma"
    OBVIOUS
  <2>2. UNCHANGED dataVars /\ ("dma" \in pp_int' => "dma" \in pp_int)
    BY <1>4, <2>1 DEF RaiseAdmin, TpcEcho, InterruptAdmin, TpcPassOver, intVars, slotVars, dmaVars,
                      coreVars, memVars, dataVars
  <2>3. QED
    BY <2>2, UnchangedData
<1>5. CASE NothingToProcess \/ ReadHeader \/ BarrierBit \/ AwaitDeps \/ QueueBarrierSignal
           \/ RetireBarrier \/ StoreReadIndex \/ Advance \/ ClearAqlLeft \/ ProcessDecQueue
  BY <1>5, UnchangedData
     DEF NothingToProcess, ReadHeader, BarrierBit, AwaitDeps, QueueBarrierSignal, RetireBarrier,
         StoreReadIndex, Advance, ClearAqlLeft, ProcessDecQueue, slotVars, dmaVars, coreVars,
         memVars, intVars, dataVars
<1>6. CASE InterruptCompletion
  <2>1. UNCHANGED dataVars /\ ("dma" \in pp_int' => "dma" \in pp_int)
    BY <1>6 DEF InterruptCompletion, ReleaseSlot, dmaVars, coreVars, memVars, dataVars
  <2>2. QED
    BY <2>1, UnchangedData
<1>7. CASE UNCHANGED vars
  BY <1>7, UnchangedData DEF vars, slotVars, dmaVars, coreVars, memVars, intVars, dataVars
<1>8. AdminInts \subseteq {"add", "remove"} /\ DOMAIN AdminAnswer = {"add", "remove"}
  BY PacketProcessorAssumption DEF AdminAnswer
<1>9. CASE Next
  BY <1>1, <1>2, <1>3, <1>4, <1>5, <1>6, <1>8, <1>9, NextCases
<1>10. QED
  BY <1>7, <1>9

LEMMA DataInvInit == Init => DataInv
<1> SUFFICES ASSUME Init PROVE DataInv
  OBVIOUS
<1>1. \A s \in Slots : pending_packets[s].status = "GET_KERNARG"
  BY DEF Init
<1>2. SlotsReady
  BY <1>1 DEF SlotsReady, Ready
<1>3. Pending(dma_queue) = {}
  BY DEF Init, EmptyRing, Pending
<1>4. Requested /\ Described /\ Transferred /\ Computed
  BY <1>3 DEF Init, Requested, Described, Transferred, Computed
<1>5. QED
  BY <1>2, <1>4 DEF DataInv

LEMMA SlotsAreReady ==
  ASSUME TypeInv, SlotInv, DataInv
  PROVE  DataReady
<1>1. DmaSlots \union ComputeSlots \union CmplSlots \subseteq Slots
  BY StagesApart
<1>2. QED
  BY <1>1 DEF DataInv, SlotsReady, Ready, DataReady

\* A kernel is launched, and its result stored, on its own arguments and its
\* own image: for every window and number of cores, whatever order the three
\* queues, the TPC and the cores bring the requests into, and with any AQL
\* packet in the queue, up to the first barrier packet that queues a signal.
THEOREM KernelsRunOnTheirData ==
  Spec /\ [](pc # "barrier_signal") => []DataReady
<1>1. Init => TypeInv /\ InFlightNamed /\ SlotInv /\ DataInv
  BY TypeInvInit, InFlightNamedInit, SlotInvInit, DataInvInit
<1>2. /\ TypeInv /\ InFlightNamed /\ SlotInv /\ DataInv
      /\ [Next]_vars /\ pc # "barrier_signal"
      => TypeInv' /\ InFlightNamed' /\ SlotInv' /\ DataInv'
  BY TypeInvStep, InFlightStep, SlotInvStep, DataInvStep
<1>3. TypeInv /\ SlotInv /\ DataInv => DataReady
  BY SlotsAreReady
<1>4. QED
  BY <1>1, <1>2, <1>3, PTL DEF Spec
=============================================================================
