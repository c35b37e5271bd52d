---------------------- MODULE PacketProcessorProperties ----------------------
(***************************************************************************)
(* The properties of PacketProcessor: what the firmware promises, and what *)
(* comments of packet_processor.c claim and the code does not keep.        *)
(***************************************************************************)
EXTENDS PacketProcessor

Headers == [type : PacketTypes, barrier : BOOLEAN]
AqlPackets == [num : Packets \union {None}, type : PacketTypes, barrier : BOOLEAN,
               signal : BOOLEAN, dep : BOOLEAN]
DmaRequests == [packet_id : Slots, buffer : {"kernarg", "image"},
                ldst : {"LOAD", "STORE"}, pasid : Packets \union {None}]
LaunchRequests == [packet_id : Slots]
DecRequests == [packet_id : Nat, signal_handle : Packets \union {None},
                pasid : Packets \union {None}]
MainPoints == {"aql", "barrier_bit", "kernel", "barrier_and", "barrier_or", "barrier_signal",
               "barrier_retire", "barrier_store", "advance", "clear", "dma", "launch", "dec"}

HostTypes ==
  /\ aql \in [0 .. Q - 1 -> AqlPackets] /\ write_index \in Nat
  /\ claimed \subseteq Packets /\ ringing \subseteq Packets

SharedTypes == read_index \in Nat /\ aql_left \in BOOLEAN

TpcTypes ==
  /\ signal \in [Packets -> Int] /\ stored \in [Packets -> BOOLEAN]
  /\ passed_over \subseteq {"dma", "cmpl", "added", "removed"}

MainTypes ==
  /\ pc \in MainPoints /\ header \in Headers
  /\ loaded_index \in Nat /\ current_packet_number \in Nat

SlotTypes ==
  /\ pending_packets \in
       [Slots -> [kp : (0 .. Q - 1) \union {None}, status : Statuses, pasid : Packets \union {None}]]
  /\ free_slots \in [Slots -> Slots] /\ remaining_dispatch_slots \in 0 .. W

DmaTypes ==
  /\ dma_queue \in Rings(DmaRequests) /\ dma_reg \in DmaRequests
  /\ current_dma_packet_id \in Slots \union {None}

CoreTypes ==
  /\ launch_queue \in Rings(LaunchRequests) /\ core_reg \in [Cores -> Slots]
  /\ core_usage \in [Cores -> [running : BOOLEAN, packet_id : Slots \union {None}]]

CmplTypes ==
  /\ dec_queue \in Rings(DecRequests) /\ cmpl_reg \in DecRequests
  /\ current_cmpl_packet_id \in Nat \union {None}

MemTypes ==
  /\ kernargs \in [Slots -> Packets \union {None}]
  /\ image \in [Slots -> [of : Packets \union {None}, filtered : BOOLEAN]]

IntTypes ==
  /\ pp_int \subseteq {"dma", "cmpl", "add", "remove"}
  /\ tpc_int \subseteq {"dma", "cmpl", "added", "removed"}
  /\ core_int \subseteq Cores /\ core_done \subseteq Cores

\* The type invariant: every variable of the firmware and its surroundings
\* keeps the type of its declaration in packet_processor.c and packet_processor.h.
TypeOK ==
  /\ HostTypes /\ SharedTypes /\ TpcTypes /\ MainTypes /\ SlotTypes
  /\ DmaTypes /\ CoreTypes /\ CmplTypes /\ MemTypes /\ IntTypes

\* The places a window slot can be in: the free stack, the DMA stage, the
\* compute stage and the completion stage.
FreeSlots == {free_slots[i] : i \in 0 .. remaining_dispatch_slots - 1}
DmaSlots == Queued(dma_queue) \union ({current_dma_packet_id} \ {None})
CoreSlots == {core_usage[c].packet_id : c \in RunningCores}
ComputeSlots == Queued(launch_queue) \union CoreSlots
CmplSlots == Queued(dec_queue) \union ({current_cmpl_packet_id} \ {None})

HasStatus(S, T) == \A s \in S : pending_packets[s].status \in T

FreeStack ==
  /\ \A i, j \in 0 .. remaining_dispatch_slots - 1 : free_slots[i] = free_slots[j] => i = j
  /\ FreeSlots \intersect (DmaSlots \union ComputeSlots \union CmplSlots) = {}

DmaStage ==
  /\ Distinct(dma_queue)
  /\ current_dma_packet_id \notin Queued(dma_queue)
  /\ HasStatus(DmaSlots, {"GET_KERNARG", "GET_IMAGE", "STORE_IMAGE"})

ComputeStage ==
  /\ Distinct(launch_queue)
  /\ CoreSlots \intersect Queued(launch_queue) = {}
  /\ \A c, d \in RunningCores : core_usage[c].packet_id = core_usage[d].packet_id => c = d
  /\ HasStatus(ComputeSlots, {"PROCESSING"})

CmplStage ==
  /\ CmplSlots \subseteq Slots
  /\ Distinct(dec_queue)
  /\ current_cmpl_packet_id \notin Queued(dec_queue)
  /\ HasStatus(CmplSlots, {"COMPLETION"})

NoSlotLost == Slots \subseteq FreeSlots \union DmaSlots \union ComputeSlots \union CmplSlots

\* Every slot of the dispatch window is in exactly one place, exactly once,
\* and it is the place its status calls for: main loop and handlers, which push
\* and pop the stack and the three queues independently, never lose or
\* duplicate a slot.
SlotConservation == FreeStack /\ DmaStage /\ ComputeStage /\ CmplStage /\ NoSlotLost

\* The firmware never tests for a full queue or a full stack, and never has to:
\* none of the queues holds more entries than its array has.
QueuesFit ==
  /\ \A q \in {dma_queue, launch_queue, dec_queue} :
       q.read <= q.write /\ q.write <= q.read + W
  /\ remaining_dispatch_slots <= W

DmaHandshake ==
  /\ current_dma_packet_id # None <=> "dma" \in tpc_int \union pp_int
  /\ ~("dma" \in tpc_int /\ "dma" \in pp_int)
  /\ current_dma_packet_id # None => dma_reg.packet_id = current_dma_packet_id

CmplHandshake ==
  /\ current_cmpl_packet_id # None <=> "cmpl" \in tpc_int \union pp_int
  /\ ~("cmpl" \in tpc_int /\ "cmpl" \in pp_int)

CoreHandshake ==
  /\ RunningCores = core_int \union core_done
  /\ core_int \intersect core_done = {}
  /\ \A c \in RunningCores : core_reg[c] = core_usage[c].packet_id

\* One request per engine: while a slot is the current DMA (completion, core)
\* slot exactly one interrupt of that handshake is pending, and the registers
\* the engine will read still describe that slot.
OneRequestPerEngine == DmaHandshake /\ CmplHandshake /\ CoreHandshake

\* A kernel is launched, and its result fetched, on its own data: from
\* PROCESSING on the slot's buffers hold the arguments and the image of the
\* process that submitted the packet, and a finished core leaves it filtered.
DataReady ==
  \A s \in DmaSlots \union ComputeSlots \union CmplSlots :
    LET p == pending_packets[s] IN
    /\ p.status \in {"GET_IMAGE", "PROCESSING", "STORE_IMAGE"} => kernargs[s] = p.pasid
    /\ p.status = "PROCESSING" => image[s].of = p.pasid
    /\ p.status = "STORE_IMAGE" => image[s] = FilteredImage(p.pasid)

\* The packet with number n has left the queue: its slot was invalidated or
\* reused after it was written.
Written(n) == aql[n % Q].num >= n
Retired(n) == Written(n) /\ (aql[n % Q].num = n => aql[n % Q].type = "INVALID")

\* The host learns of a kernel's end no earlier than it ended: its signal is
\* decremented, at most once, after the result image was stored, and its packet
\* is invalidated after that.
ResultBeforeSignal ==
  \A n \in Packets :
    /\ signal[n] \in {0, 1}
    /\ signal[n] = 0 => stored[n]
    /\ Retired(n) => stored[n] /\ (aql[n % Q].num = n /\ aql[n % Q].signal => signal[n] = 0)

\* A barrier packet that depends on a signal is completed only once that
\* signal was decremented.
BarrierWaits ==
  \A n \in Packets :
    aql[n % Q].num = n /\ aql[n % Q].type = "INVALID" /\ aql[n % Q].dep => signal[n - 1] = 0

\* The kernels in flight, the completed packets and the packets consumed add
\* up: the count READ_INDEX and the window never disagree on how many
\* dispatches have finished.
CompletionAccounting ==
  read_index + (W - remaining_dispatch_slots) =
    current_packet_number + (IF pc = "advance" THEN 1 ELSE 0)

\* With barrier packets, whose ++(*READ_INDEX) a handler's may fall into,
\* completions may get lost in the count but none is ever counted twice: what
\* waits on READ_INDEX may wait too long and never goes on too early.
CountNeverAhead ==
  read_index + (W - remaining_dispatch_slots) <=
    current_packet_number + (IF pc = "advance" THEN 1 ELSE 0)

\* Every kernel that got a window slot gives it back, whatever the main loop,
\* the TPC and the cores interleave, unless the TPC passes over a request: a
\* lost transfer stops the pipeline, a lost decrement only the kernels that have
\* come as far as their signal.
EveryDispatchEnds ==
  \A s \in Slots :
    s \notin FreeSlots ~> \/ s \in FreeSlots
                          \/ "dma" \in passed_over
                          \/ "cmpl" \in passed_over /\ s \in CmplSlots

\* The firmware, its handlers, the TPC and the cores together implement the
\* dispatch service of KernelDispatch: each kernel starts once and in order,
\* and is stored, signalled and completed in that order.
Taken == IF pc = "advance" THEN current_packet_number + 1 ELSE current_packet_number

StageOf(n) ==
  CASE ~Written(n) -> "unsubmitted"
    [] Retired(n) -> "completed"
    [] Written(n) /\ ~Retired(n) -> IF n < Taken THEN "started" ELSE "submitted"

Service == INSTANCE KernelDispatch WITH
  stage <- [n \in Packets |-> StageOf(n)],
  wants <- {n \in Packets : Written(n) /\ ~Retired(n) /\ aql[n % Q].signal},
  result <- stored,
  count <- signal

ImplementsKernelDispatch == Service!Spec

\* "start processing if the packet queue is not empty" (line 57): no kernel is
\* started for a number the host has not submitted, although the code looks at
\* AQL_LEFT and the header only: a late doorbell must not make it take the old
\* packet of a reused slot for a new one.
StartsOnlySubmitted == pc = "kernel" => current_packet_number < write_index

-----------------------------------------------------------------------------
(* What comments of packet_processor.c claim and the code does not keep;    *)
(* the runs of README.md's findings look for the violation.                 *)

\* Line 169, "if the queue is empty, set the AQL_LEFT register to 0 (disable
\* the Packet Processor)": once no doorbell is outstanding, a disabled packet
\* processor has consumed every packet of the queue.
DisabledOnlyWhenEmpty ==
  pc = "aql" /\ ~aql_left /\ claimed = {} /\ ringing = {} => current_packet_number = write_index

\* Line 64, "block until the current packet index equals the last completed
\* (READ_INDEX)": the packets below READ_INDEX are the completed ones.
ReadIndexIsLastCompleted == \A n \in Packets : n < read_index => Retired(n)

\* Line 33, "Kernel launch queue (also to prevent deadlocks)": the busy wait of
\* a packet with the barrier bit comes to an end, as the kernels before it do.
BarrierBitOpens == pc = "barrier_bit" ~> pc # "barrier_bit"

\* Line 44, "initialize dispatch window stack": the stack holds slots of the
\* window that no kernel is using, each of them once.
StackHoldsFreeSlots ==
  /\ \A i, j \in 0 .. remaining_dispatch_slots - 1 : free_slots[i] = free_slots[j] => i = j
  /\ FreeSlots \intersect (DmaSlots \union ComputeSlots) = {}
=============================================================================
