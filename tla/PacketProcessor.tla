-------------------------- MODULE PacketProcessor --------------------------
(***************************************************************************)
(* The packet processor (PP): the firmware that takes AQL packets from the *)
(* host's queue and drives each kernel dispatch through its pipeline       *)
(*   load arguments -> load image -> compute -> store image -> signal      *)
(* together with what it talks to: the host's producers, the               *)
(* transfer/completion processor (TPC, fpga_cmd_processor.c) that performs *)
(* DMA and signal decrements, and the accelerator cores.                   *)
(*                                                                         *)
(* Two threads of control share the firmware's state: the main loop, one   *)
(* action per critical section or shared access, and the interrupt         *)
(* handlers, atomic because a handler runs at exception level and the main *)
(* loop's critical sections run with interrupts disabled.                  *)
(*                                                                         *)
(* Packets are numbered in submission order; packet n lies in slot n % Q   *)
(* of the AQL queue.  A packet's PASID and its completion signal's handle  *)
(* are represented by its number, so that a value used on behalf of the    *)
(* wrong packet is visible.  The two malloc'ed buffers of a dispatch are   *)
(* identified with its window slot.                                        *)
(***************************************************************************)
EXTENDS RingQueue, FiniteSets

CONSTANTS
  Cores,        \* the accelerator cores, 0 .. AVAILABLE_CORES-1
  Q,            \* MAX_QUEUE_LENGTH: slots of the AQL queue
  N,            \* bound: packets the host submits
  Shapes,       \* the packet shapes the host submits
  Producers,    \* host threads inside a submission at one time
  HostPolicy,   \* when a producer reuses an AQL slot, see Claim
  AdminInts     \* core management interrupts the host raises

None == -1      \* UINT32_MAX, NULL, a null signal handle

Packets == 0 .. N - 1

PacketTypes == {"VENDOR_SPECIFIC", "INVALID", "KERNEL_DISPATCH",
                "BARRIER_AND", "AGENT_DISPATCH", "BARRIER_OR"}

\* only barrier packets have a field for a signal they depend on
PacketShapes ==
  {s \in [type : PacketTypes \ {"INVALID"}, barrier : BOOLEAN, signal : BOOLEAN, dep : BOOLEAN] :
     s.dep => s.type \in {"BARRIER_AND", "BARRIER_OR"}}

ASSUME PacketProcessorAssumption ==
  /\ Q \in Nat \ {0}
  /\ N \in Nat
  /\ Producers \in Nat \ {0}
  /\ Cores \subseteq Nat
  /\ Shapes \subseteq PacketShapes
  /\ HostPolicy \in {"header", "read_index"}
  /\ AdminInts \subseteq {"add", "remove"}

Statuses == {"GET_KERNARG", "GET_IMAGE", "PROCESSING", "STORE_IMAGE", "COMPLETION"}

VARIABLES
  \* shared with the host
  aql,             \* the AQL queue: a packet per slot
  write_index,     \* WRITE_INDEX: packet numbers claimed by producers
  read_index,      \* READ_INDEX: packets the PP has completed
  aql_left,        \* AQL_LEFT: the interrupt controller's work-left register
  claimed,         \* packets claimed by a producer and not yet written
  ringing,         \* packets written whose doorbell has not reached the PP
  signal,          \* values of the completion signals in host memory
  stored,          \* packets whose result image reached host memory
  \* main loop of the firmware
  pc,
  header,          \* local copy of the header being processed
  loaded_index,    \* READ_INDEX as loaded by ++(*READ_INDEX)
  current_packet_number,
  \* firmware state shared by the main loop and the handlers
  pending_packets, core_usage, free_slots, remaining_dispatch_slots,
  current_dma_packet_id, current_cmpl_packet_id,
  dma_queue, launch_queue, dec_queue,
  \* memory-mapped registers and on-board memory
  dma_reg,         \* DMA_HOST/DEVICE/PAYLOAD/LDST/PASID
  cmpl_reg,        \* CMPL_SIG_ADDR and CMPL_SIG_PASID
  core_reg,        \* SRC_ADDR/DST_ADDR of each core
  kernargs,        \* PASID whose arguments a slot's buffer holds
  image,           \* content of a slot's image buffer
  \* pending interrupts
  pp_int,          \* interrupts of the TPC and the host to the PP
  tpc_int,         \* requests of the PP to the TPC without an answer
  passed_over,     \* those among them that the TPC has acknowledged unserved
  core_int,        \* cores with an interrupt of the PP pending
  core_done        \* cores whose interrupt to the PP is pending

hostVars == <<aql, write_index, claimed, ringing>>
tpcVars  == <<signal, stored, passed_over>>
mainVars == <<pc, header, loaded_index, current_packet_number>>
slotVars == <<pending_packets, free_slots, remaining_dispatch_slots>>
dmaVars  == <<dma_queue, current_dma_packet_id, dma_reg>>
coreVars == <<launch_queue, core_usage, core_reg>>
cmplVars == <<dec_queue, current_cmpl_packet_id, cmpl_reg>>
memVars  == <<kernargs, image>>
intVars  == <<pp_int, tpc_int, core_int, core_done>>

vars == <<hostVars, read_index, aql_left, tpcVars, mainVars, slotVars,
          dmaVars, coreVars, cmplVars, memVars, intVars>>

-----------------------------------------------------------------------------
(* Packets, requests and buffers.                                          *)

NoPacket == [num |-> None, type |-> "INVALID", barrier |-> FALSE,
             signal |-> FALSE, dep |-> FALSE]

Packet(n, s) == [num |-> n, type |-> s.type, barrier |-> s.barrier,
                 signal |-> s.signal, dep |-> s.dep]

\* MUTANT of Invalidate: the header stays valid
LeaveValid(p) == p

Invalidate(p) == [num |-> p.num, type |-> "INVALID", barrier |-> FALSE,
                  signal |-> p.signal, dep |-> p.dep]

\* the packet the main loop is looking at, and its place in the AQL queue
packet_index == current_packet_number % Q
CurrentPacket == aql[packet_index]

DmaRequest(s, buf, op, p) == [packet_id |-> s, buffer |-> buf, ldst |-> op, pasid |-> p]
LaunchRequest(s) == [packet_id |-> s]
DecRequest(s, h, p) == [packet_id |-> s, signal_handle |-> h, pasid |-> p]

RawImage(p) == [of |-> p, filtered |-> FALSE]
FilteredImage(p) == [of |-> p, filtered |-> TRUE]

\* the answer to each core management interrupt
AdminAnswer == [add |-> "added", remove |-> "removed"]

\* the running cores
RunningCores == {c \in Cores : core_usage[c].running}

Init ==
  /\ aql = [i \in 0 .. Q - 1 |-> NoPacket]
  /\ write_index = 0
  /\ read_index = 0
  /\ aql_left = FALSE
  /\ claimed = {}
  /\ ringing = {}
  /\ signal = [n \in Packets |-> 1]
  /\ stored = [n \in Packets |-> FALSE]
  /\ pc = "aql"
  /\ header = [type |-> "INVALID", barrier |-> FALSE]
  /\ loaded_index = 0
  /\ current_packet_number = 0
  /\ pending_packets = [s \in Slots |-> [kp |-> None, status |-> "GET_KERNARG", pasid |-> None]]
  /\ core_usage = [c \in Cores |-> [running |-> FALSE, packet_id |-> None]]
  /\ free_slots = [s \in Slots |-> s]
  /\ remaining_dispatch_slots = W
  /\ current_dma_packet_id = None
  /\ current_cmpl_packet_id = None
  /\ dma_queue = EmptyRing(DmaRequest(0, "kernarg", "LOAD", None))
  /\ launch_queue = EmptyRing(LaunchRequest(0))
  /\ dec_queue = EmptyRing(DecRequest(0, None, None))
  /\ dma_reg = DmaRequest(0, "kernarg", "LOAD", None)
  /\ cmpl_reg = DecRequest(0, None, None)
  /\ core_reg = [c \in Cores |-> 0]
  /\ kernargs = [s \in Slots |-> None]
  /\ image = [s \in Slots |-> RawImage(None)]
  /\ pp_int = {}
  /\ tpc_int = {}
  /\ passed_over = {}
  /\ core_int = {}
  /\ core_done = {}

-----------------------------------------------------------------------------
(* The host: producers of the AQL queue.  A submission claims a number by  *)
(* incrementing WRITE_INDEX, writes the packet with its header last, and   *)
(* rings the doorbell.  Up to Producers submissions overlap.  A producer   *)
(* reuses an AQL slot either once its old packet's header was invalidated  *)
(* ("header") or once READ_INDEX has passed the old packet ("read_index"). *)

Claim ==
  LET n == write_index IN
  /\ n < N
  /\ Cardinality(claimed \union ringing) < Producers
  /\ CASE HostPolicy = "header"     -> /\ aql[n % Q].type = "INVALID"
                                       /\ \A m \in claimed : m % Q # n % Q
       [] HostPolicy = "read_index" -> n - read_index < Q
  /\ write_index' = n + 1
  /\ claimed' = claimed \union {n}
  /\ UNCHANGED <<aql, ringing, read_index, aql_left, tpcVars, mainVars, slotVars,
                 dmaVars, coreVars, cmplVars, memVars, intVars>>

\* a packet may depend on the completion signal of the packet before it
CanDepend(n) == n > 0 /\ LET p == aql[(n - 1) % Q] IN p.num = n - 1 /\ p.signal

WritePacket(n) ==
  /\ n \in claimed
  /\ \E s \in Shapes : /\ s.dep => CanDepend(n)
                       /\ aql' = [aql EXCEPT ![n % Q] = Packet(n, s)]
  /\ claimed' = claimed \ {n}
  /\ ringing' = ringing \union {n}
  /\ UNCHANGED <<write_index, read_index, aql_left, tpcVars, mainVars, slotVars,
                 dmaVars, coreVars, cmplVars, memVars, intVars>>

\* the AQL interrupt sets the work-left register
Doorbell(n) ==
  /\ n \in ringing
  /\ ringing' = ringing \ {n}
  /\ aql_left' = TRUE
  /\ UNCHANGED <<aql, write_index, claimed, read_index, tpcVars, mainVars, slotVars,
                 dmaVars, coreVars, cmplVars, memVars, intVars>>

\* the host asks for a core to be added or removed
RaiseAdmin(i) ==
  /\ i \notin pp_int
  /\ pp_int' = pp_int \union {i}
  /\ UNCHANGED <<tpc_int, core_int, core_done, hostVars, read_index, aql_left, tpcVars, mainVars,
                 slotVars, dmaVars, coreVars, cmplVars, memVars>>

-----------------------------------------------------------------------------
(* The TPC and the cores, as far as the PP sees them.                      *)

\* the requests the TPC still has on its lanes
AtTpc == tpc_int \ passed_over

\* interrupt_transfer of the TPC copies what the DMA registers describe
LoadKernarg(r) ==
  /\ r.buffer = "kernarg"
  /\ kernargs' = [kernargs EXCEPT ![r.packet_id] = r.pasid]
  /\ UNCHANGED <<image, stored>>

LoadImage(r) ==
  /\ r.buffer = "image" /\ r.ldst = "LOAD"
  /\ image' = [image EXCEPT ![r.packet_id] = RawImage(r.pasid)]
  /\ UNCHANGED <<kernargs, stored>>

StoreImage(r) ==
  /\ r.buffer = "image" /\ r.ldst = "STORE"
  /\ stored' = [stored EXCEPT ![r.pasid] = (image[r.packet_id] = FilteredImage(r.pasid))]
  /\ UNCHANGED memVars

TpcTransfer ==
  /\ "dma" \in AtTpc
  /\ tpc_int' = tpc_int \ {"dma"}
  /\ LoadKernarg(dma_reg) \/ LoadImage(dma_reg) \/ StoreImage(dma_reg)
  /\ pp_int' = pp_int \union {"dma"}
  /\ UNCHANGED <<core_int, core_done, hostVars, read_index, aql_left, signal, passed_over,
                 mainVars, slotVars, dmaVars, coreVars, cmplVars>>

\* interrupt_completion of the TPC decrements the signal in the register
TpcDecrement ==
  /\ "cmpl" \in AtTpc
  /\ tpc_int' = tpc_int \ {"cmpl"}
  /\ signal' = [signal EXCEPT ![cmpl_reg.signal_handle] = @ - 1]
  /\ pp_int' = pp_int \union {"cmpl"}
  /\ UNCHANGED <<core_int, core_done, hostVars, read_index, aql_left, stored, passed_over,
                 mainVars, slotVars, dmaVars, coreVars, cmplVars, memVars>>

\* interrupt_added_core and interrupt_removed_core of the TPC echo the interrupt
TpcEcho(i) ==
  /\ AdminAnswer[i] \in AtTpc
  /\ tpc_int' = tpc_int \ {AdminAnswer[i]}
  /\ pp_int' = pp_int \union {i}
  /\ UNCHANGED <<core_int, core_done, hostVars, read_index, aql_left, tpcVars, mainVars, slotVars,
                 dmaVars, coreVars, cmplVars, memVars>>

\* The handler's switch has no case for two pending lanes; the eret acknowledges
\* both and the coprocessor forgets the one it was triggered by (TpcInterrupts).
TpcPassOver(r) ==
  /\ r \in AtTpc /\ AtTpc # {r}
  /\ passed_over' = passed_over \union {r}
  /\ UNCHANGED <<signal, stored>>
  /\ UNCHANGED <<intVars, hostVars, read_index, aql_left, mainVars, slotVars,
                 dmaVars, coreVars, cmplVars, memVars>>

\* a core filters the image its registers point to and interrupts the PP
CoreCompute(c) ==
  /\ c \in core_int
  /\ core_int' = core_int \ {c}
  /\ image' = [image EXCEPT ![core_reg[c]].filtered = TRUE]
  /\ core_done' = core_done \union {c}
  /\ UNCHANGED <<pp_int, tpc_int, hostVars, read_index, aql_left, tpcVars, mainVars, slotVars,
                 dmaVars, coreVars, cmplVars, kernargs>>

-----------------------------------------------------------------------------
(* The main loop: process_aql_packets, then process_dma_queue,             *)
(* process_launch_queue and process_dec_queue, for ever.                   *)

\* the main loop goes to its next point and keeps its local variables
Goto(point) ==
  /\ pc' = point
  /\ UNCHANGED <<header, loaded_index, current_packet_number>>

\* where process_aql_packets goes on for a packet of the given type
Branch(type) ==
  CASE type = "INVALID"         -> "dma"
    [] type = "KERNEL_DISPATCH" -> "kernel"
    [] type = "BARRIER_AND"     -> "barrier_and"
    [] type = "BARRIER_OR"      -> "barrier_or"
    [] OTHER                    -> "advance"

NothingToProcess ==
  /\ pc = "aql"
  /\ ~aql_left \/ remaining_dispatch_slots = 0
  /\ Goto("dma")
  /\ UNCHANGED <<hostVars, read_index, aql_left, tpcVars, slotVars,
                 dmaVars, coreVars, cmplVars, memVars, intVars>>

ReadHeader ==
  /\ pc = "aql"
  /\ aql_left /\ remaining_dispatch_slots > 0
  /\ header' = [type |-> CurrentPacket.type, barrier |-> CurrentPacket.barrier]
  /\ pc' = IF CurrentPacket.barrier THEN "barrier_bit" ELSE Branch(CurrentPacket.type)
  /\ UNCHANGED <<loaded_index, current_packet_number>>
  /\ UNCHANGED <<hostVars, read_index, aql_left, tpcVars, slotVars,
                 dmaVars, coreVars, cmplVars, memVars, intVars>>

\* the busy wait of a packet whose barrier bit is set
BarrierBit ==
  /\ pc = "barrier_bit"
  /\ current_packet_number = read_index
  /\ Goto(Branch(header.type))
  /\ UNCHANGED <<hostVars, read_index, aql_left, tpcVars, slotVars,
                 dmaVars, coreVars, cmplVars, memVars, intVars>>

\* a kernel dispatch takes a window slot and requests its arguments
DispatchKernel ==
  LET s == free_slots[remaining_dispatch_slots - 1]
      p == CurrentPacket.num IN
  /\ pc = "kernel"
  /\ remaining_dispatch_slots' = remaining_dispatch_slots - 1
  /\ pending_packets' = [pending_packets EXCEPT
       ![s] = [kp |-> packet_index, status |-> "GET_KERNARG", pasid |-> p]]
  /\ dma_queue' = Push(dma_queue, DmaRequest(s, "kernarg", "LOAD", p))
  /\ kernargs' = [kernargs EXCEPT ![s] = None]
  /\ Goto("advance")
  /\ UNCHANGED <<free_slots, current_dma_packet_id, dma_reg, image>>
  /\ UNCHANGED <<hostVars, read_index, aql_left, tpcVars, coreVars, cmplVars, intVars>>

\* the values of the signals the current barrier packet depends on
DepSignals == IF CurrentPacket.dep THEN {signal[CurrentPacket.num - 1]} ELSE {}

\* MUTANT of DepsReady: the AND barrier does not wait
DepsIgnored == pc \in {"barrier_and", "barrier_or"}

\* the busy waits of the barrier packets
DepsReady ==
  \/ pc = "barrier_and" /\ \A v \in DepSignals : v = 0
  \/ pc = "barrier_or"  /\ \E v \in DepSignals : v = 0

AwaitDeps ==
  /\ DepsReady
  /\ Goto(IF CurrentPacket.signal THEN "barrier_signal" ELSE "barrier_retire")
  /\ UNCHANGED <<hostVars, read_index, aql_left, tpcVars, slotVars,
                 dmaVars, coreVars, cmplVars, memVars, intVars>>

\* a barrier packet with a completion signal requests its decrement, naming
\* itself by its index in the AQL queue
QueueBarrierSignal ==
  LET p == CurrentPacket.num IN
  /\ pc = "barrier_signal"
  /\ dec_queue' = Push(dec_queue, DecRequest(packet_index, p, p))
  /\ Goto("advance")
  /\ UNCHANGED <<current_cmpl_packet_id, cmpl_reg>>
  /\ UNCHANGED <<hostVars, read_index, aql_left, tpcVars, slotVars,
                 dmaVars, coreVars, memVars, intVars>>

\* a barrier packet without one completes here; ++(*READ_INDEX) is a load and
\* a store with interrupts enabled
RetireBarrier ==
  /\ pc = "barrier_retire"
  /\ aql' = [aql EXCEPT ![packet_index] = Invalidate(@)]
  /\ loaded_index' = read_index
  /\ pc' = "barrier_store"
  /\ UNCHANGED <<header, current_packet_number>>
  /\ UNCHANGED <<write_index, claimed, ringing>>
  /\ UNCHANGED <<read_index, aql_left, tpcVars, slotVars,
                 dmaVars, coreVars, cmplVars, memVars, intVars>>

StoreReadIndex ==
  /\ pc = "barrier_store"
  /\ read_index' = loaded_index + 1
  /\ Goto("advance")
  /\ UNCHANGED <<hostVars, aql_left, tpcVars, slotVars,
                 dmaVars, coreVars, cmplVars, memVars, intVars>>

\* go to the next packet; compare with WRITE_INDEX ...
Advance ==
  /\ pc = "advance"
  /\ current_packet_number' = current_packet_number + 1
  /\ pc' = IF current_packet_number + 1 = write_index THEN "clear" ELSE "dma"
  /\ UNCHANGED <<header, loaded_index>>
  /\ UNCHANGED <<hostVars, read_index, aql_left, tpcVars, slotVars,
                 dmaVars, coreVars, cmplVars, memVars, intVars>>

\* ... and clear AQL_LEFT if they were equal
ClearAqlLeft ==
  /\ pc = "clear"
  /\ aql_left' = FALSE
  /\ Goto("dma")
  /\ UNCHANGED <<hostVars, read_index, tpcVars, slotVars,
                 dmaVars, coreVars, cmplVars, memVars, intVars>>

\* MUTANT of DmaIdle: a busy DMA engine is not waited for
DmaIgnored == TRUE

DmaIdle == current_dma_packet_id = None

\* start the next DMA request if the TPC has none
ProcessDmaQueue ==
  /\ pc = "dma"
  /\ IF ~IsEmpty(dma_queue) /\ DmaIdle
     THEN /\ dma_reg' = Front(dma_queue)
          /\ current_dma_packet_id' = Front(dma_queue).packet_id
          /\ tpc_int' = tpc_int \union {"dma"}
          /\ dma_queue' = Pop(dma_queue)
     ELSE UNCHANGED <<dmaVars, tpc_int>>
  /\ Goto("launch")
  /\ UNCHANGED <<hostVars, read_index, aql_left, tpcVars, slotVars,
                 coreVars, cmplVars, memVars, pp_int, core_int, core_done>>

\* start the next kernel on the first idle core
FirstIdle(c) == c \in Cores \ RunningCores /\ \A d \in Cores \ RunningCores : c <= d

\* MUTANT of SourceWritten: the core is started on its previous image
SourceKept(reg, c, s) == reg

\* SRC_ADDR and DST_ADDR of core c point to the image of slot s
SourceWritten(reg, c, s) == [reg EXCEPT ![c] = s]

ProcessLaunchQueue ==
  /\ pc = "launch"
  /\ IF ~IsEmpty(launch_queue) /\ RunningCores # Cores
     THEN \E c \in Cores :
            /\ FirstIdle(c)
            /\ LET s == Front(launch_queue).packet_id IN
                 /\ core_reg' = SourceWritten(core_reg, c, s)
                 /\ core_usage' = [core_usage EXCEPT ![c] = [running |-> TRUE, packet_id |-> s]]
            /\ core_int' = core_int \union {c}
            /\ launch_queue' = Pop(launch_queue)
     ELSE UNCHANGED <<coreVars, core_int>>
  /\ Goto("dec")
  /\ UNCHANGED <<hostVars, read_index, aql_left, tpcVars, slotVars,
                 dmaVars, cmplVars, memVars, pp_int, tpc_int, core_done>>

\* request the next signal decrement if the TPC has none
ProcessDecQueue ==
  /\ pc = "dec"
  /\ IF ~IsEmpty(dec_queue) /\ current_cmpl_packet_id = None
     THEN /\ cmpl_reg' = Front(dec_queue)
          /\ current_cmpl_packet_id' = Front(dec_queue).packet_id
          /\ tpc_int' = tpc_int \union {"cmpl"}
          /\ dec_queue' = Pop(dec_queue)
     ELSE UNCHANGED <<cmplVars, tpc_int>>
  /\ Goto("aql")
  /\ UNCHANGED <<hostVars, read_index, aql_left, tpcVars, slotVars,
                 dmaVars, coreVars, memVars, pp_int, core_int, core_done>>

-----------------------------------------------------------------------------
(* The interrupt handlers.                                                 *)

\* interrupt_transfer, by the status of the packet whose DMA has finished
TransferKernarg(s) ==
  /\ pending_packets[s].status = "GET_KERNARG"
  /\ pending_packets' = [pending_packets EXCEPT ![s].status = "GET_IMAGE"]
  /\ image' = [image EXCEPT ![s] = RawImage(None)]
  /\ dma_queue' = Push(dma_queue, DmaRequest(s, "image", "LOAD", pending_packets[s].pasid))
  /\ UNCHANGED <<free_slots, remaining_dispatch_slots, launch_queue, dec_queue,
                 kernargs, aql, read_index>>

TransferImage(s) ==
  /\ pending_packets[s].status = "GET_IMAGE"
  /\ pending_packets' = [pending_packets EXCEPT ![s].status = "PROCESSING"]
  /\ launch_queue' = Push(launch_queue, LaunchRequest(s))
  /\ UNCHANGED <<free_slots, remaining_dispatch_slots, dma_queue, dec_queue,
                 memVars, aql, read_index>>

\* MUTANT of TransferResultSignal: a kernel with a completion signal is counted
\* when it asks for the decrement, and once more when the TPC has answered
TransferResultCounted(s) ==
  /\ pending_packets[s].status = "STORE_IMAGE"
  /\ aql[pending_packets[s].kp].signal
  /\ pending_packets' = [pending_packets EXCEPT ![s].status = "COMPLETION"]
  /\ dec_queue' = Push(dec_queue, DecRequest(s, aql[pending_packets[s].kp].num,
                                                pending_packets[s].pasid))
  /\ read_index' = read_index + 1
  /\ UNCHANGED <<free_slots, remaining_dispatch_slots, dma_queue, launch_queue,
                 memVars, aql>>

TransferResultSignal(s) ==
  /\ pending_packets[s].status = "STORE_IMAGE"
  /\ aql[pending_packets[s].kp].signal
  /\ pending_packets' = [pending_packets EXCEPT ![s].status = "COMPLETION"]
  /\ dec_queue' = Push(dec_queue, DecRequest(s, aql[pending_packets[s].kp].num,
                                                pending_packets[s].pasid))
  /\ UNCHANGED <<free_slots, remaining_dispatch_slots, dma_queue, launch_queue,
                 memVars, aql, read_index>>

\* MUTANT of Freed: the packet's AQL index is pushed for its window slot
FreedIndex(s) == [free_slots EXCEPT ![remaining_dispatch_slots] = pending_packets[s].kp]

\* MUTANT of Freed: the stack is written one entry too low
FreedLow(s) == [free_slots EXCEPT ![remaining_dispatch_slots - 1] = s]

Freed(s) == [free_slots EXCEPT ![remaining_dispatch_slots] = s]

\* MUTANT of Counted: ++(*READ_INDEX) is missing
Uncounted == read_index

Counted == read_index + 1

\* free the buffers and the window slot, invalidate the packet and count it; a
\* full stack or a slot that never held a packet would make the stores hit
\* other memory, and no step is given for them
ReleaseSlot(s) ==
  LET i == pending_packets[s].kp IN
  /\ remaining_dispatch_slots < W /\ i # None
  /\ free_slots' = Freed(s)
  /\ remaining_dispatch_slots' = remaining_dispatch_slots + 1
  /\ aql' = [aql EXCEPT ![i] = Invalidate(@)]
  /\ read_index' = Counted
  /\ UNCHANGED pending_packets

TransferResult(s) ==
  /\ pending_packets[s].status = "STORE_IMAGE"
  /\ ~aql[pending_packets[s].kp].signal
  /\ ReleaseSlot(s)
  /\ UNCHANGED <<dma_queue, launch_queue, dec_queue, memVars>>

TransferIgnored(s) ==
  /\ pending_packets[s].status \in {"PROCESSING", "COMPLETION"}
  /\ UNCHANGED <<slotVars, dma_queue, launch_queue, dec_queue, memVars, aql, read_index>>

InterruptTransfer ==
  LET s == current_dma_packet_id IN
  /\ "dma" \in pp_int
  /\ pp_int' = pp_int \ {"dma"}
  /\ \/ TransferKernarg(s)
     \/ TransferImage(s)
     \/ TransferResultSignal(s)
     \/ TransferResult(s)
     \/ TransferIgnored(s)
  /\ current_dma_packet_id' = None
  /\ UNCHANGED <<write_index, claimed, ringing, aql_left, tpcVars, mainVars, dma_reg,
                 core_usage, core_reg, current_cmpl_packet_id, cmpl_reg,
                 tpc_int, core_int, core_done>>

\* MUTANT of ResultRequest: LOAD_DATA requested for STORE_DATA
ResultLoaded(s) == DmaRequest(s, "image", "LOAD", pending_packets[s].pasid)

ResultRequest(s) == DmaRequest(s, "image", "STORE", pending_packets[s].pasid)

\* MUTANT of IdleCore: the core is not marked idle
CoreKeptBusy == [running |-> TRUE, packet_id |-> None]

IdleCore == [running |-> FALSE, packet_id |-> None]

\* interrupt_kernel of the core named in RCV_INT_ADDR: store its result
InterruptKernel(c) ==
  LET s == core_usage[c].packet_id IN
  /\ c \in core_done
  /\ core_done' = core_done \ {c}
  /\ dma_queue' = Push(dma_queue, ResultRequest(s))
  /\ pending_packets' = [pending_packets EXCEPT ![s].status = "STORE_IMAGE"]
  /\ core_usage' = [core_usage EXCEPT ![c] = IdleCore]
  /\ UNCHANGED <<free_slots, remaining_dispatch_slots, current_dma_packet_id, dma_reg,
                 launch_queue, core_reg, pp_int, tpc_int, core_int>>
  /\ UNCHANGED <<hostVars, read_index, aql_left, tpcVars, mainVars, cmplVars, memVars>>

\* interrupt_completion: current_cmpl_packet_id is taken for a window slot.
\* For an index outside the window (QueueBarrierSignal) it reads and writes
\* outside its arrays: no step is given then.
InterruptCompletion ==
  LET s == current_cmpl_packet_id IN
  /\ "cmpl" \in pp_int
  /\ s \in Slots
  /\ pp_int' = pp_int \ {"cmpl"}
  /\ ReleaseSlot(s)
  /\ current_cmpl_packet_id' = None
  /\ UNCHANGED <<write_index, claimed, ringing, aql_left, tpcVars, mainVars,
                 dmaVars, coreVars, dec_queue, cmpl_reg, memVars, tpc_int, core_int, core_done>>

\* interrupt_add_core and interrupt_remove_core echo the interrupt, also while
\* an earlier one of the kind was passed over: the lane rises again
InterruptAdmin(i) ==
  /\ i \in pp_int
  /\ pp_int' = pp_int \ {i}
  /\ tpc_int' = tpc_int \union {AdminAnswer[i]}
  /\ passed_over' = passed_over \ {AdminAnswer[i]}
  /\ UNCHANGED <<core_int, core_done, hostVars, read_index, aql_left, signal, stored, mainVars,
                 slotVars, dmaVars, coreVars, cmplVars, memVars>>

-----------------------------------------------------------------------------
Host ==
  \/ Claim
  \/ \E n \in Packets : WritePacket(n) \/ Doorbell(n)
  \/ \E i \in AdminInts : RaiseAdmin(i)

Tpc ==
  \/ TpcTransfer \/ TpcDecrement
  \/ \E i \in DOMAIN AdminAnswer : TpcEcho(i)
  \/ \E r \in tpc_int : TpcPassOver(r)

ProcessAqlPackets ==
  \/ NothingToProcess \/ ReadHeader \/ BarrierBit
  \/ DispatchKernel
  \/ AwaitDeps \/ QueueBarrierSignal \/ RetireBarrier \/ StoreReadIndex
  \/ Advance \/ ClearAqlLeft

MainLoop ==
  ProcessAqlPackets \/ ProcessDmaQueue \/ ProcessLaunchQueue \/ ProcessDecQueue

Handlers ==
  \/ InterruptTransfer \/ InterruptCompletion
  \/ \E c \in Cores : InterruptKernel(c)
  \/ \E i \in DOMAIN AdminAnswer : InterruptAdmin(i)

Next == Host \/ Tpc \/ (\E c \in Cores : CoreCompute(c)) \/ MainLoop \/ Handlers

Spec == Init /\ [][Next]_vars

(* The main loop never stops, a pending interrupt of the PP stays latched   *)
(* until it is taken, the TPC answers a request unless it passes it over,   *)
(* the cores answer every request, and a producer that has claimed a packet *)
(* writes it and rings.                                                     *)
Fairness ==
  /\ WF_vars(MainLoop)
  /\ WF_vars(InterruptTransfer) /\ WF_vars(InterruptCompletion)
  /\ WF_vars(TpcTransfer) /\ WF_vars(TpcDecrement)
  /\ \A c \in Cores : WF_vars(InterruptKernel(c)) /\ WF_vars(CoreCompute(c))
  /\ \A n \in Packets : WF_vars(WritePacket(n)) /\ WF_vars(Doorbell(n))

FairSpec == Spec /\ Fairness
=============================================================================
