# A formal model of LibHSA

LibHSA puts an HSA agent on an FPGA: a *packet processor* takes AQL packets
from a queue in host memory and drives each kernel dispatch through accelerator
cores. Firmware (C, on soft MIPS cores) and hardware (VHDL) share the work, and
everything that is hard about it is between them: interrupts, queues shared by
a main loop and its handlers, engines that answer later, a host that reads
memory at any time.

This directory holds TLA+ models of that core, TLC configurations that check
them on small instances, and proofs checked by TLAPS for every size of the
system. Paths below are relative to `src/lib` unless they start with `src/`.

    tlc -workers 2 -config PPKernels.cfg MCPacketProcessor     # a run
    tlapm PipelineProofs.tla                                   # a proof

`PROJECT.json` lists the runs, the source lines each definition models, one
mutant per checked property, the hazards and the findings.

## 1. The system

### Components, their state and their operations

| component | state | operations |
|---|---|---|
| **host runtime** (outside the repository; simulated by `fpga_cmd_processor/sw/core/src/fpga_cmd_processor.c` `main` and the testbenches) | the AQL queue, WRITE_INDEX | claim a packet number, write the packet and its header, ring the doorbell; raise add/remove-core interrupts |
| **packet processor (PP) firmware** `packet_processor/sw/core/src/packet_processor.c` | `current_packet_number`, the dispatch window (`pending_packets`, `free_slots`, `remaining_dispatch_slots`), three ring queues of requests, `core_usage`, the current DMA and completion slot, READ_INDEX, AQL_LEFT | main loop: `process_aql_packets`, `process_dma_queue`, `process_launch_queue`, `process_dec_queue`; handlers: `interrupt_transfer`, `interrupt_kernel`, `interrupt_completion`, `interrupt_add_core`, `interrupt_remove_core` |
| **TPC firmware** `fpga_cmd_processor/sw/core/src/fpga_cmd_processor.c` | none between requests (registers are the PP's) | `interrupt_transfer` copies a buffer, `interrupt_completion` decrements a signal, `interrupt_added_core`/`_removed_core` answer; `main` starts the system |
| **accelerator command processors** `accel_cmd_processor/sw/core0/src/main.c`, `rom_accel_cmd_processor/sw/core0/src/main.c` | `start_execution`, `execution_done`, the operator masks | read the arguments, filter the image, interrupt the PP; the second drives a datamover |
| **interrupt hardware of the PP** `common/interrupts/*.vhd`, `packet_processor/hw/interrupt_controller`, `packet_processor/hw/packet_processor_top.vhd` | lanes, latched interrupts, the interrupt presented, the AQL_LEFT register, the acknowledge shift registers | demultiplex, arbitrate, grant, acknowledge, once per clock |
| **interrupt path of the TPC** `fpga_cmd_processor/hw/fpga_cmd_processor_top.vhd`, `fpga_cmd_processor/sw/core/src/exception_handler.c` | the cause register of coprocessor 0 | latch, trigger, dispatch on the cause, acknowledge |
| **coprocessor 0** `ext/mips64/coprocessor0_64.vhd` (vendored core, but its interrupt logic decides) | status, cause, triggered exception | enter and leave exception level |
| **exception handlers' load/store emulation** `*/sw/*/src/exception_handler.c` | the saved registers on the stack | save, dispatch, emulate byte and halfword accesses, restore; the emulation is dead with the default generics |
| **external memory interfaces and memory controllers** `*/hw/memory_controller` | the state of an access, the routing | decode, stall, AXI reads and writes |
| **AXI engines, routers, block memories** `common/axi_lite`, `common/axi_full`, `common/mem_router` | handshakes | bus transfers |
| **datamover** `util/datamover` | per direction a transfer state machine, what is left, the address, a finished flag; a sticky error | split a transfer into bursts, raise the finished interrupt |
| **integer routines and newlib stubs** `*/system/system.c` | `heap_end` of `sbrk` | multiply and divide words and double words, for cores that cannot; `sbrk` |
| **address converter** `util/axi_address_converter` | none | add an offset |
| **start-up code, coprocessor accessors, processor tops, MIPS cores, testbenches, host tools** | | plumbing, vendored or test code |

### How they interact

1. A host thread claims a number from WRITE_INDEX, writes the packet, its
   header last, and rings: the doorbell lane sets AQL_LEFT in the PP's
   interrupt controller.
2. The PP's main loop sees AQL_LEFT and a valid header, takes a slot of the
   window and queues a DMA request for the arguments; when no DMA is running it
   writes the request registers and interrupts the TPC.
3. The TPC copies in its handler and answers by interrupt. The PP's handler
   queues the image's load, then the launch; the main loop launches on an idle
   core, whose registers name the slot's buffers.
4. The core filters the image and interrupts; the PP's handler frees the core
   and queues the store DMA; its answer queues the decrement of the completion
   signal, or, without a signal, ends the dispatch at once.
   A rom accelerator instead configures a processing element and its
   datamover, starts it, and waits until both directions have finished.
5. The TPC decrements; the PP's handler gives the slot back, invalidates the
   packet's header and counts it in READ_INDEX.

Main loop and handlers share all of the firmware's state: a handler runs at
exception level, uninterrupted; the main loop disables interrupts around some
of its sections (`disable_interrupts`/`enable_interrupts`) and touches shared
state outside them in others. Host, TPC and cores run in parallel with both.

### What is hard here

* **interleaving**: the doorbell against the clearing of AQL_LEFT, pushes of
  handlers against pops of the main loop, several producers;
* **ordering**: kernels finish in any order on several cores, while READ_INDEX
  is one counter and the queue is a ring;
* **waiting**: busy waits in the loop that alone makes progress possible;
* **bounds**: three rings and a stack, none tested for being full or empty;
* **hand-over**: one set of registers per engine, overwritten by the next
  request, and interrupt lines that cross several registers with a delayed
  response;
* **two causes at once**: an exception and an interrupt, or two interrupts, in
  the same cycle;
* **leftovers**: registers of a processing element written only where a task
  needs them, registers of a program saved by hand in every handler;
* **arithmetic at its edges**: division by shifts whose undefined cases are
  masked out, comparisons by the sign of a difference, bursts of the last bytes.

There is no persistence, no network and no retry; crashes and message loss are
not behaviours of this system. What makes each component correct:

* PP firmware: no slot of the window is lost or used twice; queues never
  overflow; a kernel computes on its own data; the host is told after the
  result was stored, once; every dispatch ends; only submitted packets start;
  a barrier waits for what it depends on.
* interrupt hardware: a request is latched once, presented once, one at a time,
  and acknowledged by its own handler; a doorbell is never forgotten.
* TPC: every request is answered, once (two at a time are not, see section 4).
* rom accelerator and datamover: a launch is answered once, after the bursts
  have covered the image exactly; the processing element works from registers
  of its own task; the two interrupts never meet.
* exception handlers: a program finds its registers as they were, resumes at
  the right address, and an emulated access does what the instruction does
  (most do not, see section 4).
* integer routines: they return, and return what C defines.
* memory interfaces: every access is answered once, by the address range it
  belongs to (not modelled).

## 2. The modules

| module | models | used by |
|---|---|---|
| `RingQueue` | the idiom of `dma_queue`, `launch_queue`, `dec_queue`: an array of W entries with free-running read and write counters | `PacketProcessor` |
| `PacketProcessor` | the PP firmware with host, TPC and cores around it | `PacketProcessorProperties` |
| `PacketProcessorProperties` | the types and the properties of `PacketProcessor`, and its mapping to `KernelDispatch` | `MCPacketProcessor`, proofs |
| `KernelDispatch` | abstract: what the host is promised about each dispatch | refinement in `PacketProcessorProperties` |
| `MCPacketProcessor` | packet mixes for TLC | runs |
| `InterruptController` | the PP's interrupt hardware, per clock cycle | runs |
| `InterruptDelivery` | abstract: what interrupt hardware promises to firmware | refinement in `InterruptController` |
| `TpcInterrupts` | the TPC's interrupt path | run |
| `Datamover` | the two transfer state machines of the datamover | `RomAccelerator` |
| `PeConfiguration` | how a task becomes the registers of the processing element | `RomAccelerator` |
| `RomAccelerator` | the rom accelerator's firmware, its core's interrupts and the datamover, composed | `RomAcceleratorProperties` |
| `AcceleratorService` | abstract: what a rom accelerator promises the packet processor | refinement in `RomAcceleratorProperties` |
| `RomAcceleratorProperties`, `MCRomAccelerator` | properties, and the tasks for TLC | run |
| `SoftArithmetic` | the integer routines of `system.c`, as functions | `SupportRoutines` |
| `SupportRoutines` | calls of them, one loop iteration per step | `FirmwareSupport` |
| `SubwordAccess` | the six emulated accesses, as operators on registers and memory | `ExceptionHandlers` |
| `ExceptionHandlers` | a program with its exceptions and interrupts on each of the four processors; `sbrk` | `FirmwareSupport` |
| `FirmwareSupport`, `MCFirmwareSupport` | both, with their properties, and the calls and programs for TLC | run |
| `PacketProcessorProofs`, `PipelineProofs`, `KernelDispatchProofs` | theorems about `RingQueue` and `PacketProcessor`, each building on the one before | |
| `RomAcceleratorProofs`, `InterruptControllerProofs` | theorems about these two specifications | |
| `SoftDivisionProofs`, `SupportRoutinesProofs`, `FirmwareSupportProofs` | theorems about `SoftArithmetic`, `SupportRoutines` and `FirmwareSupport`, each building on the one before | |

### PacketProcessor

One action per critical section or unprotected shared access of the main loop
(`pc` names where it is), one action per handler, one per TPC handler, one per
core computation, three per host submission.

| action | code |
|---|---|
| `Claim`, `WritePacket`, `Doorbell` | the three steps of a producer; `WritePacket` stores packet and header in one step, as the header is written last |
| `NothingToProcess`, `ReadHeader` | the test at the top of `process_aql_packets`, of AQL_LEFT and of a free slot of the window together, and the header: with the window full the loop goes on to its queues |
| `BarrierBit` | the busy wait for READ_INDEX |
| `DispatchKernel` | takes a slot, queues the argument DMA, one critical section |
| `AwaitDeps`, `QueueBarrierSignal`, `RetireBarrier`, `StoreReadIndex` | barrier packets; the read-modify-write of READ_INDEX is two actions, as interrupts are enabled |
| `Advance`, `ClearAqlLeft` | the comparison with WRITE_INDEX and the store to AQL_LEFT, two accesses |
| `ProcessDmaQueue`, `ProcessLaunchQueue`, `ProcessDecQueue` | one pop each, with the registers written and the interrupt sent |
| `InterruptTransfer` (`TransferKernarg`, `TransferImage`, `TransferResult`), `InterruptKernel`, `InterruptCompletion`, `InterruptAdmin` | the handlers |
| `TpcTransfer`, `TpcDecrement`, `TpcEcho`, `CoreCompute` | the other processors |
| `TpcPassOver` | the TPC's handler with two lanes pending: it serves neither, and the one it was triggered by is lost |

A packet's shape says only what its type has a field for (`PacketShapes`): a
signal to depend on is a field of barrier packets (`hsa_packets.h`). Data is
abstracted to what the properties tell apart: PASIDs and signal handles
are the packet's number, a buffer holds whose data it is and whether it was
filtered, the malloc'ed buffers of a dispatch belong to its slot. Counters of
the rings are natural numbers; in the code they are 64-bit, and as W is a power
of two there (`DISPATCH_WINDOW_SIZE`), masking the index commutes with their
wrap-around. Pending interrupts are sets, which is what `InterruptDelivery`
allows: a request stays pending until taken and is taken once. The TPC has no
such controller: what its handler passes over (`TpcInterrupts`, finding
`tpc_lost`) stays in `tpc_int`, as the request whose answer the firmware still
waits for, and is remembered in `passed_over`; the TPC serves what is in
`AtTpc`. A TPC handler's service and its answer are one step, its return is not
a step: assumed is that it has returned before the packet processor, which must
first enter and leave its own handler and go through its main loop, sends the
next request of the same kind.

`HostPolicy` says when a producer reuses a slot of the AQL queue, which the
repository leaves to the host: `"header"`, when the slot's header is invalid
(as `fpga_cmd_processor.c` `main` polls), or `"read_index"`, when READ_INDEX has
passed it.

### InterruptController

Each clocked VHDL process is an operator that gives the next value of its
registers, `Cycle` is their conjunction: `Distribute` (the senders'
demultiplexers), `Schedule` (arbiter), `Processing` (controller),
`ShiftRegisters` (acknowledge logic), `Coprocessor0` and `Eret`. Vectors of
lanes are sets of lanes. Registers that always carry equal values are one
variable. The environment of a cycle: which requests are sent, whether the
firmware writes 0 to AQL_LEFT, whether a memory access raises an exception,
whether the main program has interrupts enabled, whether a handler returns.
Senders keep to what `PacketProcessor` proves of them (`OneRequestPerEngine`):
no second request of a kind before the first was served; the doorbell is free.

### TpcInterrupts

Request, entry, reading of the cause register, service, eret and its two cycles
of delay are separate steps, between which lanes may rise.

### RomAccelerator, Datamover, PeConfiguration, AcceleratorService

| action | code |
|---|---|
| `Launch`, `TakeCompletion` | the packet processor's `process_launch_queue` and `interrupt_kernel`, as far as this core sees them |
| `Poll`, `ClearStart` | `main`'s wait for `start_execution` |
| `WritePe`, `ResetPe`, `ConfigureDatamover`, `StartDatamover`, `AwaitDone`, `ClearDone`, `SignalPacketProcessor` | `run_computation`, in its order |
| `EnterHandler`, `ReadCause`, `Serve`, `Return`, `LeaveHandler` | the core's interrupts: both lanes are pins of coprocessor 0, the switch compares the whole pending field, the eret acknowledges both |
| `Started`, `Initialized`, `CommandTaken`, `Transferred`, `Finished`, `Broken` | `transfer_statemachine.vhd`, one instance per direction |

`ConfigurePe` is one step: nothing but the firmware reads or writes these
registers before the processing element is reset and the datamover feeds it.
`PeConfiguration` keeps the switches of `write_task_config_to_pe` and
`pe_encode_op` bit by bit; a mask is its name. The history variables `request`,
`written` and `copied` say what the properties compare with.

Assumed: one clock for core and datamover (`int_finished_ack` is then one
cycle; `datamover.vhd` declares its interrupts with `axi_cfg_aclk` and drives
them from `axi_aclk`); the start lane is a short pulse; the processing element,
whose source is not in the repository, takes its reset at once; the
configuration memory is stable while the core runs; addresses do not wrap.

### SoftArithmetic and SupportRoutines

Locals of a routine are a record, an iteration of its loop an operator on it
(`MulStep`, `DivStep`, `ModStep`), used both by the recursive functions that
give a routine's value and by the actions of `SupportRoutines`. Width and
double width are parameters. A shift by the width or by a negative count is
undefined in C and gives the word `undef`, which the run takes to be all zeros
or all ones: the masks around it must discard it either way. `__mulsi3` takes
words on the accelerators' cores and double words on the other two, where a
`long` has 64 bits. The copies of `system.c` have the same text, but that the
accelerators' lack the double word routines.

### SubwordAccess, ExceptionHandlers and FirmwareSupport

A word is its four bytes, a register one word (accelerators) or two (packet
processor and TPC). `Trap` and `Interrupt` save the frame and let the handler
overwrite what it uses; `PpReservedInstruction` and its three siblings emulate,
`PpInterrupt` and its siblings select a handler from the cause register;
`LeaveWide` and `LeaveNarrow` restore. Words beyond a narrow frame, which the
emulation of an access to an unsaved register reaches, hold anything. Handlers
are not nested: exception level masks interrupts. The cores are little endian
(`-EL`). `sbrk` is a load and a store of `heap_end`; a handler's `malloc` may
call it in between.

The emulation is reached only in a build with `G_EXC_RESERVED_INSTRUCTION` and
a reduced core without sub-word accesses.

`FirmwareSupport` puts the two in one specification, as alternatives: a
behaviour is a call of a routine or a program with its exceptions. They share
no state.

## 3. The runs

| run | instance | checks |
|---|---|---|
| `kernels` | 3 kernels with and without signal, 2 cores, window 2, queue 4; 133k states | `TypeOK`, `SlotConservation`, `QueuesFit`, `OneRequestPerEngine`, `DataReady`, `ResultBeforeSignal`, `CompletionAccounting`, refinement `ImplementsKernelDispatch`, liveness `EveryDispatchEnds` |
| `wrap` | 5 kernels through a queue of 4 slots, 2 producers, 1 core, `"read_index"`; 397k states | `CompletionAccounting`, `StartsOnlySubmitted`, `ImplementsKernelDispatch` |
| `everything` | 3 packets of any shape (kernels, barrier bit, barrier packets with and without signal or dependency, agent dispatch) and a core management interrupt; 1.2M states | `OneRequestPerEngine`, `BarrierWaits`, `CountNeverAhead` |
| `interrupt_delivery` | 1 core, its lane, the transfer lane and the doorbell, exceptions; 91k states | `TypeOK`, `OnePlace`, `HandlerMatches`, refinement `ImplementsDelivery`, liveness `OnlyLowerLanesDelay` |
| `accelerator` | 2 launches of any of 40 tasks, bursts of at most 4 bytes, 4-bit sizes, errors of the datamover at any point; 99k states | `TypeOK`, `LanesExclusive`, `BurstsCoverImage`, `PeConfigured`, refinement `ImplementsService`, liveness `EveryLaunchAnswered` |
| `firmware_support` | 4-bit words, all pairs; 8-bit double words, 30 boundary values each way; on each processor every emulated access with 5 registers, 7 offsets, 5 memories, in and out of a delay slot; 2 allocations, 2 interrupts; 139k states | `TypeOK`, `LoopInvariant`, `ReturnsExpected`, `RegistersPreserved`, `ResumesAfterAccess`, `HeapDisjoint`, liveness `EveryCallEnds` |

Bounds, and why they are enough. A window of 2 with 3 packets makes kernels
compete for slots, reuse a slot and finish out of order on 2 cores; with more
cores than slots no launch would ever wait. The queues wrap, as W is also their
size. In `wrap` 5 packets go once round a queue of 4 and reuse the first slot,
which is the case `StartsOnlySubmitted` is about; 2 producers let a doorbell
arrive late. The slots of the AQL queue never limit `kernels` (Q > N), so that
the firmware alone is what is checked. Three lanes of the interrupt controller
are enough for two requests to compete and a doorbell to fall into a reset.
In `accelerator` bursts of 4 make images of 0, 4, 9 and 18 bytes, the last of
which overflows 4 bits to 2, take every path to a last burst: none, one full,
several with a rest, one short; two launches let the second task find what the
first left in the processing element's registers, for every pair of tasks. In
`firmware_support` 4 bits are the least width with all cases of the double word
division (leading zeros, powers of two, shifts on both sides of the width); the
program, with 32 bits, was not checked at that width. Addresses are cut to
2^17.
The theorems of section 5 hold for every value of the constants they are about.

`kernels` and `wrap` check deadlock: the system never stops, as the main loop
always has a step. `everything` and the violation runs do not, because
busy waits and the corrupted window stop it.

`StartsOnlySubmitted` holds for one core. With two cores, out-of-order
completion makes READ_INDEX pass a packet still running; a producer that goes by
READ_INDEX then overwrites it, and the property fails. That is the consequence
of the finding `read_index`.

Fairness. `PacketProcessor`: weak fairness of the main loop (it runs whenever no
handler does), of each handler (interrupts are enabled again and again and the
hardware keeps them pending), of the TPC's and cores' handlers (they do nothing
else), and of a producer's remaining steps; none of `Claim`, the host need not
submit. The TPC's are fair only to requests it has not passed over, and it may
pass over one whenever two are pending: `EveryDispatchEnds` says that a slot in
use is given back, unless the DMA request was passed over or, for a slot at its
decrement, that request. That is the only way a dispatch can hang; that it does
happen is `tpc_lost`. `TpcEcho` and the admin handlers need no fairness. Weak fairness of the
handlers stands for an arbiter that serves every lane; `OnlyLowerLanesDelay`
shows what the arbiter does give: a lane is passed over for ever only if lower
lanes keep requesting, which cores, with one computation per launch, cannot.
`InterruptController`: the clock runs, the firmware is not for ever in disabled
sections, and handlers return. `RomAccelerator`: the core runs `main` and its
handlers, the packet processor serves its interrupt, state machines are clocked
and the vendor's datamover ends what it is given unless it fails; launches and
errors need not happen. `FirmwareSupport`: a core goes on executing; interrupts
need not come.

## 4. Findings

Each is a run that TLC finds violated; the property is a statement of the code's
own comments.

* **lost_wakeup** (`packet_processor.c:170`): between the comparison with
  WRITE_INDEX and the clearing of AQL_LEFT a producer claims, writes and rings;
  its doorbell is wiped out. The controller protects the doorbell against a
  reset in the *same* cycle (`interrupt_controller.vhd:163`), not against one
  that the firmware decided on earlier.
* **read_index** (`packet_processor.c:318`): READ_INDEX counts completions in
  any order, and is "the last completed" only when kernels finish in order.
* **barrier_bit** (`packet_processor.c:66`): the busy wait keeps the main loop
  from starting what it waits for; under fairness it never ends.
* **barrier_signal** (`packet_processor.c:125`): a barrier packet's decrement
  is queued under its AQL index and released as a window slot; a slot in use
  lands on the stack of free slots.
* **tpc_lost** (`fpga_cmd_processor/sw/core/src/exception_handler.c:370`): two
  lanes pending match no case of the switch; the eret acknowledges both and the
  coprocessor removes the bit it was triggered by, so one request is never
  answered.
* **ack_by_exception** (`packet_processor_top.vhd:664`): a memory exception in
  the cycle in which an interrupt is presented: the exception's eret
  acknowledges it. Needs a core built with memory exceptions, as
  `tb_packet_processor_top.vhd` builds it; with the default generics it cannot
  happen.

Defects met while modelling that have no run of their own. The properties
are restricted around them, and say so, or there is none:

* `READ_INDEX` may lose a count between a barrier packet's load and store
  (`packet_processor.c:132`); `CountNeverAhead` says it only ever falls behind.
* A failed transfer leaves the rom accelerator waiting for ever
  (`rom_accel_cmd_processor/sw/core0/src/main.c:270`): ERROR is left by reset
  only and `int_error` is not read. `EveryLaunchAnswered` excludes the error.
* The image's size is a 32-bit product (`main.c:248`); what overflows is
  transferred in part and answered. `AcceleratorService` excludes it.
* `SOBELY5x5` gets the x mask (`main.c:130`). `PeConfigured` leaves it out.
* Emulated accesses (`exception_handler.c`, all copies; lines of the packet
  processor's). LBU and LHU shift the mask back and not the word (118, 214),
  against "load byte unsigned" (91); LH tests the decimal `8000` (166), against
  "sign extend halfword" (165); SB and SH clear the whole word, as `!` is not
  `~` (257, 308), against "merge byte into the loaded word" (259), and do not
  extend a negative offset (241). The frame of the 64-bit processors is indexed
  as if of 32-bit registers, so that on the packet processor a load changes half
  of register rt / 2 and not the register it names; a base or target beyond the
  saved registers is read from, or written to, the handler's own frame. The TPC
  halts after any emulated access (its outer switch has no such case).
  `SubwordAccess` models all of it, and no property is about the values: that
  `firmware_support` passes says which words of registers an access touches and
  where the program goes on, not that it does what the instruction does. The
  emulation cannot be reached with the default generics.
* `sbrk` preempted between its load and its store gives two callers one block
  (`system.c:29`); `HeapDisjoint` says that nothing else does.

The models of the other runs do not assume the findings away: the lost wakeup,
the order of READ_INDEX and what the TPC passes over happen in all runs of
`PacketProcessor`. `kernels` and `wrap` submit no packets with barrier bit and
no barrier packets; `everything` submits both.

## 5. The proofs

All are checked by TLAPS from the named assumptions of the modules only, which
give the ranges of the constants: `WindowAssumption`,
`PacketProcessorAssumption`, `DatamoverAssumption`, `WordAssumption`,
`RomAssumption`, `ControllerAssumption`, `AddressSpaceAssumption`,
`ExceptionAssumption`, `WordBits` (a word has an even number of bits, at least
4) and `ArgumentsAreWords` (what the routines are called with are words). TLC evaluates them in the runs. Every invariant that
strengthens a property was itself an invariant of a TLC run before it was
proved.

### Packet processor

**Types and engine handshakes** (`PacketProcessorProofs`: `TypeSafety`,
`TypeCorrect`): for every window, number of cores, queue, host policy and mix of
packets, barrier packets included. `TypeOK` is not inductive: `interrupt_transfer`
uses `current_dma_packet_id` as an index, so that it must name a slot whenever
the DMA interrupt is pending, which is `OneRequestPerEngine`; `DispatchKernel`
reads `free_slots[remaining_dispatch_slots - 1]`, which its guard keeps in range
(`SlotAvailable`); and the handler invalidates `aql[kp]`, so that slots in flight
must have a packet (`InFlightNamed`, which also says that the queues are
ordered, read counter at most write counter, so that what is between them is
in flight). `TypeInv` is `TypeOK`, `OneRequestPerEngine` and `SlotAvailable`;
the invariant is `TypeInv /\ InFlightNamed`, proved action by action.

**The window is conserved** (`PipelineProofs`): `SlotConservation` says
that the free stack, the DMA stage, the compute stage and the completion stage
partition the window. Its invariant `SlotInv` adds that read counters do not
pass write counters (`Ordered`) in the three queues. That a queue never
overflows is then a consequence, not an assumption: its entries are distinct
slots of W, by a pigeonhole argument in `PacketProcessorProofs` (an injection of
an interval of numbers into `Slots`). `WindowConserved` states it, and that the
free stack never overflows (`StackHasRoom`), up to the first barrier packet with
a completion signal, as `[](pc # "barrier_signal") => []...`: that is exactly
the case in which the code breaks it (finding `barrier_signal`).
`KernelsConserveWindow` states it without condition for a host that submits no
barrier packets (`NoBarrierPackets`).

**Counts and data** (`PipelineProofs`). `CountsBehind`: `CountNeverAhead` needs
that what a barrier packet's `++(*READ_INDEX)` has loaded is at most the index
(`LoadedBehind`), as handlers count in between. `KernelsAddUp`: with kernels
only the three quantities of `CompletionAccounting` add up, as the main loop
never goes past a packet without taking a slot (`KernelsInv`, `KernelPoints`).
`KernelsRunOnTheirData`: `DataReady` speaks of the moment of the launch and of
the store; its invariant `DataInv` says for every slot what its buffers hold at
each status, for the queued requests and the registers of the three engines whose
they are, and for a pending or finished transfer or computation what it has
left. It holds, like `SlotInv`, up to the first queued barrier signal.

**The queue and the host** (`KernelDispatchProofs`). `QueueInv` relates the AQL
queue to the counters: a packet lies in the slot of its number; what was
claimed but not written, or written and not consumed, is the newest packet of
its slot; only consumed packets have been retired; the main loop looks at the
packet of its number. `HeldInv` relates the window to the queue: a slot in use
holds a consumed packet that is still in the AQL queue, and no other slot holds
it. `ToldInv` relates both to what the host has been told. They are inductive
only if the host leaves a slot of the AQL queue free (`SpareSlot`: packet n is
retired before packet n + Q - 1 is claimed).
Without it a doorbell that arrives after the main loop has gone once round a
full queue makes the firmware start a packet that is still in flight a second
time; that this can only happen so was learned from the proof. `HostPolicy`
does not give it, so that it is a hypothesis on the behaviour, `[]SpareSlot`.

* `OnlySubmittedStarts`: `StartsOnlySubmitted`, for every host policy and number
  of cores, without signalled barrier packets (`NoSignalledBarriers`).
* `ResultThenSignal`: `ResultBeforeSignal`, without barrier packets.
* `BarriersWait`: `BarrierWaits`, without signalled barrier packets. The wait
  ended earlier (`DepSignalled`), and signals are not taken back (`Lasting`).
* `DispatchImplementsService`: the refinement of `KernelDispatch` under the
  mapping of `PacketProcessorProperties`, for kernels with or without signal and
  barrier bit (`OnlyKernels`). Every action is shown to be one step of
  `KernelDispatch` or a stutter, from `KernelInv`, the conjunction of all the
  invariants above.
* `DispatchWithoutReuse`: the same with `N < Q` in place of `[]SpareSlot`, which
  then holds by itself: a theorem of the specification as the run `kernels`
  checks it.

### Rom accelerator

`RomAcceleratorProofs`, for every set of tasks, longest burst, word size and
number of launches. `RomInv` says where firmware and transfers are with respect
to each other: one task between launch and answer (`OneTask`), one interrupt at
a time between lanes, cause register and handler (`OneInterrupt`), the start
lane consumed before the answer (`LaunchOnce`), each direction's finished lane
raised once and only after its last burst (`FinishOnce`), and what the state
machines have moved and have left (`Transfers`). From it: `OneInterruptAtATime`
(`LanesExclusive`), `BurstsCover` (`BurstsCoverImage`),
`AcceleratorImplementsService` (the refinement of `AcceleratorService`);
with what the firmware has written (`PeWritten`), `PeIsConfigured`.

### Interrupt controller

`InterruptControllerProofs`, for every number of cores and lanes. `IcInv`: the
registers a request passes are disjoint (`Apart`), the controller presents at
most one interrupt (`PresentsOne`), erets are pulses (`EretPulses`), and the
acknowledge shift register knows who caused the eret (`AckMatches`), with
exceptions taken or not. From it: `TypeCorrect`, `RequestInOnePlace`
(`OnePlace`), `HandlerRunsForPresented` (`HandlerMatches`), and
`ControllerImplementsDelivery`, the refinement of `InterruptDelivery` cycle by
cycle. `AckOfInterrupt` is what finding `ack_by_exception` breaks, for a core
without memory exceptions.

### Programs, exceptions and the heap

`FirmwareSupportProofs`, for every set of instructions, operand registers,
offset, memory, frame, number of interrupts and of allocations. `HeapInv` bounds
every block by what `sbrk` returns next, which inside a program's call is what it
has loaded; from it `HeapIsDisjoint`. `ProgramInv` says where the program goes
on (`Addresses`), that memory holds words (`Memory`), and which words of
registers are in the file and which in the handler's frame (`Registered`); an
emulated access enters through `Emulation`: it writes one word of the frame or
one of memory, and the word of the frame is word rt. From it:
`ProgramsAreTyped`, `RegistersArePreserved` (every word of every register, but
the one a load writes, `LoadTarget`: on the packet processor not the one it
names) and `ResumesAfterIt`.

### The integer routines

For every width W of a word and all arguments, words and double words:
`LoopsKeepTheResult` (`LoopInvariant`), `RoutinesCompute` (`ReturnsExpected`)
and, with `ProgramsAreTyped`, `TypeCorrect` (`FirmwareSupport`'s `TypeOK`).

*Powers of two* (`SoftDivisionProofs`). The provers know none but constant ones.
Everything follows from `PowSucc`, 2^(n+1) = 2 * 2^n, which is proved by counting
the subsets of 1 .. n + 1 (the library's `FS_SUBSET`). Induction goes over a set
of numbers (`SetInduction`, from the least element of its complement) instead of
an operator, which the provers cannot instantiate.

*Functions.* `SoftArithmetic` gives a whole call as a recursive function, which
is some function that satisfies its equation if there is one. `MeasuredRecursion`
says that there is one for a loop whose measure falls; with it the loops are
unfolded, and what an invariant says at the end of a loop is the value of the
function: `UDivSiValue`, `UModSiValue`, `UDivModDiValue`, `MulSiValue`,
`MulDiValue`, `DivSiValue`, `DivDiValue`.

*Division.* `DivInv` is the clause of `LoopInvariant` and one more, without which
it is not inductive: the code compares remainder and divisor by the sign of a
difference modulo 2^w, which is right only while the difference is in the signed
range. It is, because the loop is entered with a divisor above half the range
only if the dividend is above it as well and one iteration is left. `DivStart`
and `DivEntry` show that the shift by the difference of leading zeros gives that.
`ModInv` says that the shifted divisor is the divisor times the power of two in
`qbit`, so that halving it is exact until `qbit` is 0.

*Double words.* `__udivmoddi4` computes its registers half by half, in seven cases.
`HalvesShifted`, `ShortShift` and `LongShift` show that the halves make the shift
of the whole, `ClzDouble` that leading zeros do; every case then satisfies
`DivInv` or returns quotient and remainder (`UDivModDiEntryCases`). The result of
a shift by the whole width, undefined in C, is a parameter that drops out.

*Multiplication.* `__muldsi3` adds four products of half words, whose carries do
not overflow (`HalfProduct`, `CarriedProduct`); `__muldi3` calls `__mulsi3` on
halves that the compiler extends by their sign, which adds multiples of the
word's range to the high half only (`CrossedProduct`).

*Calls* (`SupportRoutinesProofs`). `RoutineInv` says which routine is called with
which width, that the registers satisfy the invariant of its loop, and that what
is returned is expected; every action keeps it (`RoutineStep`).

### Only model-checked

* The liveness properties and the liveness finding: TLAPS does no fairness here.
* `StartsOnlySubmitted`, `ImplementsKernelDispatch` and `ResultBeforeSignal`
  without a spare slot: the run `wrap` checks them for one core and a host that
  goes by READ_INDEX. `BarrierWaits` with signalled barrier packets, in
  `everything`.

## 6. Not modelled, and why

* Payload, addresses, sizes and colour models; the fence scopes of packets,
  which the firmware ignores; the fields of a packet no branch looks at.
* `malloc` and `free`: the allocator is library code. It is called from the main
  loop and from handlers without a lock; `sbrk` below it is modelled.
* Reset and TP_HALT: initial state. The TPC starts the PP once and never stops
  it.
* The filter loops of `accel_cmd_processor` and the processing element: what a
  kernel computes; the element's source is not in the repository.
* The MIPS cores (vendored): their pipeline; an instruction is a step.
* External memory interfaces, memory controllers, routers and AXI engines: they
  make an access of the firmware take many cycles, in which its core stalls,
  so that a step of the models stands for it. Their correctness is that of the
  pipeline's stall logic, in the vendored cores. That a write has arrived when
  an interrupt sent after it is taken is an assumption of all models.
* Coprocessor accessors, start of `startup.s`, address converter, wiring: no
  state of interest.
* Host tools (`src/tools`): sequential converters of simulation inputs; text in,
  text out.

## 7. Plan

Done: the packet processor with its abstract specification, runs and findings;
the interrupt paths; the rom accelerator with its datamover; exception handlers
and support routines.

Theorems of every component: types, every invariant a run checks, and the three
refinements.

Theorems next: for one core and one producer, that kernels are retired in the
order of their numbers, which gives `StartsOnlySubmitted` and the refinement for
a host that goes by READ_INDEX without the hypothesis `SpareSlot`, when W < Q.

Modules that could follow: `ExternalMemoryInterface` with the AXI engines as its
environment, implementing a memory that answers each access once.
