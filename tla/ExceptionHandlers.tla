------------------------- MODULE ExceptionHandlers -------------------------
(***************************************************************************)
(* Exceptions and interrupts of the four processors: what _exception_      *)
(* handler saves and restores, which handler an interrupt code selects,    *)
(* where the program goes on, and what happens to a program that is in the *)
(* middle of sbrk.  The program executes one instruction the core lacks,   *)
(* or calls sbrk.                                                          *)
(*                                                                         *)
(* "pp" is the packet processor and "tpc" the fpga command processor, of   *)
(* 64-bit registers; "acp" and "racp" are the accelerators' processors.    *)
(***************************************************************************)
EXTENDS SubwordAccess, TLC

CONSTANTS
  Instructions,     \* bound: unimplemented instructions the program may execute
  Interruptible,    \* bound: the ones an interrupt may precede
  InterruptCodes,   \* bound: interrupt fields of the cause register
  Memories,         \* bound: contents of the memory
  BaseWord,         \* the word in the base register
  FrameWords,       \* bound: words of the handler's own frame
  MaxAllocations,   \* bound: calls of sbrk by the program
  MaxInterrupts     \* bound

\* the fields of an instruction that a core without subword accesses traps on
Offsets == 0 .. 2^16 - 1
Operations == [op : Loads \union Stores \union {"other"}, base : 0 .. 31, rt : 0 .. 31,
               offset : Offsets, delay_slot : BOOLEAN]

ASSUME ExceptionAssumption ==
  /\ Instructions \subseteq Operations
  /\ BaseWord \in Word4 /\ FrameWords \subseteq Word4
  /\ \A m \in Memories : \A address \in DOMAIN m : address % 4 = 0 /\ m[address] \in Word4

VARIABLES
  proc,        \* the processor
  op,          \* what the program executes: an instruction, or SbrkCall
  step,        \* "run", "sbrk", "exception", "interrupt", "serve",
               \* "leave", "done", "halted"
  back,        \* step to go on with after the handler
  pc, epc,     \* addresses of the program
  gpr,         \* the program's registers, each a sequence of words
  stack,       \* reg_stack, when a handler runs
  mem,         \* memory
  before,      \* history: the registers at the start
  interrupts,  \* interrupts taken
  handler,     \* the interrupt handler selected last, or "none"
  heap_end,    \* of sbrk, in units of allocations
  prev_heap_end,
  blocks       \* history: what sbrk returned, and to whom

ehVars == <<proc, op, step, back, pc, epc, gpr, stack, mem, before, interrupts, handler,
            heap_end, prev_heap_end, blocks>>
heapVars == <<heap_end, prev_heap_end, blocks>>

SbrkCall == [op |-> "sbrk"]
Processors == {"pp", "tpc", "acp", "racp"}
Here == 100        \* address of the instruction
Target == 200      \* address after it when it is in the delay slot of a branch

\* $zero to $t9 are saved; of the others the handlers use $k0 and $k1
Registers == 0 .. 31
Saved == 0 .. 25
Kernel == {26, 27}

-----------------------------------------------------------------------------
(* The frame.  A register of the packet processor and of the TPC is two     *)
(* words.  Beyond the frame of the accelerators' processors lies the frame  *)
(* of the C function itself.                                                *)

Wide(p) == p \in {"pp", "tpc"}
RegisterWords(p) == IF Wide(p) THEN 1 .. 2 ELSE 1 .. 1

SaveWide(registers) == [i \in 1 .. 52 |-> registers[(i - 1) \div 2][1 + ((i - 1) % 2)]]

SaveNarrow(registers, beyond) ==
  [i \in 1 .. 32 |-> IF i <= 26 THEN registers[i - 1][1] ELSE beyond]

\* MUTANT of RestoreWide: lw where ld is meant
RestoreLow(registers, words) ==
  [r \in Registers |->
     IF r \in Saved \ {0} THEN <<words[(2 * r) + 1]>> ELSE registers[r]]

\* MUTANT of RestoreNarrow: $t9 is not restored
RestoreWithoutT9(registers, words) ==
  [r \in Registers |-> IF r \in Saved \ {0, 25} THEN <<words[r + 1]>> ELSE registers[r]]

\* $zero is not restored
RestoreWide(registers, words) ==
  [r \in Registers |->
     IF r \in Saved \ {0} THEN <<words[2 * r + 1], words[2 * r + 2]>> ELSE registers[r]]

RestoreNarrow(registers, words) ==
  [r \in Registers |-> IF r \in Saved \ {0} THEN <<words[r + 1]>> ELSE registers[r]]

Save(beyond) == IF Wide(proc) THEN SaveWide(gpr) ELSE SaveNarrow(gpr, beyond)

\* what the handlers leave in the registers they use
Scratch(words) == [w \in words |-> <<170, 170, 170, 170>>]
Clobbered ==
  [r \in Registers |->
     IF r \in (Saved \ {0}) \union Kernel THEN Scratch(RegisterWords(proc)) ELSE gpr[r]]

\* a program starts: its base register holds BaseWord
InitialWord(i, r) ==
  IF r = 0 THEN Empty
  ELSE IF i # SbrkCall /\ r = i.base THEN BaseWord
  ELSE <<r, 64, 128, 255>>

ehInit ==
  /\ proc \in Processors
  /\ op \in Instructions \union (IF proc = "pp" THEN {SbrkCall} ELSE {})
  /\ mem \in Memories
  /\ gpr = [r \in Registers |-> [w \in RegisterWords(proc) |-> InitialWord(op, r)]]
  /\ before = gpr
  /\ step = "run" /\ back = "run"
  /\ pc = Here /\ epc = 0 /\ stack = << >>
  /\ interrupts = 0 /\ handler = "none"
  /\ heap_end = 0 /\ prev_heap_end = 0 /\ blocks = << >>

-----------------------------------------------------------------------------
(* The program.                                                             *)

\* the coprocessor's registers when the core meets a reserved instruction:
\* in a delay slot the exception returns to where the branch goes
Trap ==
  /\ step = "run" /\ op # SbrkCall
  /\ epc' = IF op.delay_slot THEN Target ELSE Here
  /\ \E beyond \in FrameWords : stack' = Save(beyond)
  /\ gpr' = Clobbered
  /\ step' = "exception"
  /\ UNCHANGED <<proc, op, back, pc, mem, before, interrupts, handler, heapVars>>

\* sbrk: load heap_end ...
SbrkRead ==
  /\ op = SbrkCall /\ step = "run"
  /\ prev_heap_end' = heap_end
  /\ step' = "sbrk"
  /\ UNCHANGED <<proc, op, back, pc, epc, gpr, stack, mem, before, interrupts, handler, heap_end, blocks>>

\* MUTANT of SbrkWrite: the store is missing
SbrkForget ==
  /\ step = "sbrk"
  /\ blocks' = Append(blocks, [start |-> prev_heap_end, owner |-> "program"])
  /\ step' = IF Len(SelectSeq(blocks', LAMBDA blk : blk.owner = "program")) = MaxAllocations
             THEN "done" ELSE "run"
  /\ UNCHANGED <<proc, op, back, pc, epc, gpr, stack, mem, before, interrupts, handler,
                 prev_heap_end, heap_end>>

\* ... and store it, with no limit to what it may reach
SbrkWrite ==
  /\ step = "sbrk"
  /\ heap_end' = prev_heap_end + 1
  /\ blocks' = Append(blocks, [start |-> prev_heap_end, owner |-> "program"])
  /\ step' = IF Len(SelectSeq(blocks', LAMBDA blk : blk.owner = "program")) = MaxAllocations
             THEN "done" ELSE "run"
  /\ UNCHANGED <<proc, op, back, pc, epc, gpr, stack, mem, before, interrupts, handler, prev_heap_end>>

Program == Trap \/ SbrkRead \/ SbrkWrite

-----------------------------------------------------------------------------
(* The handlers.                                                            *)

Interrupt ==
  /\ step \in {"run", "sbrk"} /\ interrupts < MaxInterrupts
  /\ op = SbrkCall \/ op \in Interruptible
  /\ interrupts' = interrupts + 1
  /\ back' = step
  /\ epc' = pc
  /\ \E beyond \in FrameWords : stack' = Save(beyond)
  /\ gpr' = Clobbered
  /\ step' = "interrupt"
  /\ UNCHANGED <<proc, op, pc, mem, before, handler, heapVars>>

\* MUTANT of ReservedInstruction: the return address is advanced in a delay slot too
ReservedInstructionTwice(next) ==
  LET after == Emulated(stack, mem, op) IN
  /\ step = "exception"
  /\ stack' = after.stack /\ mem' = after.mem
  /\ epc' = IF op.op \in Loads \union Stores THEN epc + 4 ELSE epc
  /\ step' = next /\ back' = "done"
  /\ UNCHANGED <<proc, op, pc, gpr, before, interrupts, handler, heapVars>>

\* MUTANT of ReservedInstruction: the return address is not advanced
ReservedInstructionAgain(next) ==
  LET after == Emulated(stack, mem, op) IN
  /\ step = "exception"
  /\ stack' = after.stack /\ mem' = after.mem
  /\ step' = next /\ back' = "done"
  /\ UNCHANGED <<proc, op, pc, epc, gpr, before, interrupts, handler, heapVars>>

\* reserved_instruction_exception, then the outer switch
ReservedInstruction(next) ==
  LET after == Emulated(stack, mem, op) IN
  /\ step = "exception"
  /\ stack' = after.stack /\ mem' = after.mem
  /\ epc' = IF op.op \in Loads \union Stores /\ ~op.delay_slot THEN epc + 4 ELSE epc
  /\ step' = next /\ back' = "done"
  /\ UNCHANGED <<proc, op, pc, gpr, before, interrupts, handler, heapVars>>

PpReservedInstruction == proc = "pp" /\ ReservedInstruction("leave")

\* the outer switch has no case for it either: the default jumps to _halt
TpcReservedInstruction == proc = "tpc" /\ ReservedInstruction("halted")

AcpReservedInstruction == proc = "acp" /\ ReservedInstruction("leave")

RacpReservedInstruction == proc = "racp" /\ ReservedInstruction("leave")

\* a handler runs when exactly its bit of the cause register is set
Dispatch(handlers) ==
  /\ step = "interrupt"
  /\ \E code \in InterruptCodes :
       handler' = IF code \in DOMAIN handlers THEN handlers[code] ELSE "none"
  /\ step' = "serve"
  /\ UNCHANGED <<proc, op, back, pc, epc, gpr, stack, mem, before, interrupts, heapVars>>

PpInterrupt ==
  /\ proc = "pp"
  /\ Dispatch(32 :> "interrupt_kernel" @@ 16 :> "interrupt_transfer"
              @@ 8 :> "interrupt_completion" @@ 4 :> "interrupt_add_core"
              @@ 2 :> "interrupt_remove_core")

TpcInterrupt ==
  /\ proc = "tpc"
  /\ Dispatch(32 :> "interrupt_transfer" @@ 16 :> "interrupt_completion"
              @@ 8 :> "interrupt_added_core" @@ 4 :> "interrupt_removed_core")

AcpInterrupt == proc = "acp" /\ Dispatch(32 :> "handle_interrupt_from_packetprocessor")

RacpInterrupt ==
  /\ proc = "racp"
  /\ Dispatch(32 :> "handle_interrupt_from_packetprocessor"
              @@ 16 :> "handle_interrupt_from_datamover")

\* the handler's body, of which only its memory matters here: the malloc of the
\* packet processor's interrupt_transfer may need more and call sbrk
Serve ==
  /\ step = "serve"
  /\ \/ UNCHANGED heapVars
     \/ /\ proc = "pp" /\ handler = "interrupt_transfer"
        /\ heap_end' = heap_end + 1
        /\ blocks' = Append(blocks, [start |-> heap_end,
                       owner |-> IF back = "sbrk" THEN "preempting" ELSE "handler"])
        /\ UNCHANGED prev_heap_end
  /\ step' = "leave"
  /\ UNCHANGED <<proc, op, back, pc, epc, gpr, stack, mem, before, interrupts, handler>>

\* the registers are restored and eret takes the program up again
Leave(registers) ==
  /\ step = "leave"
  /\ gpr' = registers
  /\ pc' = epc
  /\ step' = IF back = "done" /\ epc = Here THEN "run" ELSE back
  /\ back' = "run" /\ stack' = << >>
  /\ UNCHANGED <<proc, op, epc, mem, before, interrupts, handler, heapVars>>

LeaveWide == Wide(proc) /\ Leave(RestoreWide(gpr, stack))
LeaveNarrow == ~Wide(proc) /\ Leave(RestoreNarrow(gpr, stack))

Handlers ==
  \/ PpReservedInstruction \/ TpcReservedInstruction
  \/ AcpReservedInstruction \/ RacpReservedInstruction
  \/ PpInterrupt \/ TpcInterrupt \/ AcpInterrupt \/ RacpInterrupt
  \/ Serve \/ LeaveWide \/ LeaveNarrow

ehNext == Program \/ Interrupt \/ Handlers
=============================================================================
