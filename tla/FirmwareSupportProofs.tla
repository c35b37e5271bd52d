------------------------ MODULE FirmwareSupportProofs ------------------------
(* Programs and their exceptions and interrupts, for every set of           *)
(* instructions the cores may lack, every content of the memory and of the  *)
(* handlers' frames, every number of interrupts and of allocations; and the *)
(* calls of the integer routines, for every width of a word.                *)
EXTENDS FirmwareSupport, SupportRoutinesProofs

\* the steps of a program with its handlers
LEMMA StepCases ==
  ASSUME [Next]_vars
  PROVE  \/ UNCHANGED ehVars
         \/ Trap \/ SbrkRead \/ SbrkWrite \/ Interrupt
         \/ \E next : ReservedInstruction(next) /\ next = IF proc = "tpc" THEN "halted" ELSE "leave"
         \/ \E handlers : Dispatch(handlers)
         \/ Serve
         \/ Wide(proc) /\ Leave(RestoreWide(gpr, stack))
         \/ ~Wide(proc) /\ Leave(RestoreNarrow(gpr, stack))
BY DEF Next, Program, Handlers, PpReservedInstruction, TpcReservedInstruction,
       AcpReservedInstruction, RacpReservedInstruction, PpInterrupt, TpcInterrupt, AcpInterrupt,
       RacpInterrupt, LeaveWide, LeaveNarrow, vars

\* Every behaviour starts with a program or without one.
LEMMA InitCases ==
  ASSUME Init
  PROVE  ehInit \/ ehIdle
BY DEF Init

-----------------------------------------------------------------------------
(* The heap.                                                                *)

\* the program is inside sbrk: itself, or under a handler
InSbrk == step = "sbrk" \/ (step \in {"interrupt", "serve", "leave"} /\ back = "sbrk")

Block == [start : Nat, owner : {"program", "handler", "preempting"}]

\* what sbrk returned is below what it returns next, unless a handler called it
\* inside the program's call
HeapBelow ==
  /\ back \in {"run", "sbrk", "done"}
  /\ step \in {"interrupt", "serve"} => back \in {"run", "sbrk"}
  /\ step \in {"run", "sbrk", "exception"} => back = "run"
  /\ heap_end \in Nat /\ prev_heap_end \in Nat
  /\ InSbrk => prev_heap_end <= heap_end
  /\ blocks \in Seq(Block)
  /\ \A i \in DOMAIN blocks :
       blocks[i].owner # "preempting" =>
         blocks[i].start < IF InSbrk THEN prev_heap_end ELSE heap_end

HeapInv == HeapBelow /\ HeapDisjoint

LEMMA HeapInit == Init => HeapInv
<1> SUFFICES ASSUME Init PROVE HeapInv
  OBVIOUS
<1>1. /\ step \in {"run", "done"} /\ back = "run" /\ blocks = << >>
      /\ heap_end = 0 /\ prev_heap_end = 0
  BY InitCases DEF ehInit, ehIdle
<1>2. QED
  BY <1>1 DEF HeapInv, HeapBelow, HeapDisjoint, InSbrk

\* A block is appended that starts where no block does but those a handler got
\* inside the program's call.
LEMMA BlockAdded ==
  ASSUME HeapInv, NEW o \in {"program", "handler", "preempting"}, NEW x \in Nat, NEW e \in Nat,
         blocks' = Append(blocks, [start |-> x, owner |-> o]),
         e >= IF InSbrk THEN prev_heap_end ELSE heap_end,
         o # "preempting" => e > x,
         \A i \in DOMAIN blocks :
           blocks[i].start = x => "preempting" \in {blocks[i].owner, o}
  PROVE  /\ blocks' \in Seq(Block)
         /\ \A i \in DOMAIN blocks' : blocks'[i].owner # "preempting" => blocks'[i].start < e
         /\ HeapDisjoint'
<1> DEFINE n == Len(blocks)
           new == [start |-> x, owner |-> o]
<1>1. /\ blocks \in Seq(Block) /\ new \in Block
      /\ \A i \in DOMAIN blocks : blocks[i].start \in Nat
  <2>1. blocks \in Seq(Block)
    BY DEF HeapInv, HeapBelow
  <2>2. \A i \in DOMAIN blocks : blocks[i] \in Block
    BY <2>1
  <2>3. QED
    BY <2>1, <2>2 DEF Block
<1>2. /\ n \in Nat /\ DOMAIN blocks = 1 .. n /\ DOMAIN blocks' = 1 .. n + 1
      /\ blocks'[n + 1] = new /\ \A i \in 1 .. n : blocks'[i] = blocks[i]
      /\ blocks' \in Seq(Block)
  BY <1>1
<1> HIDE DEF n
<1>3. ASSUME NEW i \in DOMAIN blocks', blocks'[i].owner # "preempting" PROVE blocks'[i].start < e
  <2>1. CASE i = n + 1
    BY <1>2, <1>3, <2>1
  <2>2. CASE i \in 1 .. n
    <3>1. blocks[i].start < IF InSbrk THEN prev_heap_end ELSE heap_end
      BY <1>2, <1>3, <2>2 DEF HeapInv, HeapBelow
    <3>2. blocks[i].start \in Nat
      BY <1>1, <1>2, <2>2
    <3>3. QED
      BY <1>2, <2>2, <3>1, <3>2 DEF HeapInv, HeapBelow
  <2>3. QED
    BY <1>2, <1>3, <2>1, <2>2
<1>4. HeapDisjoint'
  <2> SUFFICES ASSUME NEW i \in DOMAIN blocks', NEW j \in DOMAIN blocks', i # j,
                      blocks'[i].start = blocks'[j].start
               PROVE  "preempting" \in {blocks'[i].owner, blocks'[j].owner}
    BY DEF HeapDisjoint
  <2>1. CASE i \in 1 .. n /\ j \in 1 .. n
    BY <1>2, <2>1 DEF HeapInv, HeapDisjoint
  <2>2. CASE i = n + 1 /\ j \in 1 .. n
    BY <1>2, <2>2
  <2>3. CASE i \in 1 .. n /\ j = n + 1
    BY <1>2, <2>3
  <2>4. QED
    BY <1>2, <2>1, <2>2, <2>3
<1>5. QED
  BY <1>2, <1>3, <1>4

LEMMA HeapStep ==
  ASSUME HeapInv, [Next]_vars
  PROVE  HeapInv'
<1>0. /\ back \in {"run", "sbrk", "done"}
      /\ heap_end \in Nat /\ prev_heap_end \in Nat /\ (InSbrk => prev_heap_end <= heap_end)
      /\ step \in {"run", "sbrk", "exception"} => back = "run"
      /\ step \in {"interrupt", "serve"} => back \in {"run", "sbrk"}
  BY DEF HeapInv, HeapBelow
<1>1. ASSUME UNCHANGED heapVars, InSbrk' <=> InSbrk,
             step' \in {"interrupt", "serve"} => back' \in {"run", "sbrk"},
             step' \in {"run", "sbrk", "exception"} => back' = "run",
             back' \in {"run", "sbrk", "done"}
      PROVE  HeapInv'
  BY <1>1 DEF HeapInv, HeapBelow, HeapDisjoint, heapVars
<1>2. CASE UNCHANGED ehVars
  BY <1>2 DEF HeapInv, HeapBelow, HeapDisjoint, InSbrk, ehVars
<1>3. CASE Trap \/ Interrupt
  BY <1>0, <1>1, <1>3 DEF Trap, Interrupt, InSbrk
<1>4. CASE SbrkRead
  <2>1. /\ prev_heap_end' = heap_end /\ UNCHANGED <<heap_end, blocks, back>>
        /\ step = "run" /\ step' = "sbrk" /\ back = "run"
    BY <1>0, <1>4 DEF SbrkRead
  <2>2. ~InSbrk /\ InSbrk'
    BY <2>1 DEF InSbrk
  <2>3. QED
    BY <1>0, <2>1, <2>2 DEF HeapInv, HeapBelow, HeapDisjoint
<1>5. CASE SbrkWrite
  <2>1. /\ heap_end' = prev_heap_end + 1 /\ step = "sbrk" /\ InSbrk
        /\ blocks' = Append(blocks, [start |-> prev_heap_end, owner |-> "program"])
        /\ UNCHANGED <<prev_heap_end, back>> /\ step' \in {"run", "done"} /\ back = "run"
    BY <1>0, <1>5 DEF SbrkWrite, InSbrk
  <2>2. /\ \A i \in DOMAIN blocks :
             blocks[i].start = prev_heap_end => "preempting" \in {blocks[i].owner, "program"}
        /\ heap_end' \in Nat /\ heap_end' > prev_heap_end
        /\ heap_end' >= IF InSbrk THEN prev_heap_end ELSE heap_end
    BY <1>0, <2>1 DEF HeapInv, HeapBelow
  <2>3. /\ blocks' \in Seq(Block)
        /\ \A i \in DOMAIN blocks' : blocks'[i].owner # "preempting" => blocks'[i].start < heap_end'
        /\ HeapDisjoint'
    BY <1>0, <2>1, <2>2, BlockAdded
  <2>4. ~InSbrk'
    BY <2>1 DEF InSbrk
  <2>5. QED
    BY <1>0, <2>1, <2>3, <2>4 DEF HeapInv, HeapBelow
<1>6. CASE Serve
  <2>0. /\ step = "serve" /\ step' = "leave" /\ back' = back /\ (InSbrk' <=> InSbrk)
        /\ back \in {"run", "sbrk"} /\ (InSbrk <=> back = "sbrk")
    BY <1>0, <1>6 DEF Serve, InSbrk
  <2>1. CASE UNCHANGED heapVars
    BY <1>1, <2>0, <2>1
  <2> PICK o \in {"handler", "preempting"} : o = IF back = "sbrk" THEN "preempting" ELSE "handler"
    OBVIOUS
  <2>2. CASE /\ heap_end' = heap_end + 1 /\ prev_heap_end' = prev_heap_end
             /\ blocks' = Append(blocks, [start |-> heap_end, owner |-> o])
    <3>1. PICK e \in Nat : e = IF InSbrk THEN prev_heap_end ELSE heap_end + 1
      BY <1>0
    <3>2. e >= (IF InSbrk THEN prev_heap_end ELSE heap_end) /\ (o # "preempting" => e > heap_end)
      BY <1>0, <2>0, <3>1
    <3>3. \A i \in DOMAIN blocks : blocks[i].start = heap_end => "preempting" \in {blocks[i].owner, o}
      BY <1>0, <2>0 DEF HeapInv, HeapBelow
    <3>4. /\ blocks' \in Seq(Block)
          /\ \A i \in DOMAIN blocks' : blocks'[i].owner # "preempting" => blocks'[i].start < e
          /\ HeapDisjoint'
      BY <1>0, <2>2, <3>2, <3>3, BlockAdded
    <3>5. QED
      BY <1>0, <2>0, <2>2, <3>1, <3>4 DEF HeapInv, HeapBelow
  <2>3. QED
    BY <1>6, <2>1, <2>2 DEF Serve
<1>7. ASSUME NEW handlers, Dispatch(handlers) PROVE HeapInv'
  BY <1>0, <1>1, <1>7 DEF Dispatch, InSbrk
<1>8. ASSUME NEW next \in {"leave", "halted"}, ReservedInstruction(next) PROVE HeapInv'
  BY <1>0, <1>1, <1>8 DEF ReservedInstruction, InSbrk
<1>9. ASSUME NEW registers, Leave(registers) PROVE HeapInv'
  <2>1. /\ UNCHANGED heapVars /\ step = "leave" /\ back' = "run"
        /\ step' = IF back = "done" /\ epc = Here THEN "run" ELSE back
    BY <1>9 DEF Leave
  <2>2. InSbrk' <=> InSbrk
    BY <2>1 DEF InSbrk
  <2>3. step' # "exception" /\ step' \notin {"interrupt", "serve"}
    BY <1>0, <2>1
  <2>4. QED
    BY <1>1, <2>1, <2>2, <2>3
<1>10. QED
  BY <1>2, <1>3, <1>4, <1>5, <1>6, <1>7, <1>8, <1>9, StepCases

\* For every number of interrupts and allocations: two blocks of the heap are
\* the same memory only if one of them was allocated by a handler that preempted
\* the program between sbrk's load and its store.
THEOREM HeapIsDisjoint == Spec => []HeapDisjoint
<1>1. HeapInv /\ [Next]_vars => HeapInv'
  BY HeapStep
<1>2. HeapInv => HeapDisjoint
  BY DEF HeapInv
<1>3. QED
  BY <1>1, <1>2, HeapInit, PTL DEF Spec
-----------------------------------------------------------------------------
(* Programs that are interrupted, or execute what their core lacks.         *)

Frames == [1 .. IF Wide(proc) THEN 52 ELSE 32 -> Word4]
GprTypes == [Registers -> [RegisterWords(proc) -> Word4]]

\* the handler has done its part of an access, the registers are not yet back
Emulating == step = "leave" /\ back = "done"
InHandler == step \in {"exception", "interrupt", "serve", "leave"}

\* the frame holds word w of register r as the program left it
FrameIndex(r, w) == IF Wide(proc) THEN 2 * r + w ELSE r + w
InFrame(r, w) == stack[FrameIndex(r, w)] = before[r][w]

\* a register no handler uses
Untouched(r) == r \in Registers \ (Kernel \union (Saved \ {0}))

\* who runs, and where it goes on
Points ==
  /\ proc = "none" => step = "done" /\ op = SbrkCall /\ pc = Here
  /\ proc \in Processors \union {"none"} /\ op \in Operations \union {SbrkCall}
  /\ step \in {"run", "sbrk", "exception", "interrupt", "serve", "leave", "done", "halted"}
  /\ back \in {"run", "sbrk", "done"}
  /\ step \in {"run", "sbrk", "exception", "done"} => back = "run"
  /\ step \in {"interrupt", "serve"} => back \in {"run", "sbrk"}
  /\ step = "exception" \/ back = "done" => op # SbrkCall
  /\ step = "sbrk" \/ back = "sbrk" => op = SbrkCall
  /\ AccessDone \/ Emulating => proc # "tpc"

\* the program's address, and what the handlers make of it
Addresses ==
  /\ pc = IF ~AccessDone THEN Here ELSE IF op.delay_slot THEN Target ELSE Here + 4
  /\ step \in {"interrupt", "serve"} \/ (step = "leave" /\ back # "done") => epc = Here
  /\ step = "exception" => epc = IF op.delay_slot THEN Target ELSE Here
  /\ Emulating => epc = IF op.delay_slot THEN Target
                        ELSE IF op.op \in Loads \union Stores THEN Here + 4 ELSE Here

\* memory, all of it words
Memory == \A x \in DOMAIN mem : x % 4 = 0 /\ mem[x] \in Word4

\* the registers, in the file or in the handler's frame
Registered ==
  /\ before \in GprTypes /\ gpr \in GprTypes
  /\ InHandler => /\ stack \in Frames
                  /\ \A r : Untouched(r) => \A w \in RegisterWords(proc) : gpr[r][w] = before[r][w]
                  /\ \A r \in Saved : \A w \in RegisterWords(proc) :
                       InFrame(r, w) \/ (Emulating /\ <<r, w>> \in LoadTarget)
  /\ step \in {"run", "sbrk", "done"} =>
       \A r \in Registers \ Kernel : \A w \in RegisterWords(proc) :
         gpr[r][w] = before[r][w] \/ (AccessDone /\ <<r, w>> \in LoadTarget)

ProgramInv == Points /\ (proc # "none" => Addresses /\ Memory /\ Registered)

\* What _exception_handler saves and restores, and the emulation of an access.
LEMMA SaveFrames ==
  ASSUME proc \in Processors, before \in GprTypes, gpr \in GprTypes, NEW beyond \in Word4,
         \A r \in Registers \ Kernel : \A w \in RegisterWords(proc) : gpr[r][w] = before[r][w],
         stack' = Save(beyond), UNCHANGED <<proc, before>>
  PROVE  stack' \in Frames /\ \A r \in Saved : \A w \in RegisterWords(proc) : InFrame(r, w)'
<1>1. CASE Wide(proc)
  <2>1. /\ stack' = [i \in 1 .. 52 |-> gpr[(i - 1) \div 2][1 + ((i - 1) % 2)]]
        /\ \A r \in Registers : gpr[r] \in [1 .. 2 -> Word4]
    BY <1>1 DEF Save, SaveWide, GprTypes, RegisterWords
  <2>2. \A i \in 1 .. 52 : (i - 1) \div 2 \in Registers /\ 1 + ((i - 1) % 2) \in 1 .. 2
    BY DEF Registers
  <2>3. stack' \in [1 .. 52 -> Word4]
    BY <2>1, <2>2
  <2>4. ASSUME NEW r \in Saved, NEW w \in RegisterWords(proc) PROVE InFrame(r, w)'
    <3>1. w \in {1, 2}
      BY <1>1 DEF RegisterWords
    <3> PICK i \in 1 .. 52 : i = 2 * r + w
      <4>1. 2 * r + w \in 1 .. 52
        BY <3>1 DEF Saved
      <4>2. QED
        BY <4>1
    <3>2. (i - 1) \div 2 = r /\ 1 + ((i - 1) % 2) = w
      BY <3>1 DEF Saved
    <3>3. stack'[i] = gpr[r][w]
      BY <2>1, <3>2
    <3>4. r \in Registers \ Kernel
      BY DEF Saved, Registers, Kernel
    <3>5. QED
      BY <1>1, <3>3, <3>4 DEF InFrame, FrameIndex
  <2>5. QED
    BY <1>1, <2>3, <2>4 DEF Frames
<1>2. CASE ~Wide(proc)
  <2>1. /\ stack' = [i \in 1 .. 32 |-> IF i <= 26 THEN gpr[i - 1][1] ELSE beyond]
        /\ \A r \in Registers : gpr[r] \in [1 .. 1 -> Word4]
    BY <1>2 DEF Save, SaveNarrow, GprTypes, RegisterWords
  <2>2. \A i \in 1 .. 32 : i - 1 \in Registers
    BY DEF Registers
  <2>3. stack' \in [1 .. 32 -> Word4]
    BY <2>1, <2>2
  <2>4. ASSUME NEW r \in Saved, NEW w \in RegisterWords(proc) PROVE InFrame(r, w)'
    <3>0. w = 1
      BY <1>2 DEF RegisterWords
    <3>1. r + 1 \in 1 .. 32 /\ r + 1 <= 26 /\ r + 1 - 1 = r /\ r \in Registers \ Kernel
      BY DEF Saved, Registers, Kernel
    <3> PICK i \in 1 .. 32 : i = r + 1
      BY <3>1
    <3>2. i <= 26 /\ i - 1 = r
      BY DEF Saved
    <3>3. stack'[i] = gpr[i - 1][1]
      BY <2>1, <3>2
    <3>4. QED
      BY <1>2, <3>0, <3>1, <3>2, <3>3 DEF InFrame, FrameIndex
  <2>5. QED
    BY <1>2, <2>3, <2>4 DEF Frames
<1>3. QED
  BY <1>1, <1>2

LEMMA ClobberedTypes ==
  ASSUME gpr \in GprTypes
  PROVE  /\ Clobbered \in GprTypes
         /\ \A r : Untouched(r) => Clobbered[r] = gpr[r]
<1>1. Scratch(RegisterWords(proc)) \in [RegisterWords(proc) -> Word4]
  BY DEF Scratch, Word4, Byte
<1>2. QED
  BY <1>1 DEF Clobbered, GprTypes, Untouched

\* what the handlers restore
Restored == IF Wide(proc) THEN RestoreWide(gpr, stack) ELSE RestoreNarrow(gpr, stack)

LEMMA Restores ==
  ASSUME before \in GprTypes, gpr \in GprTypes, stack \in Frames
  PROVE  /\ Restored \in GprTypes
         /\ \A r \in Registers \ (Saved \ {0}) : Restored[r] = gpr[r]
         /\ \A r \in Saved \ {0} : \A w \in RegisterWords(proc) :
              InFrame(r, w) => Restored[r][w] = before[r][w]
<1>0. Saved \subseteq Registers /\ \A r \in Saved : r \in Int
  BY DEF Saved, Registers
<1>1. CASE Wide(proc)
  <2>1. /\ stack \in [1 .. 52 -> Word4] /\ \A r \in Registers : before[r] \in [1 .. 2 -> Word4]
        /\ gpr \in [Registers -> [1 .. 2 -> Word4]]
    BY <1>1 DEF Frames, GprTypes, RegisterWords
  <2>2. Restored = [r \in Registers |-> IF r \in Saved \ {0}
                                        THEN <<stack[2 * r + 1], stack[2 * r + 2]>> ELSE gpr[r]]
    BY <1>1 DEF Restored, RestoreWide
  <2>3. \A r \in Saved : /\ 2 * r + 1 \in 1 .. 52 /\ 2 * r + 2 \in 1 .. 52
                         /\ <<stack[2 * r + 1], stack[2 * r + 2]>> \in [1 .. 2 -> Word4]
    <3> SUFFICES ASSUME NEW r \in Saved
                 PROVE  /\ 2 * r + 1 \in 1 .. 52 /\ 2 * r + 2 \in 1 .. 52
                        /\ <<stack[2 * r + 1], stack[2 * r + 2]>> \in [1 .. 2 -> Word4]
      OBVIOUS
    <3>1. 2 * r + 1 \in 1 .. 52 /\ 2 * r + 2 \in 1 .. 52
      BY DEF Saved
    <3>2. stack[2 * r + 1] \in Word4 /\ stack[2 * r + 2] \in Word4
      BY <2>1, <3>1
    <3>3. QED
      BY <3>1, <3>2
  <2>4. Restored \in [Registers -> [1 .. 2 -> Word4]]
    BY <1>0, <2>1, <2>2, <2>3
  <2>5. ASSUME NEW r \in Saved \ {0}, NEW w \in RegisterWords(proc), InFrame(r, w)
        PROVE  Restored[r][w] = before[r][w]
    <3>1. Restored[r] = <<stack[2 * r + 1], stack[2 * r + 2]>> /\ w \in {1, 2}
      BY <1>0, <1>1, <2>2 DEF RegisterWords
    <3>2. Restored[r][w] = stack[2 * r + w]
      BY <3>1
    <3>3. QED
      BY <1>1, <2>5, <3>2 DEF InFrame, FrameIndex
  <2>6. QED
    BY <1>1, <2>2, <2>4, <2>5 DEF GprTypes, RegisterWords
<1>2. CASE ~Wide(proc)
  <2>1. /\ stack \in [1 .. 32 -> Word4] /\ \A r \in Registers : before[r] \in [1 .. 1 -> Word4]
        /\ gpr \in [Registers -> [1 .. 1 -> Word4]]
    BY <1>2 DEF Frames, GprTypes, RegisterWords
  <2>2. Restored = [r \in Registers |-> IF r \in Saved \ {0} THEN <<stack[r + 1]>> ELSE gpr[r]]
    BY <1>2 DEF Restored, RestoreNarrow
  <2>3. \A r \in Saved : r + 1 \in 1 .. 32 /\ <<stack[r + 1]>> \in [1 .. 1 -> Word4]
    <3> SUFFICES ASSUME NEW r \in Saved
                 PROVE  r + 1 \in 1 .. 32 /\ <<stack[r + 1]>> \in [1 .. 1 -> Word4]
      OBVIOUS
    <3>1. r + 1 \in 1 .. 32
      BY DEF Saved
    <3>2. stack[r + 1] \in Word4
      BY <2>1, <3>1
    <3>3. QED
      BY <3>1, <3>2
  <2>4. Restored \in [Registers -> [1 .. 1 -> Word4]]
    BY <1>0, <2>1, <2>2, <2>3
  <2>5. ASSUME NEW r \in Saved \ {0}, NEW w \in RegisterWords(proc), InFrame(r, w)
        PROVE  Restored[r][w] = before[r][w]
    <3>1. Restored[r] = <<stack[r + 1]>> /\ w = 1
      BY <1>0, <1>2, <2>2 DEF RegisterWords
    <3>2. QED
      BY <1>2, <2>5, <3>1 DEF InFrame, FrameIndex
  <2>6. QED
    BY <1>2, <2>2, <2>4, <2>5 DEF GprTypes, RegisterWords
<1>3. QED
  BY <1>1, <1>2

\* the values the handlers put in a frame or in memory
LEMMA ExtendedType ==
  ASSUME NEW low, \A j \in 1 .. 4 : j <= Len(low) => low[j] \in Byte, NEW n \in BOOLEAN
  PROVE  Extended(low, n) \in Word4
BY DEF Extended, Word4, Byte

LEMMA AccessValues ==
  ASSUME NEW word \in Word4, NEW value \in Word4, NEW k \in 0 .. 3, NEW h \in 0 .. 1
  PROVE  /\ LB(word, k) \in Word4 /\ LBU(word, k) \in Word4
         /\ LH(word, h) \in Word4 /\ LHU(word, h) \in Word4
         /\ SB(value, k) \in Word4 /\ SH(value, h) \in Word4
<1>1. \A j \in 1 .. 4 : word[j] \in Byte /\ value[j] \in Byte
  BY DEF Word4
<1>2. ASSUME NEW x \in Byte PROVE Extended(<<x>>, FALSE) \in Word4 /\ Extended(<<x>>, TRUE) \in Word4
  <2>1. \A j \in 1 .. 4 : j <= Len(<<x>>) => <<x>>[j] \in Byte
    OBVIOUS
  <2>2. QED
    BY <2>1, ExtendedType
<1>3. ASSUME NEW x \in Byte, NEW y \in Byte
      PROVE  Extended(<<x, y>>, FALSE) \in Word4 /\ Extended(<<x, y>>, TRUE) \in Word4
  <2>1. \A j \in 1 .. 4 : j <= Len(<<x, y>>) => <<x, y>>[j] \in Byte
    OBVIOUS
  <2>2. QED
    BY <2>1, ExtendedType
<1>4. LB(word, k) \in Word4
  <2> PICK x \in Byte : x = word[k + 1]
    BY <1>1
  <2>1. CASE x >= 128
    <3>1. (x >= 128) = TRUE
      BY <2>1
    <3>2. QED
      BY <1>2, <3>1 DEF LB
  <2>2. CASE ~(x >= 128)
    <3>1. (x >= 128) = FALSE
      BY <2>2
    <3>2. QED
      BY <1>2, <3>1 DEF LB
  <2>3. QED
    BY <2>1, <2>2
<1>5. LBU(word, k) \in Word4
  <2> PICK x \in Byte : x = word[1]
    BY <1>1
  <2>1. Extended(<<x>>, FALSE) \in Word4
    BY <1>2
  <2>2. QED
    BY <2>1 DEF LBU, LowByte
<1>6. LHU(word, h) \in Word4
  <2> PICK x \in Byte, y \in Byte : x = word[1] /\ y = word[2]
    BY <1>1
  <2>1. Extended(<<x, y>>, FALSE) \in Word4
    BY <1>3
  <2>2. QED
    BY <2>1 DEF LHU, LowHalf
<1>7. LH(word, h) \in Word4
  <2> PICK w \in Word4 : w = LHU(word, h)
    BY <1>6
  <2>0. w[1] \in Byte /\ w[2] \in Byte
    BY DEF Word4
  <2> PICK x \in Byte, y \in Byte : x = w[1] /\ y = w[2]
    BY <2>0
  <2>1. Extended(<<x, y>>, TRUE) \in Word4
    BY <1>3
  <2>2. QED
    BY <2>1 DEF LH
<1>8. SB(value, k) \in Word4
  BY <1>1 DEF SB, Empty, Word4, Byte
<1>9. SH(value, h) \in Word4
  <2>1. /\ Empty \in Word4 /\ 2 * h + 1 \in 1 .. 4 /\ 2 * h + 2 \in 1 .. 4
        /\ value[1] \in Byte /\ value[2] \in Byte
    BY <1>1 DEF Empty, Word4, Byte
  <2>2. [Empty EXCEPT ![2 * h + 1] = value[1]] \in Word4
    BY <2>1 DEF Word4
  <2>3. QED
    BY <2>1, <2>2 DEF SH, Word4
<1>10. QED
  BY <1>4, <1>5, <1>6, <1>7, <1>8, <1>9

\* memory after a word is put
LEMMA PutWord ==
  ASSUME NEW m, NEW address, NEW word
  PROVE  \A x \in DOMAIN Put(m, address, word) :
           /\ x = address \/ x \in DOMAIN m
           /\ Put(m, address, word)[x] = IF x = address THEN word ELSE m[x]
BY DEF Put

LEMMA FetchType ==
  ASSUME NEW m, \A x \in DOMAIN m : m[x] \in Word4, NEW address
  PROVE  Fetch(m, address) \in Word4
BY DEF Fetch, Empty, Word4, Byte

\* an address is a word's and an offset in it
LEMMA AddressParts ==
  ASSUME NEW address \in Int
  PROVE  /\ WordOf(address) \in Int /\ WordOf(address) % 4 = 0
         /\ ByteOffset(address) \in 0 .. 3 /\ HalfwordOffset(address) \in 0 .. 1
<1>1. address \div 4 \in Int /\ address % 4 \in 0 .. 3
  OBVIOUS
<1>2. PICK q \in Int, r \in 0 .. 3 : q = address \div 4 /\ r = address % 4
  BY <1>1
<1>3. 4 * q \in Int /\ (4 * q) % 4 = 0 /\ r \div 2 \in 0 .. 1
  OBVIOUS
<1>4. QED
  BY <1>2, <1>3 DEF WordOf, ByteOffset, HalfwordOffset

LEMMA AddressTypes ==
  ASSUME NEW st, NEW i \in Operations, st[i.base + 1] \in Word4
  PROVE  LoadAddress(st, i) \in Int /\ StoreAddress(st, i) \in Int
<1>1. \A j \in 1 .. 4 : st[i.base + 1][j] \in Int
  <2>1. \A x \in Byte : x \in Int
    BY DEF Byte
  <2>2. QED
    BY <2>1 DEF Word4
<1>2. AddressSpace \in Nat \ {0} /\ i.offset \in Int
  <2>1. \A x \in Offsets : x \in Int
    BY DEF Offsets
  <2>2. QED
    BY <2>1, AddressSpaceAssumption DEF Operations
<1>3. AddressOf(st[i.base + 1]) \in Int
  <2> PICK x \in Int : x = st[i.base + 1][1]
    BY <1>1
  <2> PICK y \in Int : y = st[i.base + 1][2]
    BY <1>1
  <2> PICK z \in Int : z = st[i.base + 1][3]
    BY <1>1
  <2> PICK t \in Int : t = st[i.base + 1][4]
    BY <1>1
  <2> PICK weight \in Int : weight = 16777216 % AddressSpace
    BY <1>2
  <2> PICK n \in Int : n = x + 256 * y + 65536 * z + weight * t
    OBVIOUS
  <2>1. n % AddressSpace \in Int
    BY <1>2
  <2>2. AddressOf(st[i.base + 1]) = n % AddressSpace
    BY DEF AddressOf
  <2>3. QED
    BY <2>1, <2>2
<1>4. SignExtended(i.offset) \in Int
  BY <1>2 DEF SignExtended
<1>5. QED
  BY <1>2, <1>3, <1>4 DEF LoadAddress, StoreAddress

\* the words a load gets and a store leaves
Loaded(st, m, i) ==
  LET address == LoadAddress(st, i)
      word == Fetch(m, WordOf(address))
  IN CASE i.op = "LB" -> LB(word, ByteOffset(address))
       [] i.op = "LBU" -> LBU(word, ByteOffset(address))
       [] i.op = "LH" -> LH(word, HalfwordOffset(address))
       [] i.op = "LHU" -> LHU(word, HalfwordOffset(address))

Stored(st, i) ==
  IF i.op = "SB" THEN SB(st[i.rt + 1], ByteOffset(StoreAddress(st, i)))
  ELSE SH(st[i.rt + 1], HalfwordOffset(StoreAddress(st, i)))

LEMMA EmulatedCases ==
  ASSUME NEW st, NEW m, NEW i \in Operations
  PROVE  /\ i.op \in Loads =>
              Emulated(st, m, i) = [stack |-> [st EXCEPT ![i.rt + 1] = Loaded(st, m, i)], mem |-> m]
         /\ i.op \in Stores =>
              Emulated(st, m, i) =
                [stack |-> st, mem |-> Put(m, WordOf(StoreAddress(st, i)), Stored(st, i))]
         /\ i.op \notin Loads \union Stores => Emulated(st, m, i) = [stack |-> st, mem |-> m]
<1>1. CASE i.op = "LB"
  BY <1>1 DEF Emulated, LoadByte, Loaded, Loads, Stores
<1>2. CASE i.op = "LBU"
  BY <1>2 DEF Emulated, LoadByte, Loaded, Loads, Stores
<1>3. CASE i.op = "LH"
  BY <1>3 DEF Emulated, LoadHalfword, Loaded, Loads, Stores
<1>4. CASE i.op = "LHU"
  BY <1>4 DEF Emulated, LoadHalfword, Loaded, Loads, Stores
<1>5. CASE i.op \in Stores
  BY <1>5 DEF Emulated, StoreSubword, Stored, Loads, Stores
<1>6. CASE i.op \notin Loads \union Stores
  BY <1>6 DEF Emulated, Loads, Stores
<1>7. QED
  BY <1>1, <1>2, <1>3, <1>4, <1>5, <1>6 DEF Loads

LEMMA LoadedType ==
  ASSUME NEW st, NEW m, NEW i \in Operations, i.op \in Loads, st[i.base + 1] \in Word4,
         \A x \in DOMAIN m : m[x] \in Word4
  PROVE  Loaded(st, m, i) \in Word4
<1> PICK address \in Int : address = LoadAddress(st, i)
  BY AddressTypes
<1> PICK w, k, h : w = Fetch(m, WordOf(address)) /\ k = ByteOffset(address) /\ h = HalfwordOffset(address)
  OBVIOUS
<1>1. w \in Word4 /\ k \in 0 .. 3 /\ h \in 0 .. 1
  BY AddressParts, FetchType
<1>2. LB(w, k) \in Word4 /\ LBU(w, k) \in Word4 /\ LH(w, h) \in Word4 /\ LHU(w, h) \in Word4
  BY <1>1, AccessValues
<1>3. QED
  BY <1>2 DEF Loaded, Loads

LEMMA StoredType ==
  ASSUME NEW st, NEW i \in Operations, st[i.base + 1] \in Word4, st[i.rt + 1] \in Word4
  PROVE  Stored(st, i) \in Word4
<1> PICK address \in Int : address = StoreAddress(st, i)
  BY AddressTypes
<1> PICK v, k, h : v = st[i.rt + 1] /\ k = ByteOffset(address) /\ h = HalfwordOffset(address)
  OBVIOUS
<1>1. v \in Word4 /\ k \in 0 .. 3 /\ h \in 0 .. 1
  BY AddressParts
<1>2. SB(v, k) \in Word4 /\ SH(v, h) \in Word4
  BY <1>1, AccessValues
<1>3. QED
  BY <1>2 DEF Stored

\* what the emulation leaves of the frame and of memory
LEMMA Emulation ==
  ASSUME ProgramInv, step = "exception",
         stack' = Emulated(stack, mem, op).stack, mem' = Emulated(stack, mem, op).mem,
         UNCHANGED <<proc, op, before>>
  PROVE  /\ stack' \in Frames
         /\ \A r \in Saved : \A w \in RegisterWords(proc) :
              InFrame(r, w)' \/ <<r, w>> \in LoadTarget
         /\ \A x \in DOMAIN mem' : x % 4 = 0 /\ mem'[x] \in Word4
<1>1. /\ proc \in Processors /\ op \in Operations
      /\ stack \in Frames /\ before \in GprTypes
      /\ \A r \in Saved : \A w \in RegisterWords(proc) : InFrame(r, w)
      /\ \A x \in DOMAIN mem : x % 4 = 0 /\ mem[x] \in Word4
  <2>1. proc # "none" /\ op # SbrkCall
    BY DEF ProgramInv, Points
  <2>2. proc \in Processors /\ op \in Operations
    BY <2>1 DEF ProgramInv, Points
  <2>3. ~AccessDone /\ ~Emulating /\ step # "halted" /\ InHandler
    BY DEF AccessDone, Emulating, InHandler
  <2>4. QED
    BY <2>1, <2>2, <2>3 DEF ProgramInv, Memory, Registered
<1>2. /\ op.base + 1 \in DOMAIN stack /\ op.rt + 1 \in DOMAIN stack
      /\ stack[op.base + 1] \in Word4 /\ stack[op.rt + 1] \in Word4
  <2>1. op.base \in 0 .. 31 /\ op.rt \in 0 .. 31
    BY <1>1 DEF Operations
  <2>2. op.base + 1 \in 1 .. 32 /\ op.rt + 1 \in 1 .. 32
    BY <2>1
  <2>3. CASE Wide(proc)
    <3>1. stack \in [1 .. 52 -> Word4]
      BY <1>1, <2>3 DEF Frames
    <3>2. op.base + 1 \in 1 .. 52 /\ op.rt + 1 \in 1 .. 52
      BY <2>2
    <3>3. QED
      BY <3>1, <3>2
  <2>4. CASE ~Wide(proc)
    <3>1. stack \in [1 .. 32 -> Word4]
      BY <1>1, <2>4 DEF Frames
    <3>2. QED
      BY <2>2, <3>1
  <2>5. QED
    BY <2>3, <2>4
<1>3. ASSUME stack' = stack PROVE \A r \in Saved : \A w \in RegisterWords(proc) : InFrame(r, w)'
  BY <1>1, <1>3 DEF InFrame, FrameIndex
<1>4. CASE op.op \in Loads
  <2> PICK loaded : loaded = Loaded(stack, mem, op)
    OBVIOUS
  <2>1. loaded \in Word4
    BY <1>1, <1>2, <1>4, LoadedType
  <2>2. stack' = [stack EXCEPT ![op.rt + 1] = loaded] /\ mem' = mem
    BY <1>1, <1>4, EmulatedCases
  <2>3. stack' \in Frames
    BY <1>1, <2>1, <2>2 DEF Frames
  <2>4. ASSUME NEW r \in Saved, NEW w \in RegisterWords(proc), <<r, w>> \notin LoadTarget
        PROVE  InFrame(r, w)'
    <3>1. op.rt \in 0 .. 31 /\ r \in 0 .. 25
      BY <1>1 DEF Operations, Saved
    <3>2. FrameIndex(r, w) \in DOMAIN stack /\ FrameIndex(r, w) # op.rt + 1
      <4>1. CASE Wide(proc)
        <5>1. w \in {1, 2} /\ DOMAIN stack = 1 .. 52
          BY <1>1, <4>1 DEF RegisterWords, Frames
        <5>2. r # op.rt \div 2 \/ w # 1 + (op.rt % 2)
          BY <1>4, <2>4, <4>1 DEF LoadTarget
        <5>3. op.rt = 2 * (op.rt \div 2) + (op.rt % 2) /\ op.rt % 2 \in {0, 1}
          BY <3>1
        <5>4. 2 * r + w # op.rt + 1 /\ 2 * r + w \in 1 .. 52
          BY <3>1, <5>1, <5>2, <5>3
        <5>5. QED
          BY <4>1, <5>1, <5>4 DEF FrameIndex
      <4>2. CASE ~Wide(proc)
        <5>1. w = 1 /\ DOMAIN stack = 1 .. 32
          BY <1>1, <4>2 DEF RegisterWords, Frames
        <5>2. r # op.rt
          BY <1>4, <2>4, <4>2, <5>1 DEF LoadTarget
        <5>3. QED
          BY <3>1, <4>2, <5>1, <5>2 DEF FrameIndex
      <4>3. QED
        BY <4>1, <4>2
    <3>3. stack'[FrameIndex(r, w)] = stack[FrameIndex(r, w)]
      BY <2>2, <3>2
    <3>4. InFrame(r, w)
      BY <1>1
    <3>5. QED
      BY <3>3, <3>4 DEF InFrame, FrameIndex
  <2>5. QED
    BY <1>1, <2>2, <2>3, <2>4
<1>5. CASE op.op \in Stores
  <2> PICK address, w : address = WordOf(StoreAddress(stack, op)) /\ w = Stored(stack, op)
    OBVIOUS
  <2>1. w \in Word4
    BY <1>1, <1>2, StoredType
  <2>2. address % 4 = 0
    BY <1>1, <1>2, AddressTypes, AddressParts
  <2>3. stack' = stack /\ mem' = Put(mem, address, w)
    BY <1>1, <1>5, EmulatedCases
  <2>4. \A x \in DOMAIN mem' : x % 4 = 0 /\ mem'[x] \in Word4
    BY <1>1, <2>1, <2>2, <2>3, PutWord
  <2>5. QED
    BY <1>1, <1>3, <2>3, <2>4 DEF Frames
<1>6. CASE op.op \notin Loads \union Stores
  <2>1. stack' = stack /\ mem' = mem
    BY <1>1, <1>6, EmulatedCases
  <2>2. QED
    BY <1>1, <1>3, <2>1 DEF Frames
<1>7. QED
  BY <1>4, <1>5, <1>6

\* Programs start with what the invariant says, and keep it.
LEMMA ProgramInit == Init => ProgramInv
<1> SUFFICES ASSUME Init PROVE ProgramInv
  OBVIOUS
<1>1. CASE ehIdle
  BY <1>1 DEF ehIdle, ProgramInv, Points, AccessDone, Emulating
<1>2. CASE ehInit
  <2>1. /\ proc \in Processors /\ op \in Instructions \union {SbrkCall} /\ mem \in Memories
        /\ gpr = [r \in Registers |-> [w \in RegisterWords(proc) |-> InitialWord(op, r)]]
        /\ before = gpr
        /\ step = "run" /\ back = "run" /\ pc = Here
    BY <1>2 DEF ehInit
  <2>2. op \in Operations \union {SbrkCall} /\ proc # "none"
    BY <2>1, ExceptionAssumption DEF Processors
  <2>3. \A r \in Registers : InitialWord(op, r) \in Word4
    <3> SUFFICES ASSUME NEW r \in Registers PROVE InitialWord(op, r) \in Word4
      OBVIOUS
    <3>1. Empty \in Word4 /\ BaseWord \in Word4 /\ <<r, 64, 128, 255>> \in Word4
      BY ExceptionAssumption DEF Empty, Word4, Byte, Registers
    <3>2. QED
      BY <3>1 DEF InitialWord
  <2>4. gpr \in GprTypes /\ before = gpr
    BY <2>1, <2>3 DEF GprTypes
  <2>5. \A x \in DOMAIN mem : x % 4 = 0 /\ mem[x] \in Word4
    BY <2>1, ExceptionAssumption
  <2>6. ~AccessDone /\ ~Emulating /\ ~InHandler
    BY <2>1 DEF AccessDone, Emulating, InHandler
  <2>7. Points
    BY <2>1, <2>2, <2>6 DEF Points
  <2>8. Addresses
    BY <2>1, <2>6 DEF Addresses
  <2>9. Memory
    BY <2>1, <2>4, <2>5, <2>6 DEF Memory
  <2>10. Registered
    BY <2>4, <2>6 DEF Registered
  <2>11. QED
    BY <2>7, <2>8, <2>9, <2>10 DEF ProgramInv
<1>3. QED
  BY <1>1, <1>2, InitCases

\* the registers of a running program are saved in a handler's frame
LEMMA Saves ==
  ASSUME ProgramInv, step \in {"run", "sbrk"}, NEW beyond \in FrameWords,
         stack' = Save(beyond), gpr' = Clobbered, UNCHANGED <<proc, op, mem, before>>,
         step' \in {"exception", "interrupt"}
  PROVE  Memory' /\ Registered'
<1>1. /\ proc # "none" /\ ~AccessDone /\ ~AccessDone' /\ ~Emulating /\ ~Emulating'
      /\ InHandler' /\ step' \notin {"run", "sbrk", "done"} /\ step # "halted" /\ step' # "halted"
  BY DEF ProgramInv, Points, AccessDone, Emulating, InHandler
<1>2. /\ proc \in Processors /\ before \in GprTypes /\ gpr \in GprTypes
      /\ \A r \in Registers \ Kernel : \A w \in RegisterWords(proc) : gpr[r][w] = before[r][w]
      /\ \A x \in DOMAIN mem : x % 4 = 0 /\ mem[x] \in Word4
  BY <1>1 DEF ProgramInv, Points, Registered, Memory
<1>3. beyond \in Word4
  BY ExceptionAssumption
<1>4. stack' \in Frames /\ \A r \in Saved : \A w \in RegisterWords(proc) : InFrame(r, w)'
  BY <1>2, <1>3, SaveFrames
<1>5. /\ gpr' \in GprTypes
      /\ \A r : Untouched(r) => \A w \in RegisterWords(proc) : gpr'[r][w] = before[r][w]
  BY <1>2, ClobberedTypes DEF Untouched
<1>6. Memory'
  BY <1>1, <1>2 DEF Memory
<1>7. Registered'
  BY <1>1, <1>2, <1>4, <1>5 DEF Registered, Frames, GprTypes, RegisterWords
<1>8. QED
  BY <1>6, <1>7

\* a step of the handlers that touches neither frame nor memory
LEMMA Keeps ==
  ASSUME ProgramInv, step \in {"run", "interrupt", "serve"}, proc # "none",
         step' \in {"sbrk", "serve", "leave"}, step = "run" <=> step' = "sbrk",
         UNCHANGED <<proc, op, back, epc, pc, gpr, stack, mem, before>>,
         step' = "sbrk" => op = SbrkCall
  PROVE  ProgramInv'
<1>1. back \in {"run", "sbrk"} /\ (step = "run" => back = "run")
  BY DEF ProgramInv, Points
<1>2. /\ ~AccessDone /\ ~AccessDone' /\ ~Emulating /\ ~Emulating' /\ (InHandler' <=> InHandler)
      /\ step # "halted" /\ step' # "halted" /\ step # "exception" /\ step' # "exception"
      /\ (step' \in {"run", "sbrk", "done"} <=> step \in {"run", "sbrk", "done"})
      /\ (InHandler <=> step \in {"interrupt", "serve"})
  BY <1>1 DEF AccessDone, Emulating, InHandler
<1>3. Points'
  BY <1>1, <1>2 DEF ProgramInv, Points
<1>4. Addresses'
  BY <1>1, <1>2 DEF ProgramInv, Addresses
<1>5. Memory'
  BY <1>2 DEF ProgramInv, Memory
<1>6. Registered'
  <2>1. /\ UNCHANGED <<Frames, GprTypes, LoadTarget, RegisterWords(proc)>>
        /\ \A r, w : InFrame(r, w)' <=> InFrame(r, w)
    BY DEF Frames, GprTypes, RegisterWords, LoadTarget, InFrame, FrameIndex
  <2>2. Registered
    BY DEF ProgramInv
  <2>3. QED
    BY <1>2, <2>1, <2>2 DEF Registered
<1>7. QED
  BY <1>3, <1>4, <1>5, <1>6 DEF ProgramInv

LEMMA ProgramTrap ==
  ASSUME ProgramInv, Trap
  PROVE  ProgramInv'
<1>1. /\ step = "run" /\ step' = "exception" /\ op # SbrkCall /\ back' = back /\ gpr' = Clobbered
      /\ UNCHANGED <<proc, op, pc, mem, before>>
      /\ epc' = IF op.delay_slot THEN Target ELSE Here
  BY DEF Trap
<1>2. proc # "none" /\ back = "run" /\ ~AccessDone /\ ~AccessDone' /\ ~Emulating'
  BY <1>1 DEF ProgramInv, Points, AccessDone, Emulating
<1>3. Memory' /\ Registered'
  BY <1>1, Saves DEF Trap
<1>4. Points'
  BY <1>1, <1>2 DEF ProgramInv, Points
<1>5. Addresses'
  BY <1>1, <1>2 DEF ProgramInv, Addresses
<1>6. QED
  BY <1>3, <1>4, <1>5 DEF ProgramInv

LEMMA ProgramInterrupted ==
  ASSUME ProgramInv, Interrupt
  PROVE  ProgramInv'
<1>1. /\ step \in {"run", "sbrk"} /\ step' = "interrupt" /\ back' = step /\ gpr' = Clobbered
      /\ UNCHANGED <<proc, op, pc, mem, before>> /\ epc' = pc
  BY DEF Interrupt
<1>2. proc # "none" /\ ~AccessDone /\ ~AccessDone' /\ ~Emulating'
  BY <1>1 DEF ProgramInv, Points, AccessDone, Emulating
<1>3. Memory' /\ Registered'
  BY <1>1, Saves DEF Interrupt
<1>4. Points'
  BY <1>1, <1>2 DEF ProgramInv, Points
<1>5. Addresses'
  BY <1>1, <1>2 DEF ProgramInv, Addresses
<1>6. QED
  BY <1>3, <1>4, <1>5 DEF ProgramInv

LEMMA ProgramEmulated ==
  ASSUME ProgramInv, NEW next, ReservedInstruction(next),
         next = IF proc = "tpc" THEN "halted" ELSE "leave"
  PROVE  ProgramInv'
<1>1. /\ step = "exception" /\ step' = next /\ back' = "done"
      /\ UNCHANGED <<proc, op, pc, gpr, before>>
      /\ stack' = Emulated(stack, mem, op).stack /\ mem' = Emulated(stack, mem, op).mem
      /\ epc' = IF op.op \in Loads \union Stores /\ ~op.delay_slot THEN epc + 4 ELSE epc
  BY DEF ReservedInstruction
<1>2. /\ proc # "none" /\ op # SbrkCall /\ back = "run" /\ ~AccessDone /\ ~AccessDone'
      /\ InHandler /\ ~Emulating /\ step' \in {"halted", "leave"} /\ (Emulating' => proc # "tpc")
      /\ op \in Operations /\ proc \in Processors
      /\ (step' = "leave" <=> Emulating')
  BY <1>1 DEF ProgramInv, Points, AccessDone, Emulating, InHandler
<1>3. /\ stack' \in Frames
      /\ \A r \in Saved : \A w \in RegisterWords(proc) :
           InFrame(r, w)' \/ <<r, w>> \in LoadTarget
      /\ \A x \in DOMAIN mem' : x % 4 = 0 /\ mem'[x] \in Word4
  BY <1>1, Emulation
<1>4. UNCHANGED <<LoadTarget, Frames, GprTypes, RegisterWords(proc)>>
  BY <1>1 DEF LoadTarget, Frames, GprTypes, RegisterWords
<1>5. Points'
  BY <1>1, <1>2 DEF ProgramInv, Points
<1>6. Addresses'
  <2>1. pc = Here /\ epc = IF op.delay_slot THEN Target ELSE Here
    BY <1>1, <1>2 DEF ProgramInv, Addresses
  <2>2. epc' = IF op.delay_slot THEN Target
               ELSE IF op.op \in Loads \union Stores THEN Here + 4 ELSE Here
    BY <1>1, <2>1
  <2>3. QED
    BY <1>1, <1>2, <2>1, <2>2 DEF Addresses, Emulating
<1>7. Memory'
  BY <1>3 DEF Memory
<1>8. Registered'
  <2>1. /\ before \in GprTypes /\ gpr \in GprTypes
        /\ \A r : Untouched(r) => \A w \in RegisterWords(proc) : gpr[r][w] = before[r][w]
    BY <1>2 DEF ProgramInv, Registered
  <2>2. InHandler' => Emulating'
    BY <1>2 DEF InHandler
  <2>3. QED
    BY <1>1, <1>2, <1>3, <1>4, <2>1, <2>2 DEF Registered
<1>9. QED
  BY <1>5, <1>6, <1>7, <1>8 DEF ProgramInv

LEMMA ProgramAllocated ==
  ASSUME ProgramInv, SbrkWrite
  PROVE  ProgramInv'
<1>1. /\ step = "sbrk" /\ step' \in {"run", "done"}
      /\ UNCHANGED <<proc, op, back, pc, epc, gpr, stack, mem, before>>
  BY DEF SbrkWrite
<1>2. /\ proc # "none" /\ op = SbrkCall /\ back = "run" /\ ~AccessDone /\ ~AccessDone'
      /\ ~Emulating /\ ~Emulating' /\ ~InHandler'
  BY <1>1 DEF ProgramInv, Points, AccessDone, Emulating, InHandler
<1>3. Points'
  BY <1>1, <1>2 DEF ProgramInv, Points
<1>4. Addresses'
  BY <1>1, <1>2 DEF ProgramInv, Addresses
<1>5. Memory'
  BY <1>1, <1>2 DEF ProgramInv, Memory
<1>6. Registered'
  <2>1. Registered /\ UNCHANGED <<GprTypes, RegisterWords(proc)>>
    BY <1>1, <1>2 DEF ProgramInv, GprTypes, RegisterWords
  <2>2. QED
    BY <1>1, <1>2, <2>1 DEF Registered
<1>7. QED
  BY <1>3, <1>4, <1>5, <1>6 DEF ProgramInv

LEMMA ProgramResumes ==
  ASSUME ProgramInv, Leave(Restored)
  PROVE  ProgramInv'
<1>1. /\ step = "leave" /\ gpr' = Restored /\ pc' = epc /\ back' = "run"
      /\ step' = IF back = "done" /\ epc = Here THEN "run" ELSE back
      /\ UNCHANGED <<proc, op, epc, mem, before>>
  BY DEF Leave
<1>2. /\ proc # "none" /\ proc \in Processors /\ InHandler /\ ~AccessDone
      /\ back \in {"run", "sbrk", "done"} /\ (Emulating <=> back = "done")
      /\ (back = "done" => op # SbrkCall /\ op \in Operations /\ proc # "tpc")
      /\ (back = "sbrk" => op = SbrkCall)
      /\ op \in Operations \union {SbrkCall}
  BY <1>1 DEF ProgramInv, Points, AccessDone, Emulating, InHandler
<1>3. /\ epc = IF back # "done" THEN Here
               ELSE IF op.delay_slot THEN Target
               ELSE IF op.op \in Loads \union Stores THEN Here + 4 ELSE Here
  BY <1>1, <1>2 DEF ProgramInv, Addresses
<1>4. /\ step' \in {"run", "sbrk", "done"} /\ ~InHandler' /\ ~Emulating' /\ step' # "halted"
      /\ (AccessDone' => back = "done" /\ epc # Here)
      /\ (step' = "done" => AccessDone')
      /\ (step' = "sbrk" => back = "sbrk")
  BY <1>1, <1>2 DEF AccessDone, Emulating, InHandler
<1>5. UNCHANGED <<LoadTarget, GprTypes, RegisterWords(proc)>>
  BY <1>1 DEF LoadTarget, GprTypes, RegisterWords
<1>6. back = "done" /\ epc = Here => op.op \notin Loads \union Stores /\ LoadTarget = {}
  BY <1>3 DEF Here, Target, LoadTarget
<1>7. /\ before \in GprTypes /\ gpr \in GprTypes /\ stack \in Frames
      /\ \A r : Untouched(r) => \A w \in RegisterWords(proc) : gpr[r][w] = before[r][w]
      /\ \A r \in Saved : \A w \in RegisterWords(proc) :
           InFrame(r, w) \/ (back = "done" /\ <<r, w>> \in LoadTarget)
  BY <1>2 DEF ProgramInv, Registered
<1>8. Points'
  BY <1>1, <1>2, <1>4 DEF ProgramInv, Points
<1>9. Addresses'
  <2>1. CASE AccessDone'
    BY <1>1, <1>3, <1>4, <2>1 DEF Addresses
  <2>2. CASE ~AccessDone'
    <3>1. epc = Here
      BY <1>1, <1>2, <1>3, <1>4, <2>2
    <3>2. QED
      BY <1>1, <1>4, <2>2, <3>1 DEF Addresses
  <2>3. QED
    BY <2>1, <2>2
<1>10. Memory'
  BY <1>1, <1>2 DEF ProgramInv, Memory
<1>11. Registered'
  <2>1. /\ gpr' \in GprTypes
        /\ \A r \in Registers \ (Saved \ {0}) : gpr'[r] = gpr[r]
        /\ \A r \in Saved \ {0} : \A w \in RegisterWords(proc) :
             InFrame(r, w) => gpr'[r][w] = before[r][w]
    BY <1>1, <1>7, Restores
  <2>2. ASSUME NEW r \in Registers \ Kernel, NEW w \in RegisterWords(proc)
        PROVE  gpr'[r][w] = before[r][w] \/ (AccessDone' /\ <<r, w>> \in LoadTarget)
    <3>1. CASE r \notin Saved \ {0}
      BY <1>7, <2>1, <3>1 DEF Untouched
    <3>2. CASE r \in Saved \ {0} /\ InFrame(r, w)
      BY <2>1, <3>2
    <3>3. CASE r \in Saved \ {0} /\ ~InFrame(r, w)
      <4>1. back = "done" /\ <<r, w>> \in LoadTarget
        BY <1>7, <3>3
      <4>2. AccessDone'
        BY <1>1, <1>2, <1>6, <4>1 DEF AccessDone
      <4>3. QED
        BY <4>1, <4>2
    <3>4. QED
      BY <3>1, <3>2, <3>3
  <2>3. QED
    BY <1>1, <1>4, <1>5, <1>7, <2>1, <2>2 DEF Registered
<1>12. QED
  BY <1>8, <1>9, <1>10, <1>11 DEF ProgramInv

LEMMA ProgramStep ==
  ASSUME ProgramInv, [Next]_vars
  PROVE  ProgramInv'
<1>1. CASE UNCHANGED ehVars
  <2>1. UNCHANGED <<proc, op, step, back, pc, epc, gpr, stack, mem, before>>
    BY <1>1 DEF ehVars
  <2>2. UNCHANGED <<AccessDone, Emulating, InHandler, Frames, GprTypes, LoadTarget,
                    RegisterWords(proc)>>
    BY <2>1 DEF AccessDone, Emulating, InHandler, Frames, GprTypes, RegisterWords, LoadTarget
  <2>3. \A r, w : InFrame(r, w)' <=> InFrame(r, w)
    BY <2>1 DEF InFrame, FrameIndex
  <2>4. Points'
    BY <2>1, <2>2 DEF ProgramInv, Points
  <2>5. proc # "none" => Addresses'
    BY <2>1, <2>2 DEF ProgramInv, Addresses
  <2>6. proc # "none" => Memory'
    BY <2>1, <2>2 DEF ProgramInv, Memory
  <2>7. proc # "none" => Registered'
    BY <2>1, <2>2, <2>3 DEF ProgramInv, Registered
  <2>8. QED
    BY <2>1, <2>4, <2>5, <2>6, <2>7 DEF ProgramInv
<1>2. CASE SbrkRead
  BY <1>2, Keeps DEF SbrkRead, ProgramInv, Points
<1>3. ASSUME NEW handlers, Dispatch(handlers) PROVE ProgramInv'
  BY <1>3, Keeps DEF Dispatch, ProgramInv, Points
<1>4. CASE Serve
  BY <1>4, Keeps DEF Serve, ProgramInv, Points
<1>5. CASE Wide(proc) /\ Leave(RestoreWide(gpr, stack))
  BY <1>5, ProgramResumes DEF Restored
<1>6. CASE ~Wide(proc) /\ Leave(RestoreNarrow(gpr, stack))
  BY <1>6, ProgramResumes DEF Restored
<1>7. QED
  BY <1>1, <1>2, <1>3, <1>4, <1>5, <1>6, ProgramTrap, ProgramInterrupted, ProgramEmulated,
     ProgramAllocated, StepCases

-----------------------------------------------------------------------------
(* What the invariant says of the program.                                  *)

LEMMA ProgramInvariant == Spec => []ProgramInv
<1>1. ProgramInv /\ [Next]_vars => ProgramInv'
  BY ProgramStep
<1>2. QED
  BY <1>1, ProgramInit, PTL DEF Spec

\* The program's part of the type invariant: for every memory and instruction
\* the registers, the frame and the memory consist of words.
THEOREM ProgramsAreTyped == Spec => []ProgramTypes
<1>1. ProgramInv => ProgramTypes
  <2> SUFFICES ASSUME ProgramInv PROVE ProgramTypes
    OBVIOUS
  <2>1. CASE proc = "none"
    BY <2>1 DEF ProgramTypes, ProgramInv, Points
  <2>2. CASE proc # "none"
    BY <2>2 DEF ProgramTypes, ProgramInv, Points, Addresses, Memory, Registered, InHandler, Frames,
                GprTypes
  <2>3. QED
    BY <2>1, <2>2
<1>2. QED
  BY <1>1, ProgramInvariant, PTL

\* Whatever the handlers do in between, a program finds every word of its
\* registers as it left it, but for the one word an emulated load changes:
\* register rt on the accelerators' processors, half of register rt / 2, which
\* the load does not name, on the packet processor.
THEOREM RegistersArePreserved == Spec => []RegistersPreserved
<1>1. ProgramInv => RegistersPreserved
  BY DEF ProgramInv, Registered, RegistersPreserved
<1>2. QED
  BY <1>1, ProgramInvariant, PTL

\* A program goes on after the access, once, and never on the TPC.
THEOREM ResumesAfterIt == Spec => []ResumesAfterAccess
<1>1. ProgramInv => ResumesAfterAccess
  <2> SUFFICES ASSUME ProgramInv PROVE ResumesAfterAccess
    OBVIOUS
  <2>1. CASE proc = "none"
    BY <2>1 DEF ProgramInv, Points, AccessDone, ResumesAfterAccess
  <2>2. CASE proc # "none"
    BY <2>2 DEF ProgramInv, Points, Addresses, AccessDone, ResumesAfterAccess
  <2>3. QED
    BY <2>1, <2>2
<1>2. QED
  BY <1>1, ProgramInvariant, PTL

-----------------------------------------------------------------------------
(* The integer routines.                                                    *)

\* the invariant of a call, or no call and nothing returned
CallsInv == RoutineInv /\ (fn = "none" => result = << >>)

\* A behaviour starts with the call of a routine, or with none.
LEMMA CallsInit == Init => CallsInv
<1> SUFFICES ASSUME Init PROVE CallsInv
  OBVIOUS
<1>1. CASE srInit
  <2>1. fn # "none"
    BY <1>1 DEF srInit, Call, WordRoutines, DoubleRoutines
  <2>2. QED
    BY <1>1, <2>1, RoutineInit DEF CallsInv
<1>2. CASE srIdle
  <2>1. W \in Nat /\ 0 \in Words(W)
    <3>1. W \in Nat /\ 2^W \in Nat \ {0}
      BY WordBits, PowPositive
    <3>2. QED
      BY <3>1 DEF Words
  <2>2. CallInv
    BY <1>2, <2>1 DEF srIdle, CallInv
  <2>3. LoopInv /\ RegsInv /\ ReturnsExpected
    BY <1>2 DEF srIdle, LoopInv, RegsInv, ReturnsExpected
  <2>4. QED
    BY <1>2, <2>2, <2>3 DEF srIdle, CallsInv, RoutineInv
<1>3. QED
  BY <1>1, <1>2 DEF Init

\* Only a call makes a step, and it stays the same call.
LEMMA StepOfCall ==
  ASSUME srNext
  PROVE  fn # "none" /\ fn' = fn
<1>1. fn # "none"
  BY DEF srNext, MulEnter, MulLoop, MulReturn, UDivEnter, UDivModEnter, DivIterate, DivReturn,
         ModEnter, Justify, ModLoop, ModReturn, Wrapper
<1>2. UNCHANGED callVars
  BY DEF srNext, MulEnter, MulLoop, MulReturn, UDivEnter, UDivModEnter, DivIterate, DivReturn,
         ModEnter, Justify, ModLoop, ModReturn, Wrapper, Return, Continue
<1>3. QED
  BY <1>1, <1>2 DEF callVars

\* The invariant is kept by the steps of a call, and by the program's, which share
\* no variable with it.
LEMMA CallsStep ==
  ASSUME CallsInv, [Next]_vars
  PROVE  CallsInv'
<1>1. srNext \/ UNCHANGED srVars
  BY DEF Next, vars
<1>2. RoutineInv'
  BY <1>1, RoutineStep DEF CallsInv
<1>3. CASE srNext
  BY <1>2, <1>3, StepOfCall DEF CallsInv
<1>4. CASE UNCHANGED srVars
  BY <1>2, <1>4 DEF CallsInv, srVars, callVars
<1>5. QED
  BY <1>1, <1>3, <1>4

\* It types the call: what is in the registers and what is returned are words.
LEMMA CallsAreTyped ==
  ASSUME CallsInv
  PROVE  CallTypes
<1>1. /\ bits \in Nat \ {0} /\ W \in Nat \ {0} /\ a \in Words(bits) /\ b \in Words(bits)
      /\ undef \in Words(W)
  BY ArgumentTypes DEF CallsInv
<1>2. at \in {"enter", "justify", "loop", "done"}
  BY DEF CallsInv, RoutineInv, LoopInv
<1>3. \A v \in DOMAIN result : result[v] \in Words(bits)
  <2>1. CASE result = << >>
    BY <2>1
  <2>2. CASE result # << >>
    <3>1. fn # "none" /\ result = Expected /\ CallInv
      BY <2>2 DEF CallsInv, RoutineInv, ReturnsExpected
    <3>2. QED
      BY <3>1, ExpectedTypes
  <2>3. QED
    BY <2>1, <2>2
<1>4. /\ \A v \in DOMAIN regs \ {"sr"} : regs[v] \in Words(bits)
      /\ "sr" \in DOMAIN regs => regs.sr \in 0 .. bits
  <2>1. CASE regs = << >>
    BY <2>1
  <2>2. CASE regs \in MulStates(bits)
    BY <2>2 DEF MulStates
  <2>3. CASE regs \in DivStates(bits)
    <3>1. 0 .. 1 \subseteq Words(bits)
      <4>1. PICK M \in Nat \ {0} : 2^bits = 2 * M
        BY <1>1, PowDown
      <4>2. QED
        BY <4>1 DEF Words
    <3>2. QED
      BY <2>3, <3>1 DEF DivStates
  <2>4. CASE regs \in ModStates /\ bits = W
    BY <2>4 DEF ModStates
  <2>5. QED
    BY <2>1, <2>2, <2>3, <2>4 DEF CallsInv, RoutineInv, RegsInv
<1>5. QED
  BY <1>1, <1>2, <1>3, <1>4 DEF CallTypes

\* Every behaviour keeps it.
LEMMA CallsInvariant == Spec => []CallsInv
<1>1. CallsInv /\ [Next]_vars => CallsInv'
  BY CallsStep
<1>2. QED
  BY <1>1, CallsInit, PTL DEF Spec

\* While the loop of a routine runs, its registers hold what the result is computed
\* from, and no bit of it gets lost: for every width of a word and all arguments.
THEOREM LoopsKeepTheResult == Spec => []LoopInvariant
<1>1. CallsInv => LoopInvariant
  BY LoopsFollow DEF CallsInv
<1>2. QED
  BY <1>1, CallsInvariant, PTL

\* A routine of system.c returns product, quotient or remainder of its arguments,
\* whatever an undefined shift gives, and 0 for a division by 0.
THEOREM RoutinesCompute == Spec => []ReturnsExpected
<1>1. CallsInv => ReturnsExpected
  BY DEF CallsInv, RoutineInv
<1>2. QED
  BY <1>1, CallsInvariant, PTL

\* The routines' arguments, registers and results are words of their width, and the
\* program's registers, frames and memory consist of words.
THEOREM TypeCorrect == Spec => []TypeOK
<1>1. CallsInv /\ ProgramTypes => TypeOK
  BY CallsAreTyped DEF TypeOK
<1>2. QED
  BY <1>1, CallsInvariant, ProgramsAreTyped, PTL
=============================================================================
