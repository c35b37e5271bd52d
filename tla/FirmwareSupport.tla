-------------------------- MODULE FirmwareSupport --------------------------
(***************************************************************************)
(* What the processors' programs take for granted: that the routines of    *)
(* system.c compute, and that an exception or an interrupt leaves the      *)
(* program as it was.  A behaviour is a call of one routine, or one        *)
(* program with its exceptions; the two share no state.                    *)
(***************************************************************************)
EXTENDS SupportRoutines, ExceptionHandlers

vars == <<srVars, ehVars>>

srIdle ==
  /\ fn = "none" /\ bits = W /\ a = 0 /\ b = 0 /\ undef = 0
  /\ at = "done" /\ regs = << >> /\ result = << >>

ehIdle ==
  /\ proc = "none" /\ op = SbrkCall /\ step = "done" /\ back = "run"
  /\ pc = Here /\ epc = 0 /\ gpr = << >> /\ stack = << >> /\ mem = << >> /\ before = << >>
  /\ interrupts = 0 /\ handler = "none"
  /\ heap_end = 0 /\ prev_heap_end = 0 /\ blocks = << >>

Init ==
  \/ srInit /\ ehIdle
  \/ ehInit /\ srIdle

Next ==
  \/ srNext /\ UNCHANGED ehVars
  \/ (Program \/ Handlers) /\ UNCHANGED srVars
  \/ Interrupt /\ UNCHANGED srVars

\* the cores go on executing; no interrupt need come
Spec ==
  /\ Init /\ [][Next]_vars
  /\ WF_vars(srNext /\ UNCHANGED ehVars)
  /\ WF_vars((Program \/ Handlers) /\ UNCHANGED srVars)

-----------------------------------------------------------------------------
CallTypes ==
  /\ at \in {"enter", "justify", "loop", "done"}
  /\ a \in Words(bits) /\ b \in Words(bits) /\ undef \in Words(W)
  /\ \A v \in DOMAIN result : result[v] \in Words(bits)
  /\ \A v \in DOMAIN regs \ {"sr"} : regs[v] \in Words(bits)
  /\ at = "loop" /\ "sr" \in DOMAIN regs => regs.sr \in 0 .. bits

ProgramTypes ==
  /\ step \in {"run", "sbrk", "exception", "interrupt", "serve", "leave", "done", "halted"}
  /\ pc \in {Here, Here + 4, Target}
  /\ proc # "none" =>
       /\ \A r \in Registers : gpr[r] \in [RegisterWords(proc) -> Word4]
       /\ \A address \in DOMAIN mem : address % 4 = 0 /\ mem[address] \in Word4
       /\ step \in {"exception", "interrupt", "serve", "leave"} =>
            stack \in [1 .. IF Wide(proc) THEN 52 ELSE 32 -> Word4]

TypeOK == CallTypes /\ ProgramTypes

-----------------------------------------------------------------------------
AccessDone == step = "done" /\ op # SbrkCall

\* The word of a register that an emulated load changes.  The emulation writes
\* word rt of the frame: that is register rt where a register is one word.
\* Where it is two, it is half of another one, register rt / 2; the one the
\* load names stays as it was.
LoadTarget ==
  IF op.op \in Loads
  THEN {IF Wide(proc) THEN <<op.rt \div 2, 1 + (op.rt % 2)>> ELSE <<op.rt, 1>>}
  ELSE {}

\* Between its own instructions a program finds every word of every register as
\* it left it, whatever the handlers in between used, but for the two kernel
\* registers; an emulated load changes one word and an emulated store none.
\* Which word that is on the packet processor is an error of the emulation.
RegistersPreserved ==
  proc # "none" /\ step \in {"run", "sbrk", "done"} =>
    \A r \in Registers \ Kernel : \A w \in RegisterWords(proc) :
      gpr[r][w] = before[r][w] \/ (AccessDone /\ <<r, w>> \in LoadTarget)

\* A program that executed an instruction its core lacks goes on after it,
\* once: at the next address, or where the branch goes whose delay slot it
\* filled; on the TPC it never goes on.  The emulation adds to the return
\* address only what the coprocessor has not.
ResumesAfterAccess ==
  /\ AccessDone => pc = (IF op.delay_slot THEN Target ELSE Here + 4)
  /\ AccessDone => proc # "tpc"
  /\ proc # "none" /\ step \in {"run", "sbrk"} => pc = Here

\* Two blocks of the heap are the same memory only if a handler's malloc
\* preempted sbrk between its load and its store of heap_end; the handler's
\* block is then the one the program gets as well.
HeapDisjoint ==
  \A i, j \in DOMAIN blocks :
    i # j /\ blocks[i].start = blocks[j].start =>
      "preempting" \in {blocks[i].owner, blocks[j].owner}

\* Every routine returns, and every program ends, halts, or executes for ever
\* an instruction the handlers do not know.
EveryCallEnds ==
  <>(/\ at = "done"
     /\ \/ step \in {"done", "halted"}
        \/ op # SbrkCall /\ op.op \notin Loads \union Stores)
=============================================================================
