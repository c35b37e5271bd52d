------------------------ MODULE InterruptController ------------------------
(***************************************************************************)
(* The interrupt hardware of the packet processor, clock cycle by clock    *)
(* cycle: the demultiplexers of the processors that interrupt it           *)
(* (interrupt_demux.vhd), its arbiter and controller                       *)
(* (interrupt_arbiter.vhd, interrupt_controller.vhd), the acknowledge      *)
(* logic of packet_processor_top.vhd and, as far as it decides what is     *)
(* acknowledged, coprocessor 0 of its core.                                *)
(*                                                                         *)
(* Every clocked process of the VHDL is an operator that gives the next    *)
(* value of its own registers; a cycle is their conjunction.  Vectors of   *)
(* lanes are sets of lanes.  Registers that always hold the same value     *)
(* (ITYPE and RCV_INT_TYPE, INUMSLV and RCV_INT_NUM, REG_WORK_LEFT and     *)
(* RCV_WORK_LEFT) are one variable.  The core runs, TP_HALT is low: the    *)
(* TPC raises no interrupt before it has released the packet processor.    *)
(***************************************************************************)
EXTENDS Integers, FiniteSets, FiniteSetsExt

CONSTANTS
  N,            \* accelerator cores
  Sources,      \* bound: the lanes on which interrupts are raised
  Exceptions    \* whether memory accesses may raise exceptions

ASSUME ControllerAssumption ==
  /\ N \in Nat \ {0}
  /\ Sources \subseteq 0 .. N + 4
  /\ Exceptions \in BOOLEAN

Lanes == 0 .. N + 4
AqlLane == N + 4
None == -1

TypeOf(l) ==
  CASE l = N + 3 -> "transfer"
    [] l = N + 2 -> "completion"
    [] l = N + 1 -> "add_core"
    [] l = N     -> "remove_core"
    [] OTHER     -> "kernel"

\* the type's bit of the cause register
CauseBit == [kernel |-> 15, transfer |-> 14, completion |-> 13, add_core |-> 12, remove_core |-> 11]

VARIABLES
  \* INTERRUPT_DEMUX of the senders
  dmx_ints,         \* INTS
  int_lanes,        \* INT_LANES, the lanes between the processors
  \* INTERRUPT_ARBITER
  ints, acks,       \* INTS, ACKS
  lanes_response,   \* INT_LANES_RESPONSE
  int_num, int_sig, \* INT_NUM, INT_SIG
  \* INTERRUPT_CONTROLLER
  state,            \* STATE
  itype, inum,      \* the interrupt presented to the core
  work_left,        \* the AQL_LEFT register of the firmware
  \* packet_processor_top and the core
  prev_ack,         \* r_prev_cpu_irq_ack
  r_exception,
  eret,             \* the core decodes an eret: interrupt_ack
  eret_delayed,     \* s_eret_delayed_1 and s_eret_delayed_2
  cause, triggered, \* pending bits of cause_reg; triggered_exception
  level,            \* what the core executes: "main", "interrupt", "exception"
  handling          \* history: the lane whose handler runs

dmxVars == <<dmx_ints, int_lanes>>
arbVars == <<ints, acks, lanes_response, int_num, int_sig>>
ctlVars == <<state, itype, inum, work_left>>
topVars == <<prev_ack, r_exception>>
cpuVars == <<eret, eret_delayed, cause, triggered, level, handling>>

vars == <<dmxVars, arbVars, ctlVars, topVars, cpuVars>>

Init ==
  /\ dmx_ints = {} /\ int_lanes = {}
  /\ ints = {} /\ acks = {} /\ lanes_response = {}
  /\ int_num = 0 /\ int_sig = FALSE
  /\ state = "idle" /\ itype = "none" /\ inum = 0
  /\ work_left = FALSE
  /\ prev_ack = FALSE /\ r_exception = FALSE
  /\ eret = FALSE /\ eret_delayed = <<FALSE, FALSE>>
  /\ cause = {} /\ triggered = "none"
  /\ level = "main" /\ handling = None
-----------------------------------------------------------------------------
(* Where a request is between the sender and the controller.               *)

Granted == IF int_sig THEN {int_num} ELSE {}
Pending == (dmx_ints \ int_lanes) \union (int_lanes \ acks) \union ints \union Granted
Serving == IF state = "send" THEN inum ELSE None

\* A sender raises a lane again only when the lane has fallen, which takes the
\* handshake a few cycles and a program many more; all but the doorbell only
\* after the last request was served (PacketProcessor's OneRequestPerEngine).
MayRaise(l) ==
  /\ l \in Sources \ (dmx_ints \union int_lanes)
  /\ l # AqlLane => l \notin Pending \union {Serving, handling}

-----------------------------------------------------------------------------
(* INTERRUPT_DEMUX: SND_INT_SIG with SND_INT_NUM sets a lane, the          *)
(* receiver's response clears it.                                          *)

\* MUTANT of Distribute: the lanes are wired one position too high
DistributeShifted(raised) ==
  /\ dmx_ints' = (dmx_ints \ lanes_response) \union raised
  /\ int_lanes' = {l + 1 : l \in dmx_ints}

Distribute(raised) ==
  /\ dmx_ints' = (dmx_ints \ lanes_response) \union raised
  /\ int_lanes' = dmx_ints

(* INTERRUPT_ARBITER, enabled by READY: grants the lowest latched lane.    *)

Ready == ~int_sig /\ state = "idle"

\* MUTANT of Preferred: the highest lane comes first
Highest == Max(ints)

Preferred == Min(ints)

OneHot == IF ints = {} THEN {} ELSE {Preferred}

RisingEdges == int_lanes \ acks

\* MUTANT of Latch: a lane is latched for as long as it is high
LatchLevels(granted) == (ints \union int_lanes) \ granted

Latch(granted) == (ints \union RisingEdges) \ granted

Schedule ==
  /\ IF Ready
     THEN /\ int_num' = IF ints = {} THEN 0 ELSE Preferred
          /\ int_sig' = (ints # {})
          /\ ints' = Latch(OneHot)
     ELSE /\ int_num' = 0 /\ int_sig' = FALSE
          /\ ints' = Latch({})
  /\ acks' = int_lanes
  /\ lanes_response' = acks
-----------------------------------------------------------------------------
(* The acknowledge: the first cycle of an eret that leaves no exception.   *)

Response == eret /\ ~prev_ack /\ ~r_exception

(* INTERRUPT_CONTROLLER.  clear: the firmware writes 0 to AQL_LEFT.        *)

WorkLeft(clear) == IF clear THEN FALSE ELSE work_left

\* MUTANT of GrantAql: the firmware's reset overrides a doorbell
GrantAqlLast(clear) ==
  /\ state = "idle" /\ int_sig /\ int_num = AqlLane
  /\ work_left' = ~clear
  /\ UNCHANGED <<state, itype, inum>>

\* a doorbell sets the register, even in the cycle of a reset
GrantAql(clear) ==
  /\ state = "idle" /\ int_sig /\ int_num = AqlLane
  /\ work_left' = TRUE
  /\ UNCHANGED <<state, itype, inum>>

GrantLane(clear) ==
  /\ state = "idle" /\ int_sig /\ int_num # AqlLane
  /\ state' = "send" /\ itype' = TypeOf(int_num) /\ inum' = int_num
  /\ work_left' = WorkLeft(clear)

\* MUTANT of Answered: the type is not reset
AnsweredStale(clear) ==
  /\ state = "send" /\ Response
  /\ state' = "idle" /\ UNCHANGED <<itype, inum>>
  /\ work_left' = WorkLeft(clear)

Answered(clear) ==
  /\ state = "send" /\ Response
  /\ state' = "idle" /\ itype' = "none" /\ UNCHANGED inum
  /\ work_left' = WorkLeft(clear)

Hold(clear) ==
  /\ (state = "idle" /\ ~int_sig) \/ (state = "send" /\ ~Response)
  /\ work_left' = WorkLeft(clear)
  /\ UNCHANGED <<state, itype, inum>>

Processing(clear) == GrantAql(clear) \/ GrantLane(clear) \/ Answered(clear) \/ Hold(clear)
-----------------------------------------------------------------------------
(* packet_processor_top: the shift registers behind the acknowledge.       *)

ShiftRegisters(exc) ==
  /\ prev_ack' = eret
  /\ r_exception' = CASE prev_ack                           -> FALSE
                      [] ~prev_ack /\ itype # "none" /\ ~r_exception -> FALSE
                      [] OTHER                              -> r_exception \/ exc

(* Coprocessor 0.  A presented interrupt sets its cause bit; with          *)
(* interrupts enabled (ie) the pending interrupt with the lowest bit       *)
(* triggers, but an exception of the same cycle is what the core enters.   *)
(* A core built without exceptions takes none: it behaves as with ie low   *)
(* in the cycle of an exception, or as without the exception.              *)

Presented == {itype} \ {"none"}
Asserted == cause \union Presented
LowestBit == CHOOSE t \in Asserted : \A u \in Asserted : CauseBit[t] <= CauseBit[u]

Trigger(ie, exc) ==
  triggered' = IF level = "main" /\ ie /\ Asserted # {} THEN LowestBit ELSE triggered

\* the bit of the triggered interrupt is removed two cycles after the eret
LatchCause ==
  cause' = (IF eret_delayed[2] THEN cause \ {triggered} ELSE cause) \union Presented

TakeException(ie, exc) ==
  /\ level = "main" /\ ie /\ exc
  /\ level' = "exception"
  /\ UNCHANGED handling

TakeInterrupt(ie, exc) ==
  /\ level = "main" /\ ie /\ ~exc /\ Asserted # {}
  /\ level' = "interrupt"
  /\ handling' = inum

RunMain(ie, exc) ==
  /\ level = "main" /\ ~(ie /\ (exc \/ Asserted # {}))
  /\ UNCHANGED <<level, handling>>

\* two cycles after the eret the core leaves exception level
RunHandler ==
  /\ level # "main" /\ ~eret_delayed[2]
  /\ UNCHANGED <<level, handling>>

LeaveHandler ==
  /\ level # "main" /\ eret_delayed[2]
  /\ level' = "main"
  /\ handling' = None

\* an eret is decoded for one cycle or two
Eret(ret) ==
  /\ eret' = /\ ret /\ level # "main" /\ ~eret_delayed[1] /\ ~eret_delayed[2]
  /\ eret_delayed' = <<eret, eret_delayed[1]>>

Coprocessor0(ie, exc) ==
  /\ TakeException(ie, exc) \/ TakeInterrupt(ie, exc) \/ RunMain(ie, exc) \/ RunHandler \/ LeaveHandler
  /\ Trigger(ie, exc)
  /\ LatchCause
-----------------------------------------------------------------------------
(* A cycle.  Its inputs: the interrupts the other processors send, the     *)
(* firmware's writes to AQL_LEFT, exceptions of memory accesses, whether   *)
(* the main program has interrupts enabled, and a handler's eret.          *)
Cycle ==
  /\ \E raised \in SUBSET {l \in Lanes : MayRaise(l)} : Distribute(raised)
  /\ Schedule
  /\ \E clear \in BOOLEAN : Processing(clear)
  /\ \E exc \in {e \in BOOLEAN : e => Exceptions} :
       /\ ShiftRegisters(exc)
       /\ \E ie \in {b \in BOOLEAN : b => level = "main"} : Coprocessor0(ie, exc)
  /\ \E ret \in {b \in BOOLEAN : b => level # "main"} : Eret(ret)

Next == Cycle

Spec == Init /\ [][Next]_vars

(* The clock runs; the firmware enables interrupts again and again, and     *)
(* every handler returns.                                                   *)
Fairness ==
  /\ WF_vars(Next)
  /\ WF_vars(level = "main" /\ Next /\ level' # "main")
  /\ WF_vars(level # "main" /\ ~eret /\ Next /\ eret')

FairSpec == Spec /\ Fairness
-----------------------------------------------------------------------------
Types == DOMAIN CauseBit

\* The type invariant: every register keeps the width the VHDL gives it.
TypeOK ==
  /\ dmx_ints \subseteq Lanes /\ int_lanes \subseteq Lanes
  /\ ints \subseteq Lanes /\ acks \subseteq Lanes /\ lanes_response \subseteq Lanes
  /\ int_num \in Lanes /\ int_sig \in BOOLEAN
  /\ state \in {"idle", "send"} /\ itype \in Types \union {"none"} /\ inum \in Lanes /\ work_left \in BOOLEAN
  /\ prev_ack \in BOOLEAN /\ r_exception \in BOOLEAN
  /\ eret \in BOOLEAN /\ eret_delayed \in BOOLEAN \X BOOLEAN
  /\ cause \subseteq Types /\ triggered \in Types \union {"none"}
  /\ level \in {"main", "interrupt", "exception"}
  /\ handling \in Lanes \union {None}

\* A request is in one place at a time: it is still in its sender, on a lane
\* not yet latched, latched, granted or served, so that it cannot be presented
\* twice; the doorbell alone may be on its way again while latched.
OnePlace ==
  /\ \A l \in Lanes \ {AqlLane} :
       Cardinality({i \in 1 .. 5 :
         l \in <<dmx_ints \ int_lanes, int_lanes \ acks, ints, Granted, {Serving}>>[i]}) <= 1
  /\ int_sig => state = "idle"

\* A handler was entered for the interrupt the controller still presents, and
\* for that one alone: until its eret the cause register, which the exception
\* handler tells the interrupts apart by, has that bit only, and RCV_INT_NUM,
\* which interrupt_kernel reads, names the core it was entered for.
HandlerMatches ==
  level = "interrupt" /\ ~eret_delayed[1] /\ ~eret_delayed[2] =>
    /\ Serving = handling
    /\ itype = TypeOf(handling)
    /\ cause = {itype}

\* The hardware implements InterruptDelivery: no request is lost, presented
\* twice or forgotten by a reset of AQL_LEFT.
Delivery == INSTANCE InterruptDelivery WITH
  Lines <- Lanes, AQL <- AqlLane,
  requested <- Pending, work <- work_left, serving <- Serving

ImplementsDelivery == Delivery!Spec

\* The arbiter prefers low lanes: a request waits for ever only if lower lanes
\* keep requesting for ever.
OnlyLowerLanesDelay ==
  \A l \in Lanes : <>[](l \in ints) => []<>(\E k \in ints : k < l)

\* packet_processor_top.vhd line 427, "only send the irq ack when it is caused
\* by an interrupt and not by an exception".
AckCausedByInterrupt == Response => level = "interrupt"
=============================================================================
