--------------------------- MODULE TpcInterrupts ---------------------------
(***************************************************************************)
(* How the TPC takes the packet processor's interrupts.  Unlike the packet *)
(* processor it has no interrupt controller: the four lanes of the packet  *)
(* processor's demultiplexer are the interrupt pins of its core            *)
(* (fpga_cmd_processor_top.vhd), coprocessor 0 latches them in the cause   *)
(* register (coprocessor0_64.vhd) and the exception handler tells them     *)
(* apart by the whole pending field of that register                       *)
(* (exception_handler.c).                                                  *)
(*                                                                         *)
(* A handler runs in four steps, between which a lane may rise: the entry, *)
(* the reading of the cause register, the service and the eret with its    *)
(* two cycles of delay.                                                    *)
(***************************************************************************)
EXTENDS Integers, FiniteSets

CONSTANT Sources    \* the lanes on which the packet processor interrupts, of DOMAIN CauseBit

\* the lanes, by their bit of the cause register
CauseBit == [transfer |-> 15, completion |-> 14, added_core |-> 13, removed_core |-> 12]

None == "none"

VARIABLES
  lanes,        \* INT_LANES of the packet processor's demultiplexer
  cause,        \* the pending bits of cause_reg
  triggered,    \* triggered_exception
  point,        \* where the core is: "main", "entered", "read", "served", "returning"
  code,         \* interrupt_code of the handler
  requested,    \* requests the packet processor waits for an answer to
  processed     \* history: the request the running handler has served

vars == <<lanes, cause, triggered, point, code, requested, processed>>

Init ==
  /\ lanes = {} /\ cause = {} /\ triggered = None
  /\ point = "main" /\ code = {}
  /\ requested = {} /\ processed = None

\* the packet processor sends an interrupt, one of a kind at a time; a high
\* lane sets its cause bit
Request(l) ==
  /\ l \notin requested
  /\ requested' = requested \union {l}
  /\ lanes' = lanes \union {l}
  /\ cause' = cause \union {l}
  /\ UNCHANGED <<triggered, point, code, processed>>

\* of the pending interrupts coprocessor 0 takes the one with the lowest bit
EnterHandler ==
  /\ point = "main" /\ cause # {}
  /\ triggered' = CHOOSE l \in cause : \A k \in cause : CauseBit[l] <= CauseBit[k]
  /\ point' = "entered"
  /\ UNCHANGED <<lanes, cause, code, requested, processed>>

ReadCause ==
  /\ point = "entered"
  /\ code' = cause
  /\ point' = "read"
  /\ UNCHANGED <<lanes, cause, triggered, requested, processed>>

\* the switch has a case for each single bit; its answer interrupts the
\* packet processor
Serve(l) ==
  /\ point = "read" /\ code = {l}
  /\ requested' = requested \ {l}
  /\ processed' = l
  /\ point' = "served"
  /\ UNCHANGED <<lanes, cause, triggered, code>>

ServeNone ==
  /\ point = "read" /\ Cardinality(code) # 1
  /\ point' = "served"
  /\ UNCHANGED <<lanes, cause, triggered, code, requested, processed>>

\* interrupt_ack acknowledges every high lane
Return ==
  /\ point = "served"
  /\ lanes' = {}
  /\ point' = "returning"
  /\ UNCHANGED <<cause, triggered, code, requested, processed>>

\* s_eret_delayed_2: the bit of the triggered interrupt is removed; a lane that
\* is high again sets it again
LeaveHandler ==
  /\ point = "returning"
  /\ cause' = (cause \ {triggered}) \union lanes
  /\ triggered' = None /\ code' = {} /\ processed' = None
  /\ point' = "main"
  /\ UNCHANGED <<lanes, requested>>

Next ==
  \/ \E l \in Sources : Request(l)
  \/ EnterHandler \/ ReadCause
  \/ \E l \in DOMAIN CauseBit : Serve(l)
  \/ ServeNone \/ Return \/ LeaveHandler

Spec == Init /\ [][Next]_vars
-----------------------------------------------------------------------------
\* coprocessor0_64.vhd line 484, "remove interrupt pending signal for processed
\* interrupt": the pending bit an eret removes is that of an interrupt the
\* handler has served, not of one it has passed over.
RemovedWasProcessed == point = "returning" => processed = triggered
=============================================================================
