--------------------------- MODULE RomAccelerator ---------------------------
(***************************************************************************)
(* A rom accelerator at work: the firmware of its command processor        *)
(* (rom_accel_cmd_processor, main.c: main and run_computation step by      *)
(* step), the way its core takes the two interrupts (exception_handler.c,  *)
(* rom_accel_cmd_processor_top.vhd, coprocessor0.vhd), the datamover, and  *)
(* the packet processor as the side that launches a task only when the     *)
(* core has answered the one before.                                       *)
(*                                                                         *)
(* The core has no interrupt controller: both lanes are pins of            *)
(* coprocessor 0, the handler tells them apart by the whole pending field, *)
(* and the eret acknowledges both.  One clock is assumed for the core and  *)
(* the datamover, and that the packet processor's transfers leave the      *)
(* configuration memory alone while the core runs.                         *)
(***************************************************************************)
EXTENDS PeConfiguration, Datamover

CONSTANTS
  Configs,       \* bound: what may be in the configuration memory at a launch
  MaxLaunches    \* bound: launches of a behaviour

\* the fields of the configuration memory
TaskConfigs ==
  [task : STRING, color : STRING, border : STRING, normalization : Nat, threshold : Nat,
   width : Nat, height : Nat, src : Nat, dst : Nat, mask0 : STRING, mask1 : STRING]

NoConfig == [task |-> "none"]

ASSUME RomAssumption == Configs \subseteq TaskConfigs /\ MaxLaunches \in Nat

VARIABLES
  \* the firmware
  pc,                \* where main is
  start_execution, execution_done,
  job,               \* locals of run_computation: addresses and sizes
  pe,                \* registers of the processing element
  \* the core's interrupts
  point,             \* "main", "entered", "read", "served", "returning"
  cause, triggered,  \* pending bits of cause_reg; triggered_exception
  code,              \* interrupt_code of the handler
  \* the lanes and the packet processor
  launch_lane,       \* from the packet processor
  completion_lane,   \* to the packet processor
  running,           \* the packet processor's view of the core
  config,            \* configuration memory
  launches,
  \* history
  request,           \* the task to be answered
  written,           \* registers of the processing element written for it
  copied             \* bytes each direction has transferred for it

fwVars == <<pc, start_execution, execution_done, job, pe, written>>
intVars == <<point, cause, triggered, code>>
ppVars == <<launch_lane, completion_lane, running, config, launches, request>>
vars == <<fwVars, intVars, ppVars, copied, dmVars>>

\* by the bit of the cause register, 15 - lane
CauseBit == [launch |-> 15, finished |-> 14]

lanes == (IF launch_lane THEN {"launch"} ELSE {})
           \union (IF int_finished THEN {"finished"} ELSE {})

NoJob == [src |-> 0, dst |-> 0, size |-> 0]

Init ==
  /\ DmInit
  /\ pc = "poll" /\ start_execution = 0 /\ execution_done = 0 /\ job = NoJob
  /\ pe = [r \in PeRegisters |-> IF r \in {"coeffs0", "coeffs1"} THEN "reset" ELSE 0]
  /\ point = "main" /\ cause = {} /\ triggered = "none" /\ code = {}
  /\ launch_lane = FALSE /\ completion_lane = FALSE /\ running = FALSE
  /\ config = NoConfig /\ launches = 0
  /\ request = NoConfig /\ written = {}
  /\ copied = [d \in Directions |-> 0]

-----------------------------------------------------------------------------
(* The packet processor.                                                    *)

\* the task's configuration is in place when its core is launched
Launch(c) ==
  /\ ~running /\ launches < MaxLaunches
  /\ launches' = launches + 1
  /\ running' = TRUE /\ launch_lane' = TRUE
  /\ config' = c
  /\ request' = c /\ written' = {} /\ copied' = [d \in Directions |-> 0]
  /\ UNCHANGED <<pc, start_execution, execution_done, job, pe, completion_lane, intVars, dmVars>>

\* its kernel interrupt finds the core idle again
TakeCompletion ==
  /\ completion_lane
  /\ completion_lane' = FALSE /\ running' = FALSE
  /\ UNCHANGED <<launch_lane, config, launches, request, fwVars, intVars, copied, dmVars>>

-----------------------------------------------------------------------------
(* main.  A step is taken while no handler runs.                            *)

Main(from, to) ==
  /\ point = "main" /\ pc = from
  /\ pc' = to

Poll ==
  /\ Main("poll", "clear_start") /\ start_execution = 1
  /\ UNCHANGED <<start_execution, execution_done, job, pe, written, intVars, ppVars, copied, dmVars>>

ClearStart ==
  /\ Main("clear_start", "configure_pe")
  /\ start_execution' = 0
  /\ UNCHANGED <<execution_done, job, pe, written, intVars, ppVars, copied, dmVars>>

\* reads the configuration and writes the processing element's
WritePe ==
  /\ Main("configure_pe", "reset_pe")
  /\ job' = [src |-> config.src, dst |-> config.dst, size |-> SizeIn(config)]
  /\ pe' = ConfigurePe(pe, config)
  /\ written' = written \union DOMAIN PeWrites(config)
  /\ UNCHANGED <<start_execution, execution_done, intVars, ppVars, copied, dmVars>>

\* fire_interrupt(INTERRUPT_TO_PE)
ResetPe ==
  /\ Main("reset_pe", "configure_dm")
  /\ UNCHANGED <<start_execution, execution_done, job, pe, written, intVars, ppVars, copied, dmVars>>

ConfigureDatamover ==
  /\ Main("configure_dm", "start_dm")
  /\ config_addr' = [mm2s |-> job.src, s2mm |-> job.dst]
  /\ config_size' = [d \in Directions |-> job.size]
  /\ UNCHANGED <<start_execution, execution_done, job, pe, written, intVars, ppVars, copied,
                 int_start, transfer_state, num_data_left, current_start_addr, finished_reg>>

\* fire_interrupt(INTERRUPT_TO_DATAMOVER)
StartDatamover ==
  /\ Main("start_dm", "wait")
  /\ int_start' = TRUE
  /\ UNCHANGED <<start_execution, execution_done, job, pe, written, intVars, ppVars, copied,
                 config_addr, config_size, transfer_state, num_data_left, current_start_addr,
                 finished_reg>>

\* MUTANT of AwaitDone: main does not wait for the datamover
AwaitNothing ==
  /\ Main("wait", "clear_done")
  /\ UNCHANGED <<start_execution, execution_done, job, pe, written, intVars, ppVars, copied, dmVars>>

AwaitDone ==
  /\ Main("wait", "clear_done") /\ execution_done = 1
  /\ UNCHANGED <<start_execution, execution_done, job, pe, written, intVars, ppVars, copied, dmVars>>

ClearDone ==
  /\ Main("clear_done", "signal")
  /\ execution_done' = 0
  /\ UNCHANGED <<start_execution, job, pe, written, intVars, ppVars, copied, dmVars>>

\* fire_interrupt(INTERRUPT_TO_PACKETPROCESSOR)
SignalPacketProcessor ==
  /\ Main("signal", "poll")
  /\ completion_lane' = TRUE
  /\ request' = NoConfig
  /\ UNCHANGED <<start_execution, execution_done, job, pe, written, launch_lane, running, config,
                 launches, intVars, copied, dmVars>>

MainStep ==
  \/ Poll \/ ClearStart \/ WritePe \/ ResetPe \/ ConfigureDatamover \/ StartDatamover
  \/ AwaitDone \/ ClearDone \/ SignalPacketProcessor

-----------------------------------------------------------------------------
(* Interrupts.  A high lane sets its cause bit in every cycle.              *)

Handle(from, to) ==
  /\ point = from
  /\ point' = to

EnterHandler ==
  /\ Handle("main", "entered") /\ cause \union lanes # {}
  /\ cause' = cause \union lanes
  /\ triggered' = CHOOSE l \in cause' : \A k \in cause' : CauseBit[l] <= CauseBit[k]
  /\ UNCHANGED <<code, fwVars, ppVars, copied, dmVars>>

ReadCause ==
  /\ Handle("entered", "read")
  /\ cause' = cause \union lanes
  /\ code' = cause'
  /\ UNCHANGED <<triggered, fwVars, ppVars, copied, dmVars>>

handle_interrupt_from_packetprocessor ==
  /\ code = {"launch"}
  /\ start_execution' = 1 /\ execution_done' = 0

handle_interrupt_from_datamover ==
  /\ code = {"finished"}
  /\ execution_done' = 1
  /\ UNCHANGED start_execution

\* the switch compares interrupt_code with single bits only
Serve ==
  /\ Handle("read", "served")
  /\ \/ handle_interrupt_from_packetprocessor
     \/ handle_interrupt_from_datamover
     \/ code \notin {{"launch"}, {"finished"}} /\ UNCHANGED <<start_execution, execution_done>>
  /\ cause' = cause \union lanes
  /\ UNCHANGED <<triggered, code, pc, job, pe, written, ppVars, copied, dmVars>>

\* the eret acknowledges every high lane
Return ==
  /\ Handle("served", "returning")
  /\ cause' = cause \union lanes
  /\ launch_lane' = FALSE
  /\ finished_reg' = FinishedAfterAck(int_finished)
  /\ UNCHANGED <<triggered, code, fwVars, completion_lane, running, config, launches, request, copied,
                 config_addr, config_size, int_start, transfer_state, num_data_left,
                 current_start_addr>>

\* two cycles later the bit of the triggered interrupt is removed
LeaveHandler ==
  /\ Handle("returning", "main")
  /\ cause' = (cause \ {triggered}) \union lanes
  /\ triggered' = "none" /\ code' = {}
  /\ UNCHANGED <<fwVars, ppVars, copied, dmVars>>

HandlerStep == EnterHandler \/ ReadCause \/ Serve \/ Return \/ LeaveHandler

-----------------------------------------------------------------------------
(* The datamover.                                                           *)

Transferred(d) ==
  /\ BurstDone(d)
  /\ copied' = [copied EXCEPT ![d] = @ + current_burst_size(d)]
  /\ UNCHANGED <<fwVars, intVars, ppVars>>

DatamoverStep(d) ==
  \/ (Initialized(d) \/ CommandTaken(d) \/ Finished(d)) /\ UNCHANGED <<fwVars, intVars, ppVars, copied>>
  \/ Transferred(d)

Started == DmStart /\ UNCHANGED <<fwVars, intVars, ppVars, copied>>

Broken(d) == BurstError(d) /\ UNCHANGED <<fwVars, intVars, ppVars, copied>>

Next ==
  \/ \E c \in Configs : Launch(c)
  \/ TakeCompletion
  \/ MainStep
  \/ HandlerStep
  \/ Started
  \/ \E d \in Directions : DatamoverStep(d) \/ Broken(d)

Spec == Init /\ [][Next]_vars

\* The core runs its program and serves its interrupts, the packet processor
\* serves its own, the state machines are clocked, and the Xilinx core takes
\* and ends what it is given.  It need not fail.
Fairness ==
  /\ WF_vars(MainStep)
  /\ WF_vars(HandlerStep)
  /\ WF_vars(TakeCompletion)
  /\ WF_vars(Started)
  /\ \A d \in Directions : WF_vars(DatamoverStep(d))

FairSpec == Spec /\ Fairness
=============================================================================
