----------------------------- MODULE Datamover -----------------------------
(***************************************************************************)
(* The datamover beside the rom accelerator (util/datamover): it streams   *)
(* an image from memory to the processing element (mm2s) and the result    *)
(* back (s2mm).  Each direction has a state machine that cuts its transfer *)
(* into bursts and hands them, one at a time, to a Xilinx AXI DataMover,   *)
(* which takes a command when it is ready and later reports a status.      *)
(*                                                                         *)
(* Both state machines see int_start in the same cycle; apart from that    *)
(* they wait for handshakes of any length and so take their steps          *)
(* independently.  Addresses do not wrap.                                  *)
(***************************************************************************)
EXTENDS Integers

CONSTANT MaxBurst    \* DATAMOVER_MAX_BURST_LENGTH, 2^23 - 1 in the hardware

ASSUME DatamoverAssumption == MaxBurst \in Nat \ {0}

Directions == {"mm2s", "s2mm"}
TransferStates == {"IDLE", "INITIALIZE", "START_TRANSFER", "TRANSFER", "FINISHED", "ERROR"}

VARIABLES
  config_addr, config_size,   \* axi_config: where and how much to transfer
  int_start,                  \* the lane that starts a transfer
  transfer_state,
  num_data_left,
  current_start_addr,
  finished_reg                \* mm2s_finished_reg, s2mm_finished_reg

dmVars == <<config_addr, config_size, int_start, transfer_state, num_data_left,
            current_start_addr, finished_reg>>

DmTypeOK ==
  /\ config_addr \in [Directions -> Nat] /\ config_size \in [Directions -> Nat]
  /\ int_start \in BOOLEAN
  /\ transfer_state \in [Directions -> TransferStates]
  /\ num_data_left \in [Directions -> Nat]
  /\ current_start_addr \in [Directions -> Nat]
  /\ finished_reg \in [Directions -> BOOLEAN]

DmInit ==
  /\ config_addr = [d \in Directions |-> 0] /\ config_size = [d \in Directions |-> 0]
  /\ int_start = FALSE
  /\ transfer_state = [d \in Directions |-> "IDLE"]
  /\ num_data_left = [d \in Directions |-> 0]
  /\ current_start_addr = [d \in Directions |-> 0]
  /\ finished_reg = [d \in Directions |-> FALSE]

\* MUTANT of int_finished: one direction's flag is enough
EitherFinished == \E d \in Directions : finished_reg[d]

int_finished == \A d \in Directions : finished_reg[d]
int_error == \E d \in Directions : transfer_state[d] = "ERROR"

\* MUTANT of current_burst_size: the last burst is not cut
UncutBurst(d) == MaxBurst + (0 * num_data_left[d])

current_burst_size(d) == IF num_data_left[d] < MaxBurst THEN num_data_left[d] ELSE MaxBurst

-----------------------------------------------------------------------------
(* A start clears the finished flags; only an idle state machine obeys it.  *)
DmStart ==
  LET idle(d) == transfer_state[d] = "IDLE" IN
  /\ int_start
  /\ int_start' = FALSE
  /\ finished_reg' = [d \in Directions |-> FALSE]
  /\ transfer_state' = [d \in Directions |-> IF idle(d) THEN "INITIALIZE" ELSE transfer_state[d]]
  /\ num_data_left' = [d \in Directions |-> IF idle(d) THEN config_size[d] ELSE num_data_left[d]]
  /\ current_start_addr' =
       [d \in Directions |-> IF idle(d) THEN config_addr[d] ELSE current_start_addr[d]]
  /\ UNCHANGED <<config_addr, config_size>>

Goto(d, from, to) ==
  /\ transfer_state[d] = from
  /\ transfer_state' = [transfer_state EXCEPT ![d] = to]

Initialized(d) ==
  /\ Goto(d, "INITIALIZE", "START_TRANSFER")
  /\ UNCHANGED <<config_addr, config_size, int_start, num_data_left, current_start_addr, finished_reg>>

\* the Xilinx core is ready for the command
CommandTaken(d) ==
  /\ Goto(d, "START_TRANSFER", "TRANSFER")
  /\ UNCHANGED <<config_addr, config_size, int_start, num_data_left, current_start_addr, finished_reg>>

\* MUTANT of BurstDone: the address stays
BurstDoneStuck(d) ==
  LET burst == current_burst_size(d)
      last == num_data_left[d] - burst = 0
  IN
  /\ Goto(d, "TRANSFER", IF last THEN "FINISHED" ELSE "START_TRANSFER")
  /\ num_data_left' = [num_data_left EXCEPT ![d] = IF last THEN @ ELSE @ - burst]
  /\ UNCHANGED <<config_addr, config_size, int_start, current_start_addr, finished_reg>>

\* MUTANT of BurstDone: only a burst shorter than the longest is taken for the last
BurstDoneShort(d) ==
  LET burst == current_burst_size(d)
      last == num_data_left[d] - burst = 0 /\ 0 < burst /\ burst < MaxBurst
  IN
  /\ Goto(d, "TRANSFER", IF last THEN "FINISHED" ELSE "START_TRANSFER")
  /\ num_data_left' = [num_data_left EXCEPT ![d] = IF last THEN @ ELSE @ - burst]
  /\ current_start_addr' = [current_start_addr EXCEPT ![d] = IF last THEN @ ELSE @ + burst]
  /\ UNCHANGED <<config_addr, config_size, int_start, finished_reg>>

\* it reports the burst done; the registers only move on to a next burst
BurstDone(d) ==
  LET burst == current_burst_size(d)
      last == num_data_left[d] - burst = 0
  IN
  /\ Goto(d, "TRANSFER", IF last THEN "FINISHED" ELSE "START_TRANSFER")
  /\ num_data_left' = [num_data_left EXCEPT ![d] = IF last THEN @ ELSE @ - burst]
  /\ current_start_addr' = [current_start_addr EXCEPT ![d] = IF last THEN @ ELSE @ + burst]
  /\ UNCHANGED <<config_addr, config_size, int_start, finished_reg>>

\* it reports an error, in whatever state: only a reset leaves ERROR
BurstError(d) ==
  /\ transfer_state[d] # "ERROR"
  /\ Goto(d, transfer_state[d], "ERROR")
  /\ UNCHANGED <<config_addr, config_size, int_start, num_data_left, current_start_addr, finished_reg>>

\* FINISHED lasts one cycle, which sets the finished flag
Finished(d) ==
  /\ Goto(d, "FINISHED", "IDLE")
  /\ finished_reg' = [finished_reg EXCEPT ![d] = TRUE]
  /\ UNCHANGED <<config_addr, config_size, int_start, num_data_left, current_start_addr>>

\* what int_finished_ack does to the flags
FinishedAfterAck(acknowledged) ==
  IF acknowledged THEN [d \in Directions |-> FALSE] ELSE finished_reg
=============================================================================
