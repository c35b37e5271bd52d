---------------------- MODULE RomAcceleratorProperties ----------------------
(* What is asked of the rom accelerator: RomAccelerator and its parts.      *)
EXTENDS RomAccelerator

FirmwareTypes ==
  /\ pc \in {"poll", "clear_start", "configure_pe", "reset_pe", "configure_dm", "start_dm",
             "wait", "clear_done", "signal"}
  /\ start_execution \in {0, 1} /\ execution_done \in {0, 1}
  /\ job \in [{"src", "dst", "size"} -> Nat]
  /\ DOMAIN pe = PeRegisters /\ written \subseteq PeRegisters

InterruptTypes ==
  /\ point \in {"main", "entered", "read", "served", "returning"}
  /\ cause \subseteq DOMAIN CauseBit /\ code \subseteq DOMAIN CauseBit
  /\ triggered \in DOMAIN CauseBit \union {"none"}

TaskTypes ==
  /\ launch_lane \in BOOLEAN /\ completion_lane \in BOOLEAN /\ running \in BOOLEAN
  /\ config \in Configs \union {NoConfig} /\ request \in Configs \union {NoConfig}
  /\ launches \in 0 .. MaxLaunches

\* The variables keep their types.
TypeOK ==
  /\ DmTypeOK /\ FirmwareTypes /\ InterruptTypes /\ TaskTypes
  /\ copied \in [Directions -> Nat]

\* The weakness of a core without an interrupt controller (two pending lanes
\* match no case of the handler's switch, and the eret acknowledges both) is
\* never met: the packet processor launches only after the answer, and main
\* answers only after it has seen the datamover's interrupt.  Were the lanes
\* ever pending together, both interrupts would be lost.
LanesExclusive == cause \union lanes # DOMAIN CauseBit

\* Between its start and its end a transfer is where its bursts have brought
\* it: nothing of the image is left out, moved twice or moved out of order, no
\* burst is longer than the datamover's length field holds, and the transfer
\* that ends has moved all of it.
BurstsCoverImage ==
  \A d \in Directions :
    LET start == IF d = "mm2s" THEN job.src ELSE job.dst
        burst == current_burst_size(d)
    IN
    /\ transfer_state[d] \in {"START_TRANSFER", "TRANSFER"} =>
         /\ current_start_addr[d] = start + copied[d]
         /\ num_data_left[d] = job.size - copied[d]
         /\ burst <= MaxBurst
         /\ burst = 0 => job.size = 0
    /\ transfer_state[d] = "FINISHED" => copied[d] = job.size

\* The mask the name of a filter stands for, by what its registers are for.
\* SOBELY5x5 is left out: the firmware gives it the x mask (main.c line 130).
NamedMasks ==
  [SOBELX3x3 |-> <<"sobelX_3x3_mask">>, SOBELY3x3 |-> <<"sobelY_3x3_mask">>,
   SOBELXY3x3 |-> <<"sobelX_3x3_mask", "sobelY_3x3_mask">>,
   SOBELX5x5 |-> <<"sobelX_5x5_mask">>,
   SOBELXY5x5 |-> <<"sobelX_5x5_mask", "sobelY_5x5_mask">>,
   GAUSS3x3 |-> <<"gauss_3x3_mask">>, GAUSS5x5 |-> <<"gauss_5x5_mask">>,
   CUSTOM_FILTER3x3 |-> <<config.mask0, config.mask1>>,
   CUSTOM_FILTER5x5 |-> <<config.mask0, config.mask1>>]

\* While the processing element works on a known task, every register its
\* operation reads has been written for this task, not for an earlier one (the
\* firmware writes only some of them), and the operation word, put together
\* field by field, is taken apart into the colour model, border handling and
\* operator of the task.
PeConfigured ==
  LET op == OpFields(pe.operation)
      coeffs == <<pe.coeffs0, pe.coeffs1>>
  IN
  pc \in {"configure_dm", "start_dm", "wait"} /\ request.task \in KnownTasks =>
    /\ RegistersOf(pe.operation) \subseteq written
    /\ op.color = ColorBit(request.color) /\ op.border = BorderBits(request.border)
    /\ op.kernel = OpType(request.task)
    /\ pe.window = IF request.task \in Tasks3 THEN 3 ELSE 5
    /\ op.kernel = 0 /\ op.parameter = 1 => pe.normalize = NormalizeVal(request)
    /\ op.kernel = 1 /\ op.parameter = 1 => pe.threshold = request.threshold
    /\ request.task \in DOMAIN NamedMasks =>
         \A i \in DOMAIN NamedMasks[request.task] : coeffs[i] = NamedMasks[request.task][i]

ImageBytes == [c \in Configs |-> c.width * c.height * get_pixel_storage(c.color)]

Service == INSTANCE AcceleratorService WITH
  Tasks <- Configs, NoTask <- NoConfig,
  Representable <- {c \in Configs : ImageBytes[c] < Word}, failed <- int_error

\* The flags, the two interrupts, the busy waiting and the burst machinery
\* together keep the promise of AcceleratorService: the packet processor is
\* answered once for each launch, after both directions have moved the whole
\* image (unless its size overflows 32 bits), and nothing beyond it is moved.
ImplementsService == Service!Spec

\* A launched task is answered, unless the datamover fails; main then waits
\* for ever (main.c line 270).
EveryLaunchAnswered == request # NoConfig ~> (request = NoConfig \/ int_error)
=============================================================================
