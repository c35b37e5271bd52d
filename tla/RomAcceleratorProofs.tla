------------------------ MODULE RomAcceleratorProofs ------------------------
(* Theorems about the rom accelerator, for every task configuration, image  *)
(* size, longest burst, word size and number of launches.                   *)
EXTENDS RomAcceleratorProperties, TLAPS

-----------------------------------------------------------------------------
(* The inductive invariant.                                                 *)

\* One task at a time: from its launch to its answer it is the one in the
\* configuration memory, and what main has computed is about it.
OneTask ==
  /\ running <=> request # NoConfig \/ completion_lane
  /\ request # NoConfig => ~completion_lane /\ config = request
  /\ request = NoConfig => pc = "poll"
  /\ pc \notin {"poll", "clear_start", "configure_pe"} =>
       job = [src |-> request.src, dst |-> request.dst, size |-> SizeIn(request)]

\* A handler runs for one interrupt, the only one that is pending, and only
\* while main waits for that interrupt.
OneInterrupt ==
  /\ point = "main" <=> triggered = "none"
  /\ cause = IF point = "main" THEN {} ELSE {triggered}
  /\ code = IF point \in {"main", "entered"} THEN {} ELSE {triggered}
  /\ point \in {"entered", "read", "served"} => lanes = {triggered}
  /\ point = "returning" => lanes = {}
  /\ triggered = "launch" => pc = "poll" /\ request # NoConfig
  /\ triggered = "finished" => pc = "wait" /\ ~int_start
  /\ pc \notin {"poll", "wait"} => point = "main"

\* The launch is delivered once: it is on the lane, or it is in start_execution
\* until main clears it (the lane is still high when the handler has just
\* stored the flag).
LaunchOnce ==
  /\ start_execution = 1 <=>
       \/ pc = "clear_start"
       \/ pc = "poll" /\ request # NoConfig /\ (launch_lane => point = "served")
  /\ launch_lane => pc = "poll" /\ request # NoConfig /\ triggered # "finished"

\* The datamover's interrupt is in execution_done from its handler on, and
\* until main clears it.
FinishOnce ==
  /\ execution_done = 1 => pc \in {"wait", "clear_done"} /\ ~int_start
  /\ pc = "clear_done" => execution_done = 1
  /\ triggered = "finished" => (execution_done = 1 <=> point \in {"served", "returning"})
  /\ int_start => pc = "wait"

\* the datamover works on the job
Moving == pc = "wait" /\ ~int_start /\ execution_done = 0

\* both directions have ended, and main knows it
Ended == pc = "signal" \/ execution_done = 1

Start(d) == IF d = "mm2s" THEN job.src ELSE job.dst

\* what a direction of the datamover has done of the job
Progress(d) ==
  /\ transfer_state[d] \in {"INITIALIZE", "START_TRANSFER", "TRANSFER"} =>
       /\ current_start_addr[d] = Start(d) + copied[d]
       /\ num_data_left[d] = job.size - copied[d]
       /\ num_data_left[d] = 0 => job.size = 0
  /\ transfer_state[d] = "FINISHED" => copied[d] = job.size
  /\ transfer_state[d] = "IDLE" => finished_reg[d]
  /\ finished_reg[d] => transfer_state[d] \in {"IDLE", "ERROR"} /\ copied[d] = job.size

\* A direction at rest has moved nothing or all; its finished flag stays until
\* the handler's eret.
AtRest(d) ==
  /\ transfer_state[d] \in {"IDLE", "ERROR"}
  /\ request # NoConfig => copied[d] = IF Ended THEN job.size ELSE 0
  /\ finished_reg[d] <=> triggered = "finished" /\ point = "served"

Transfers ==
  /\ pc = "start_dm" \/ int_start =>
       /\ config_addr = [mm2s |-> job.src, s2mm |-> job.dst]
       /\ config_size = [d \in Directions |-> job.size]
  /\ \A d \in Directions : IF Moving THEN Progress(d) ELSE AtRest(d)

RomInv == OneTask /\ OneInterrupt /\ LaunchOnce /\ FinishOnce /\ Transfers

-----------------------------------------------------------------------------
(* The values the actions build.                                            *)

LEMMA ConfigType ==
  ASSUME NEW c \in Configs
  PROVE  /\ c # NoConfig
         /\ c.src \in Nat /\ c.dst \in Nat /\ c.width \in Nat /\ c.height \in Nat
<1>1. c \in TaskConfigs
  BY RomAssumption
<1>2. "width" \in DOMAIN c /\ "width" \notin DOMAIN NoConfig
  BY <1>1 DEF TaskConfigs, NoConfig
<1>3. QED
  BY <1>1, <1>2 DEF TaskConfigs

LEMMA ProductType ==
  ASSUME NEW m \in Nat, NEW n \in Nat
  PROVE  m * n \in Nat
OBVIOUS

\* size_in is the image's size when an uint32_t holds it, and never more.
LEMMA SizeType ==
  ASSUME NEW c \in Configs
  PROVE  /\ ImageBytes[c] \in Nat
         /\ SizeIn(c) \in 0 .. ImageBytes[c]
         /\ ImageBytes[c] < Word => SizeIn(c) = ImageBytes[c]
<1>1. get_pixel_storage(c.color) \in Nat
  BY DEF get_pixel_storage
<1>2. c.width * c.height \in Nat
  BY ConfigType, ProductType
<1>3. c.width * c.height * get_pixel_storage(c.color) \in Nat
  BY <1>1, <1>2, ProductType
<1>4. \A n \in Nat : n % Word \in 0 .. n /\ (n < Word => n % Word = n)
  BY WordAssumption
<1>5. QED
  BY <1>3, <1>4 DEF ImageBytes, SizeIn

LEMMA BurstType ==
  ASSUME DmTypeOK, NEW d \in Directions
  PROVE  /\ current_burst_size(d) \in 0 .. num_data_left[d]
         /\ current_burst_size(d) <= MaxBurst
         /\ current_burst_size(d) = 0 => num_data_left[d] = 0
BY DatamoverAssumption DEF DmTypeOK, current_burst_size

LEMMA ParameterRegisters ==
  ASSUME NEW c
  PROVE  DOMAIN Parameter(c) \subseteq {"normalize", "threshold"}
BY DEF Parameter

LEMMA MaskRegisters ==
  ASSUME NEW c
  PROVE  DOMAIN MasksOf(c) \subseteq {"coeffs0", "coeffs1"}
BY DEF MasksOf

\* every register the firmware writes is one of the processing element's
LEMMA WritesRegisters ==
  ASSUME NEW c
  PROVE  DOMAIN PeWrites(c) \subseteq PeRegisters
BY ParameterRegisters, MaskRegisters DEF PeWrites, PeRegisters

-----------------------------------------------------------------------------
(* Which interrupt a handler runs for.                                      *)

\* a direction that is at rest outside the handler has no finished flag
LEMMA LanesInMain ==
  ASSUME TypeOK, RomInv, point = "main"
  PROVE  lanes \in {{}, {"launch"}, {"finished"}}
<1>1. CASE launch_lane
  <2>1. ~Moving /\ triggered = "none"
    BY <1>1 DEF RomInv, LaunchOnce, Moving, OneInterrupt
  <2>2. ~int_finished
    BY <2>1 DEF RomInv, Transfers, AtRest, int_finished, Directions
  <2>3. QED
    BY <1>1, <2>2 DEF lanes
<1>2. CASE ~launch_lane
  BY <1>2 DEF lanes
<1>3. QED
  BY <1>1, <1>2

\* the interrupt that is taken when one is pending
LEMMA OnlyPending ==
  ASSUME NEW l \in DOMAIN CauseBit
  PROVE  (CHOOSE m \in {l} : \A k \in {l} : CauseBit[m] <= CauseBit[k]) = l
<1>1. CauseBit[l] <= CauseBit[l]
  BY DEF CauseBit
<1>2. QED
  BY <1>1

LEMMA EnterTakesOne ==
  ASSUME TypeOK, RomInv, EnterHandler
  PROVE  /\ triggered' \in DOMAIN CauseBit
         /\ lanes = {triggered'} /\ cause' = {triggered'}
<1>1. cause = {} /\ lanes \in {{}, {"launch"}, {"finished"}}
  BY LanesInMain DEF RomInv, OneInterrupt, EnterHandler, Handle
<1>2. PICK l \in DOMAIN CauseBit : lanes = {l} /\ cause' = {l}
  BY <1>1 DEF EnterHandler, CauseBit
<1>3. triggered' = l
  BY <1>2, OnlyPending DEF EnterHandler
<1>4. QED
  BY <1>2, <1>3

-----------------------------------------------------------------------------
(* Type correctness.                                                        *)

\* What the variables an action leaves alone keep.
LEMMA UnchangedTypes ==
  /\ DmTypeOK /\ UNCHANGED dmVars => DmTypeOK'
  /\ FirmwareTypes /\ UNCHANGED fwVars => FirmwareTypes'
  /\ InterruptTypes /\ UNCHANGED intVars => InterruptTypes'
  /\ TaskTypes /\ UNCHANGED ppVars => TaskTypes'
<1>1. DmTypeOK /\ UNCHANGED dmVars => DmTypeOK'
  BY DEF DmTypeOK, dmVars
<1>2. FirmwareTypes /\ UNCHANGED fwVars => FirmwareTypes'
  BY DEF FirmwareTypes, fwVars
<1>3. InterruptTypes /\ UNCHANGED intVars => InterruptTypes'
  BY DEF InterruptTypes, intVars
<1>4. TaskTypes /\ UNCHANGED ppVars => TaskTypes'
  BY DEF TaskTypes, ppVars
<1>5. QED
  BY <1>1, <1>2, <1>3, <1>4

LEMMA TypeInit == Init => TypeOK
<1> SUFFICES ASSUME Init PROVE TypeOK
  OBVIOUS
<1>1. DmTypeOK
  BY DEF Init, DmInit, DmTypeOK, TransferStates
<1>2. FirmwareTypes
  <2>1. DOMAIN pe = PeRegisters
    BY DEF Init
  <2>2. job \in [{"src", "dst", "size"} -> Nat]
    BY DEF Init, NoJob
  <2>3. pc = "poll" /\ start_execution = 0 /\ execution_done = 0 /\ written = {}
    BY DEF Init
  <2>4. QED
    BY <2>1, <2>2, <2>3 DEF FirmwareTypes
<1>3. InterruptTypes /\ TaskTypes
  <2>1. InterruptTypes
    BY DEF Init, InterruptTypes
  <2>2. /\ launch_lane = FALSE /\ completion_lane = FALSE /\ running = FALSE
        /\ config = NoConfig /\ request = NoConfig /\ launches = 0
    BY DEF Init
  <2>3. launches \in 0 .. MaxLaunches
    BY <2>2, RomAssumption
  <2>4. QED
    BY <2>1, <2>2, <2>3 DEF TaskTypes
<1>4. copied \in [Directions -> Nat]
  BY DEF Init
<1>5. QED
  BY <1>1, <1>2, <1>3, <1>4 DEF TypeOK

\* WritePe stores natural numbers: it runs for a task that was launched
LEMMA WritePeTypes ==
  ASSUME TypeOK, RomInv, WritePe
  PROVE  FirmwareTypes'
<1>1. config \in Configs
  BY DEF TypeOK, TaskTypes, RomInv, OneTask, WritePe, Main
<1>2. job' \in [{"src", "dst", "size"} -> Nat]
  <2>1. config.src \in Nat /\ config.dst \in Nat /\ SizeIn(config) \in Nat
    BY <1>1, ConfigType, SizeType
  <2>2. QED
    BY <2>1 DEF WritePe
<1>3. DOMAIN pe' = PeRegisters
  BY DEF WritePe, ConfigurePe
<1>4. written' \subseteq PeRegisters
  BY WritesRegisters DEF WritePe, TypeOK, FirmwareTypes
<1>5. QED
  BY <1>2, <1>3, <1>4 DEF WritePe, Main, TypeOK, FirmwareTypes

LEMMA MainTypes ==
  ASSUME TypeOK, RomInv, MainStep
  PROVE  TypeOK'
<1>1. FirmwareTypes'
  <2>1. CASE WritePe
    BY <2>1, WritePeTypes
  <2>2. CASE ~WritePe
    BY <2>2 DEF MainStep, Main, Poll, ClearStart, ResetPe, ConfigureDatamover, StartDatamover,
       AwaitDone, ClearDone, SignalPacketProcessor, TypeOK, FirmwareTypes
  <2>3. QED
    BY <2>1, <2>2
<1>2. InterruptTypes' /\ UNCHANGED copied
  BY UnchangedTypes
     DEF MainStep, Main, Poll, ClearStart, WritePe, ResetPe, ConfigureDatamover, StartDatamover,
         AwaitDone, ClearDone, SignalPacketProcessor, TypeOK
<1>3. TaskTypes'
  <2>1. CASE SignalPacketProcessor
    BY <2>1 DEF SignalPacketProcessor, TypeOK, TaskTypes
  <2>2. CASE ~SignalPacketProcessor
    BY <2>2, UnchangedTypes
       DEF MainStep, Main, Poll, ClearStart, WritePe, ResetPe, ConfigureDatamover, StartDatamover,
           AwaitDone, ClearDone, TypeOK
  <2>3. QED
    BY <2>1, <2>2
<1>4. DmTypeOK'
  <2>1. CASE ConfigureDatamover
    BY <2>1 DEF ConfigureDatamover, TypeOK, FirmwareTypes, DmTypeOK, Directions
  <2>2. CASE StartDatamover
    BY <2>2 DEF StartDatamover, TypeOK, DmTypeOK
  <2>3. CASE ~ConfigureDatamover /\ ~StartDatamover
    BY <2>3, UnchangedTypes
       DEF MainStep, Main, Poll, ClearStart, WritePe, ResetPe,
           AwaitDone, ClearDone, SignalPacketProcessor, TypeOK
  <2>4. QED
    BY <2>1, <2>2, <2>3
<1>5. QED
  BY <1>1, <1>2, <1>3, <1>4 DEF TypeOK

LEMMA HandlerTypes ==
  ASSUME TypeOK, RomInv, HandlerStep
  PROVE  TypeOK'
<1>1. InterruptTypes'
  <2>1. lanes \subseteq DOMAIN CauseBit
    BY DEF lanes, CauseBit
  <2>2. CASE EnterHandler
    BY <2>1, <2>2, EnterTakesOne DEF EnterHandler, Handle, TypeOK, InterruptTypes
  <2>3. CASE ~EnterHandler
    BY <2>1, <2>3
       DEF HandlerStep, Handle, ReadCause, Serve, Return, LeaveHandler, TypeOK, InterruptTypes
  <2>4. QED
    BY <2>2, <2>3
<1>2. FirmwareTypes'
  <2>1. CASE Serve
    BY <2>1 DEF Serve, handle_interrupt_from_packetprocessor, handle_interrupt_from_datamover,
       TypeOK, FirmwareTypes
  <2>2. CASE ~Serve
    BY <2>2, UnchangedTypes DEF HandlerStep, EnterHandler, ReadCause, Return, LeaveHandler, TypeOK
  <2>3. QED
    BY <2>1, <2>2
<1>3. DmTypeOK' /\ TaskTypes' /\ UNCHANGED copied
  <2>1. CASE Return
    BY <2>1 DEF Return, FinishedAfterAck, TypeOK, DmTypeOK, TaskTypes
  <2>2. CASE ~Return
    BY <2>2, UnchangedTypes DEF HandlerStep, EnterHandler, ReadCause, Serve, LeaveHandler, TypeOK
  <2>3. QED
    BY <2>1, <2>2
<1>4. QED
  BY <1>1, <1>2, <1>3 DEF TypeOK

LEMMA DatamoverTypes ==
  ASSUME TypeOK,
         Started \/ \E d \in Directions : DatamoverStep(d) \/ Broken(d)
  PROVE  TypeOK'
<1>1. FirmwareTypes' /\ InterruptTypes' /\ TaskTypes'
  BY UnchangedTypes DEF Started, DatamoverStep, Broken, Transferred, TypeOK
<1>2. CASE Started
  <2>1. transfer_state' \in [Directions -> TransferStates]
    BY <1>2 DEF Started, DmStart, TypeOK, DmTypeOK, TransferStates
  <2>2. /\ num_data_left' \in [Directions -> Nat]
        /\ current_start_addr' \in [Directions -> Nat]
        /\ finished_reg' \in [Directions -> BOOLEAN]
    BY <1>2 DEF Started, DmStart, TypeOK, DmTypeOK
  <2>3. QED
    BY <1>1, <1>2, <2>1, <2>2 DEF Started, DmStart, TypeOK, DmTypeOK
<1>3. ASSUME NEW d \in Directions, DatamoverStep(d) \/ Broken(d)
      PROVE  TypeOK'
  <2>1. transfer_state' \in [Directions -> TransferStates]
    BY <1>3 DEF DatamoverStep, Broken, Transferred, Initialized, CommandTaken, Finished, BurstDone,
       BurstError, Goto, TypeOK, DmTypeOK, TransferStates
  <2>2. finished_reg' \in [Directions -> BOOLEAN]
    BY <1>3 DEF DatamoverStep, Broken, Transferred, Initialized, CommandTaken, Finished, BurstDone,
       BurstError, TypeOK, DmTypeOK
  <2>3. /\ num_data_left' \in [Directions -> Nat]
        /\ current_start_addr' \in [Directions -> Nat]
        /\ copied' \in [Directions -> Nat]
    <3>1. CASE Transferred(d)
      <4>1. current_burst_size(d) \in 0 .. num_data_left[d]
        BY BurstType DEF TypeOK
      <4>2. QED
        BY <3>1, <4>1 DEF Transferred, BurstDone, TypeOK, DmTypeOK
    <3>2. CASE ~Transferred(d)
      BY <1>3, <3>2 DEF DatamoverStep, Broken, Initialized, CommandTaken, Finished, BurstError,
         TypeOK, DmTypeOK
    <3>3. QED
      BY <3>1, <3>2
  <2>4. UNCHANGED <<config_addr, config_size, int_start>>
    BY <1>3 DEF DatamoverStep, Broken, Transferred, Initialized, CommandTaken, Finished, BurstDone,
       BurstError
  <2>5. QED
    BY <1>1, <2>1, <2>2, <2>3, <2>4 DEF TypeOK, DmTypeOK
<1>4. QED
  BY <1>2, <1>3

LEMMA TypeStep ==
  ASSUME TypeOK, RomInv, [Next]_vars
  PROVE  TypeOK'
<1>1. ASSUME NEW c \in Configs, Launch(c)
      PROVE  TypeOK'
  <2>1. DmTypeOK' /\ InterruptTypes'
    BY <1>1, UnchangedTypes DEF Launch, TypeOK
  <2>2. FirmwareTypes' /\ TaskTypes' /\ copied' \in [Directions -> Nat]
    BY <1>1, RomAssumption DEF Launch, TypeOK, FirmwareTypes, TaskTypes
  <2>3. QED
    BY <2>1, <2>2 DEF TypeOK
<1>2. CASE TakeCompletion
  BY <1>2, UnchangedTypes DEF TakeCompletion, TypeOK, TaskTypes
<1>3. CASE UNCHANGED vars
  BY <1>3, UnchangedTypes DEF vars, TypeOK
<1>4. QED
  BY <1>1, <1>2, <1>3, MainTypes, HandlerTypes, DatamoverTypes DEF Next

-----------------------------------------------------------------------------
(* The invariant holds initially and every step preserves it.               *)

LEMMA RomInvInit == Init => RomInv
<1> SUFFICES ASSUME Init PROVE RomInv
  OBVIOUS
<1>1. lanes = {}
  BY DEF Init, DmInit, lanes, int_finished, Directions
<1>2. OneTask /\ OneInterrupt /\ LaunchOnce /\ FinishOnce
  BY <1>1 DEF Init, DmInit, OneTask, OneInterrupt, LaunchOnce, FinishOnce
<1>3. Transfers
  BY DEF Init, DmInit, Transfers, Moving, AtRest
<1>4. QED
  BY <1>2, <1>3 DEF RomInv

LEMMA LaunchInv ==
  ASSUME TypeOK, RomInv, NEW c \in Configs, Launch(c)
  PROVE  RomInv'
<1>1. /\ request = NoConfig /\ ~completion_lane /\ pc = "poll" /\ start_execution = 0
      /\ execution_done = 0 /\ ~int_start
  BY DEF Launch, TypeOK, FirmwareTypes, RomInv, OneTask, LaunchOnce, FinishOnce
<1>2. point = "main" /\ triggered = "none"
  BY <1>1 DEF TypeOK, InterruptTypes, CauseBit, RomInv, OneInterrupt
<1>3. c # NoConfig
  BY ConfigType
<1>4. OneTask' /\ OneInterrupt' /\ LaunchOnce' /\ FinishOnce'
  BY <1>1, <1>2, <1>3
     DEF Launch, RomInv, OneTask, OneInterrupt, LaunchOnce, FinishOnce, intVars, dmVars
<1>5. Transfers'
  <2>1. ~Moving /\ ~Moving' /\ ~Ended'
    BY <1>1 DEF Launch, Moving, Ended
  <2>2. ASSUME NEW d \in Directions
        PROVE  AtRest(d)'
    BY <1>1, <2>1 DEF RomInv, Transfers, AtRest, Launch, intVars, dmVars
  <2>3. QED
    BY <1>1, <2>1, <2>2 DEF Transfers, Launch, dmVars
<1>6. QED
  BY <1>4, <1>5 DEF RomInv

LEMMA TakeCompletionInv ==
  ASSUME TypeOK, RomInv, TakeCompletion
  PROVE  RomInv'
<1>1. lanes' = lanes
  BY DEF TakeCompletion, lanes, int_finished, dmVars
<1>2. OneTask' /\ OneInterrupt' /\ LaunchOnce' /\ FinishOnce'
  BY <1>1 DEF TakeCompletion, RomInv, OneTask, OneInterrupt, LaunchOnce, FinishOnce,
              fwVars, intVars, dmVars
<1>3. Transfers'
  BY DEF TakeCompletion, RomInv, Transfers, Moving, Progress, AtRest, Ended, Start,
         fwVars, intVars, dmVars
<1>4. QED
  BY <1>2, <1>3 DEF RomInv

\* main runs between handlers, so it changes what no handler is about
LEMMA MainControl ==
  ASSUME TypeOK, RomInv, MainStep
  PROVE  OneTask' /\ OneInterrupt' /\ LaunchOnce' /\ FinishOnce'
<1> USE DEF Main, TypeOK, FirmwareTypes, InterruptTypes, RomInv, OneTask, OneInterrupt, LaunchOnce,
            FinishOnce, intVars, ppVars, dmVars
<1>1. CASE Poll BY <1>1 DEF Poll
<1>2. CASE ClearStart BY <1>2 DEF ClearStart
<1>3. CASE WritePe BY <1>3 DEF WritePe
<1>4. CASE ResetPe BY <1>4 DEF ResetPe
<1>5. CASE ConfigureDatamover BY <1>5 DEF ConfigureDatamover
<1>6. CASE StartDatamover BY <1>6 DEF StartDatamover
<1>7. CASE AwaitDone BY <1>7 DEF AwaitDone
<1>8. CASE ClearDone BY <1>8 DEF ClearDone
<1>9. CASE SignalPacketProcessor BY <1>9 DEF SignalPacketProcessor
<1>10. QED
  BY <1>1, <1>2, <1>3, <1>4, <1>5, <1>6, <1>7, <1>8, <1>9 DEF MainStep

\* main never runs while the datamover moves data
LEMMA MainTransfers ==
  ASSUME TypeOK, RomInv, MainStep
  PROVE  Transfers'
<1>1. ~Moving /\ ~Moving'
  BY DEF MainStep, Main, Poll, ClearStart, WritePe, ResetPe, ConfigureDatamover, StartDatamover,
         AwaitDone, ClearDone, SignalPacketProcessor, Moving
<1>2. request' # NoConfig => request' = request /\ (Ended' <=> Ended) /\ (Ended => job' = job)
  BY DEF MainStep, Main, Poll, ClearStart, WritePe, ResetPe, ConfigureDatamover, StartDatamover,
         AwaitDone, ClearDone, SignalPacketProcessor, Ended, ppVars, TypeOK, FirmwareTypes,
         RomInv, FinishOnce
<1>3. UNCHANGED <<transfer_state, finished_reg, copied, triggered, point>>
  BY DEF MainStep, Main, Poll, ClearStart, WritePe, ResetPe, ConfigureDatamover, StartDatamover,
         AwaitDone, ClearDone, SignalPacketProcessor, dmVars, intVars
<1>4. ASSUME NEW d \in Directions
      PROVE  AtRest(d)'
  <2>1. AtRest(d)
    BY <1>1 DEF RomInv, Transfers
  <2>2. request' # NoConfig => ~Ended \/ job' = job
    BY <1>2
  <2>3. QED
    BY <1>2, <1>3, <2>1 DEF AtRest
<1>5. pc' = "start_dm" \/ int_start' =>
        /\ config_addr' = [mm2s |-> job'.src, s2mm |-> job'.dst]
        /\ config_size' = [d \in Directions |-> job'.size]
  <2>1. CASE ConfigureDatamover
    BY <2>1 DEF ConfigureDatamover
  <2>2. CASE StartDatamover
    BY <2>2 DEF StartDatamover, Main, RomInv, Transfers
  <2>3. CASE ~ConfigureDatamover /\ ~StartDatamover
    <3>1. pc' # "start_dm" /\ ~int_start'
      BY <2>3 DEF MainStep, Main, Poll, ClearStart, WritePe, ResetPe,
         AwaitDone, ClearDone, SignalPacketProcessor, dmVars, RomInv, FinishOnce
    <3>2. QED
      BY <3>1
  <2>4. QED
    BY <2>1, <2>2, <2>3
<1>6. QED
  BY <1>1, <1>4, <1>5 DEF Transfers

\* An interrupt is taken only while main waits for it.
LEMMA EnterPhase ==
  ASSUME TypeOK, RomInv, EnterHandler
  PROVE  /\ triggered' = "launch" =>
              launch_lane /\ pc = "poll" /\ request # NoConfig /\ start_execution = 0
         /\ triggered' = "finished" => Moving /\ ~launch_lane
<1>1. lanes = {triggered'} /\ triggered = "none" /\ point = "main"
  BY EnterTakesOne DEF EnterHandler, Handle, RomInv, OneInterrupt
<1>2. triggered' = "launch" => launch_lane
  BY <1>1 DEF lanes
<1>3. triggered' = "finished" => ~launch_lane /\ int_finished
  BY <1>1 DEF lanes
<1>4. int_finished => Moving
  BY <1>1 DEF int_finished, Directions, RomInv, Transfers, AtRest
<1>5. QED
  BY <1>1, <1>2, <1>3, <1>4 DEF RomInv, LaunchOnce, TypeOK, FirmwareTypes

LEMMA EnterControl ==
  ASSUME TypeOK, RomInv, EnterHandler
  PROVE  OneTask' /\ OneInterrupt' /\ LaunchOnce' /\ FinishOnce'
<1>1. lanes' = lanes
  BY DEF EnterHandler, lanes, int_finished, ppVars, dmVars
<1>2. point = "main" /\ point' = "entered" /\ triggered = "none" /\ code = {}
  BY DEF EnterHandler, Handle, RomInv, OneInterrupt
<1>3. triggered' \in {"launch", "finished"}
  BY EnterTakesOne DEF CauseBit
<1>4. OneTask' /\ LaunchOnce'
  BY <1>2, <1>3, EnterPhase DEF EnterHandler, RomInv, OneTask, LaunchOnce, fwVars, ppVars
<1>5. OneInterrupt'
  BY <1>1, <1>2, <1>3, EnterTakesOne, EnterPhase
     DEF EnterHandler, OneInterrupt, Moving, fwVars, ppVars, dmVars
<1>6. FinishOnce'
  BY <1>2, <1>3, EnterPhase DEF EnterHandler, RomInv, FinishOnce, Moving, fwVars, ppVars, dmVars
<1>7. QED
  BY <1>4, <1>5, <1>6

LEMMA ReadControl ==
  ASSUME TypeOK, RomInv, ReadCause
  PROVE  OneTask' /\ OneInterrupt' /\ LaunchOnce' /\ FinishOnce'
<1>1. lanes' = lanes
  BY DEF ReadCause, lanes, int_finished, ppVars, dmVars
<1>2. lanes = {triggered} /\ cause = {triggered} /\ point = "entered" /\ triggered # "none"
  BY DEF ReadCause, Handle, RomInv, OneInterrupt
<1>3. cause' = {triggered} /\ code' = {triggered} /\ point' = "read" /\ triggered' = triggered
  BY <1>2 DEF ReadCause, Handle
<1>4. OneInterrupt'
  BY <1>1, <1>2, <1>3 DEF ReadCause, RomInv, OneInterrupt, fwVars, ppVars, dmVars
<1>5. OneTask' /\ LaunchOnce' /\ FinishOnce'
  BY <1>2, <1>3 DEF ReadCause, RomInv, OneTask, LaunchOnce, FinishOnce, fwVars, ppVars, dmVars
<1>6. QED
  BY <1>4, <1>5

\* the switch finds the one interrupt
LEMMA ServeCases ==
  ASSUME TypeOK, RomInv, Serve
  PROVE  \/ triggered = "launch" /\ start_execution' = 1 /\ execution_done' = 0 /\ launch_lane
         \/ triggered = "finished" /\ execution_done' = 1 /\ UNCHANGED start_execution
              /\ int_finished /\ ~launch_lane
<1>1. code = {triggered} /\ lanes = {triggered} /\ triggered # "none"
  BY DEF Serve, Handle, RomInv, OneInterrupt
<1>2. triggered \in {"launch", "finished"}
  BY <1>1 DEF TypeOK, InterruptTypes, CauseBit
<1>3. CASE triggered = "launch"
  BY <1>1, <1>3 DEF Serve, handle_interrupt_from_packetprocessor, handle_interrupt_from_datamover,
     lanes
<1>4. CASE triggered = "finished"
  BY <1>1, <1>4 DEF Serve, handle_interrupt_from_packetprocessor, handle_interrupt_from_datamover,
     lanes
<1>5. QED
  BY <1>2, <1>3, <1>4

LEMMA ServeControl ==
  ASSUME TypeOK, RomInv, Serve
  PROVE  OneTask' /\ OneInterrupt' /\ LaunchOnce' /\ FinishOnce'
<1>1. lanes' = lanes
  BY DEF Serve, lanes, int_finished, ppVars, dmVars
<1>2. /\ lanes = {triggered} /\ cause = {triggered} /\ code = {triggered}
      /\ point = "read" /\ triggered # "none"
  BY DEF Serve, Handle, RomInv, OneInterrupt
<1>3. cause' = {triggered} /\ code' = {triggered} /\ point' = "served" /\ triggered' = triggered
  BY <1>2 DEF Serve, Handle
<1>4. OneInterrupt'
  BY <1>1, <1>2, <1>3 DEF Serve, RomInv, OneInterrupt, ppVars, dmVars
<1>5. OneTask'
  BY DEF Serve, RomInv, OneTask, ppVars
<1>6. LaunchOnce' /\ FinishOnce'
  BY <1>2, <1>3, ServeCases
     DEF Serve, RomInv, OneInterrupt, LaunchOnce, FinishOnce, ppVars, dmVars
<1>7. QED
  BY <1>4, <1>5, <1>6

LEMMA ReturnControl ==
  ASSUME TypeOK, RomInv, Return
  PROVE  OneTask' /\ OneInterrupt' /\ LaunchOnce' /\ FinishOnce'
<1>1. /\ lanes = {triggered} /\ cause = {triggered} /\ code = {triggered}
      /\ point = "served" /\ triggered # "none"
  BY DEF Return, Handle, RomInv, OneInterrupt
<1>2. cause' = {triggered} /\ code' = {triggered} /\ point' = "returning" /\ triggered' = triggered
  BY <1>1 DEF Return, Handle
<1>3. lanes' = {}
  BY DEF Return, FinishedAfterAck, lanes, int_finished, Directions
<1>4. OneInterrupt'
  BY <1>1, <1>2, <1>3 DEF Return, RomInv, OneInterrupt, fwVars
<1>5. OneTask'
  BY DEF Return, RomInv, OneTask, fwVars
<1>6. LaunchOnce' /\ FinishOnce'
  BY <1>1, <1>2 DEF Return, RomInv, LaunchOnce, FinishOnce, fwVars
<1>7. QED
  BY <1>4, <1>5, <1>6

LEMMA LeaveControl ==
  ASSUME TypeOK, RomInv, LeaveHandler
  PROVE  OneTask' /\ OneInterrupt' /\ LaunchOnce' /\ FinishOnce'
<1>1. lanes = {} /\ cause = {triggered} /\ point = "returning" /\ triggered # "none"
  BY DEF LeaveHandler, Handle, RomInv, OneInterrupt
<1>2. cause' = {} /\ code' = {} /\ point' = "main" /\ triggered' = "none"
  BY <1>1 DEF LeaveHandler, Handle
<1>3. OneTask' /\ OneInterrupt'
  BY <1>1, <1>2 DEF LeaveHandler, RomInv, OneTask, OneInterrupt, fwVars, ppVars
<1>4. ~launch_lane
  BY <1>1 DEF lanes
<1>5. LaunchOnce' /\ FinishOnce'
  BY <1>1, <1>2, <1>4 DEF LeaveHandler, RomInv, LaunchOnce, FinishOnce, fwVars, ppVars, dmVars
<1>6. QED
  BY <1>3, <1>5

LEMMA HandlerTransfers ==
  ASSUME TypeOK, RomInv, HandlerStep
  PROVE  Transfers'
<1>1. UNCHANGED <<pc, job, request, copied, transfer_state, num_data_left, current_start_addr,
                  config_addr, config_size, int_start>>
  BY DEF HandlerStep, EnterHandler, ReadCause, Serve, Return, LeaveHandler, fwVars, ppVars, dmVars
<1>2. CASE EnterHandler \/ ReadCause \/ LeaveHandler
  <2>1. /\ UNCHANGED <<execution_done, finished_reg>>
        /\ (triggered = "finished" /\ point = "served")' <=> triggered = "finished" /\ point = "served"
    BY <1>2 DEF EnterHandler, ReadCause, LeaveHandler, Handle, fwVars, dmVars
  <2>2. (Moving' <=> Moving) /\ (Ended' <=> Ended)
    BY <1>1, <2>1 DEF Moving, Ended
  <2>3. \A d \in Directions : (Progress(d) => Progress(d)') /\ (AtRest(d) => AtRest(d)')
    BY <1>1, <2>1, <2>2 DEF Progress, AtRest, Start
  <2>4. QED
    BY <1>1, <2>2, <2>3 DEF RomInv, Transfers
<1>3. CASE Serve
  <2>1. UNCHANGED finished_reg /\ UNCHANGED triggered /\ point = "read" /\ point' = "served"
    BY <1>3 DEF Serve, Handle, dmVars
  <2>2. ~Moving'
    BY <1>1, <1>3, ServeCases DEF RomInv, OneInterrupt, Moving
  <2>3. ASSUME NEW d \in Directions
        PROVE  AtRest(d)'
    <3>1. CASE triggered = "launch"
      <4>1. ~Moving /\ AtRest(d) /\ (Ended' <=> Ended)
        BY <1>1, <1>3, <3>1, ServeCases
           DEF RomInv, OneInterrupt, LaunchOnce, FinishOnce, Transfers, Moving, Ended, TypeOK,
               FirmwareTypes
      <4>2. QED
        BY <1>1, <2>1, <3>1, <4>1 DEF AtRest
    <3>2. CASE triggered = "finished"
      <4>1. Moving /\ finished_reg[d] /\ Ended'
        BY <1>3, <2>1, <3>2, ServeCases
           DEF RomInv, OneInterrupt, FinishOnce, Moving, Ended, int_finished, TypeOK, FirmwareTypes
      <4>2. transfer_state[d] \in {"IDLE", "ERROR"} /\ copied[d] = job.size
        BY <4>1 DEF RomInv, Transfers, Progress
      <4>3. QED
        BY <1>1, <2>1, <3>2, <4>1, <4>2 DEF AtRest
    <3>3. QED
      BY <1>3, <3>1, <3>2, ServeCases
  <2>4. QED
    BY <1>1, <2>2, <2>3 DEF RomInv, Transfers
<1>4. CASE Return
  <2>1. /\ UNCHANGED execution_done /\ UNCHANGED triggered
        /\ point = "served" /\ point' = "returning" /\ lanes = {triggered}
    BY <1>4 DEF Return, Handle, fwVars, RomInv, OneInterrupt
  <2>2. ~Moving /\ ~Moving' /\ (Ended' <=> Ended)
    BY <1>1, <2>1 DEF RomInv, OneInterrupt, FinishOnce, Moving, Ended, TypeOK, InterruptTypes, CauseBit
  <2>3. ASSUME NEW d \in Directions
        PROVE  AtRest(d)'
    <3>1. AtRest(d)
      BY <2>2 DEF RomInv, Transfers
    <3>2. ~finished_reg'[d]
      <4>1. CASE int_finished
        BY <1>4, <4>1 DEF Return, FinishedAfterAck
      <4>2. CASE ~int_finished
        <5>1. triggered # "finished"
          BY <2>1, <4>2 DEF lanes
        <5>2. QED
          BY <1>4, <3>1, <4>2, <5>1 DEF AtRest, Return, FinishedAfterAck
      <4>3. QED
        BY <4>1, <4>2
    <3>3. QED
      BY <1>1, <2>1, <2>2, <3>1, <3>2 DEF AtRest
  <2>4. QED
    BY <1>1, <2>2, <2>3 DEF RomInv, Transfers
<1>5. QED
  BY <1>2, <1>3, <1>4 DEF HandlerStep

\* a direction takes its steps while main and the core wait for it
LEMMA StepsWhileMoving ==
  ASSUME TypeOK, RomInv, NEW d \in Directions, DatamoverStep(d)
  PROVE  Moving /\ triggered = "none" /\ point = "main"
<1>1. transfer_state[d] \notin {"IDLE", "ERROR"}
  BY DEF DatamoverStep, Initialized, CommandTaken, Finished, Transferred, BurstDone, Goto
<1>2. Moving
  BY <1>1 DEF RomInv, Transfers, AtRest
<1>3. ~finished_reg[d]
  BY <1>1, <1>2 DEF RomInv, Transfers, Progress
<1>4. triggered # "finished"
  <2>1. ~int_finished
    BY <1>3 DEF int_finished
  <2>2. "finished" \notin lanes
    BY <2>1 DEF lanes
  <2>3. QED
    BY <1>2, <2>2 DEF RomInv, OneInterrupt, FinishOnce, Moving, TypeOK, InterruptTypes
<1>5. triggered # "launch"
  BY <1>2 DEF RomInv, OneInterrupt, Moving
<1>6. QED
  BY <1>2, <1>4, <1>5 DEF RomInv, OneInterrupt, TypeOK, InterruptTypes, CauseBit

LEMMA DatamoverStepInv ==
  ASSUME TypeOK, RomInv, NEW d \in Directions, DatamoverStep(d)
  PROVE  RomInv'
<1>1. Moving /\ triggered = "none" /\ point = "main"
  BY StepsWhileMoving
<1>2. UNCHANGED <<fwVars, intVars, ppVars, config_addr, config_size, int_start>>
  BY DEF DatamoverStep, Initialized, CommandTaken, Finished, Transferred, BurstDone
<1>3. OneTask' /\ OneInterrupt' /\ LaunchOnce' /\ FinishOnce'
  BY <1>1, <1>2
     DEF RomInv, OneTask, OneInterrupt, LaunchOnce, FinishOnce, fwVars, intVars, ppVars
<1>4. Moving' /\ job' = job
  BY <1>1, <1>2 DEF Moving, fwVars
<1>5. Progress(d)'
  <2>1. Progress(d)
    BY <1>1 DEF RomInv, Transfers
  <2>2. CASE Initialized(d) /\ UNCHANGED copied
    BY <1>4, <2>1, <2>2 DEF Initialized, Goto, Progress, Start, TypeOK, DmTypeOK
  <2>3. CASE CommandTaken(d) /\ UNCHANGED copied
    BY <1>4, <2>1, <2>3 DEF CommandTaken, Goto, Progress, Start, TypeOK, DmTypeOK
  <2>4. CASE Finished(d) /\ UNCHANGED copied
    BY <1>4, <2>1, <2>4 DEF Finished, Goto, Progress, Start, TypeOK, DmTypeOK
  <2>5. CASE Transferred(d)
    <3> DEFINE burst == current_burst_size(d)
    <3>1. burst \in 0 .. num_data_left[d] /\ (burst = 0 => num_data_left[d] = 0)
      BY BurstType DEF TypeOK
    <3>2. /\ current_start_addr[d] = Start(d) + copied[d]
          /\ num_data_left[d] = job.size - copied[d]
          /\ ~finished_reg[d]
      BY <2>1, <2>5 DEF Transferred, BurstDone, Goto, Progress
    <3>3. Start(d) \in Nat /\ job.size \in Nat
      BY DEF Start, TypeOK, FirmwareTypes
    <3>4. copied'[d] = copied[d] + burst /\ finished_reg'[d] = finished_reg[d]
      BY <2>5 DEF Transferred, BurstDone, TypeOK
    <3>5. CASE num_data_left[d] - burst = 0
      <4>1. transfer_state'[d] = "FINISHED"
        BY <2>5, <3>5 DEF Transferred, BurstDone, Goto, TypeOK, DmTypeOK
      <4>2. copied'[d] = job.size
        BY <3>1, <3>2, <3>3, <3>4, <3>5 DEF TypeOK, DmTypeOK
      <4>3. QED
        BY <1>4, <3>2, <3>4, <4>1, <4>2 DEF Progress
    <3>6. CASE num_data_left[d] - burst # 0
      <4>1. /\ transfer_state'[d] = "START_TRANSFER"
            /\ num_data_left'[d] = num_data_left[d] - burst
            /\ current_start_addr'[d] = current_start_addr[d] + burst
        BY <2>5, <3>6 DEF Transferred, BurstDone, Goto, TypeOK, DmTypeOK
      <4>2. /\ current_start_addr'[d] = Start(d) + copied'[d]
            /\ num_data_left'[d] = job.size - copied'[d]
        BY <3>1, <3>2, <3>3, <3>4, <4>1 DEF TypeOK, DmTypeOK
      <4>3. Start(d)' = Start(d)
        BY <1>4 DEF Start
      <4>4. QED
        BY <1>4, <3>2, <3>4, <3>6, <4>1, <4>2, <4>3 DEF Progress
    <3>7. QED
      BY <3>5, <3>6
  <2>6. QED
    BY <2>2, <2>3, <2>4, <2>5 DEF DatamoverStep
<1>6. ASSUME NEW e \in Directions, e # d
      PROVE  Progress(e)'
  <2>1. Progress(e)
    BY <1>1 DEF RomInv, Transfers
  <2>2. /\ transfer_state'[e] = transfer_state[e] /\ finished_reg'[e] = finished_reg[e]
        /\ num_data_left'[e] = num_data_left[e] /\ copied'[e] = copied[e]
        /\ current_start_addr'[e] = current_start_addr[e]
    BY <1>6 DEF DatamoverStep, Initialized, CommandTaken, Finished, Transferred, BurstDone, Goto,
       TypeOK, DmTypeOK
  <2>3. QED
    BY <1>4, <2>1, <2>2 DEF Progress, Start
<1>7. Transfers'
  <2>1. pc' # "start_dm" /\ ~int_start'
    BY <1>4 DEF Moving
  <2>2. QED
    BY <1>4, <1>5, <1>6, <2>1 DEF Transfers
<1>8. QED
  BY <1>3, <1>7 DEF RomInv

LEMMA BrokenInv ==
  ASSUME TypeOK, RomInv, NEW d \in Directions, Broken(d)
  PROVE  RomInv'
<1>1. UNCHANGED <<fwVars, intVars, ppVars, copied, config_addr, config_size, int_start,
                  num_data_left, current_start_addr, finished_reg>>
  BY DEF Broken, BurstError
<1>2. lanes' = lanes
  BY <1>1 DEF lanes, int_finished, ppVars
<1>3. OneTask' /\ OneInterrupt' /\ LaunchOnce' /\ FinishOnce'
  BY <1>1, <1>2
     DEF RomInv, OneTask, OneInterrupt, LaunchOnce, FinishOnce, fwVars, intVars, ppVars
<1>4. \A e \in Directions : transfer_state'[e] \in {transfer_state[e], "ERROR"}
  BY DEF Broken, BurstError, Goto, TypeOK, DmTypeOK
<1>5. (Moving' <=> Moving) /\ (Ended' <=> Ended)
  BY <1>1 DEF Moving, Ended, fwVars
<1>6. \A e \in Directions : (Progress(e) => Progress(e)') /\ (AtRest(e) => AtRest(e)')
  BY <1>1, <1>4, <1>5 DEF Progress, AtRest, Start, fwVars, intVars, ppVars
<1>7. Transfers'
  BY <1>1, <1>5, <1>6 DEF RomInv, Transfers, fwVars
<1>8. QED
  BY <1>3, <1>7 DEF RomInv

LEMMA StartedInv ==
  ASSUME TypeOK, RomInv, Started
  PROVE  RomInv'
<1>1. /\ int_start /\ ~int_start' /\ pc = "wait" /\ execution_done = 0
      /\ UNCHANGED <<fwVars, intVars, ppVars, copied, config_addr, config_size>>
  BY DEF Started, DmStart, RomInv, FinishOnce, TypeOK, FirmwareTypes
<1>2. triggered = "none" /\ point = "main"
  BY <1>1 DEF RomInv, OneInterrupt, TypeOK, InterruptTypes, CauseBit
<1>3. OneTask' /\ OneInterrupt' /\ LaunchOnce' /\ FinishOnce'
  BY <1>1, <1>2
     DEF RomInv, OneTask, OneInterrupt, LaunchOnce, FinishOnce, fwVars, intVars, ppVars
<1>4. ~Moving /\ Moving' /\ ~Ended /\ job' = job
  BY <1>1 DEF Moving, Ended, fwVars
<1>5. ASSUME NEW d \in Directions
      PROVE  Progress(d)'
  <2>1. transfer_state[d] \in {"IDLE", "ERROR"} /\ copied[d] = 0
    BY <1>1, <1>4 DEF RomInv, Transfers, AtRest, OneTask
  <2>2. config_addr[d] = Start(d) /\ config_size[d] = job.size
    BY <1>1 DEF RomInv, Transfers, Start, Directions
  <2>3. Start(d) \in Nat /\ job.size \in Nat
    BY DEF Start, TypeOK, FirmwareTypes
  <2>4. ~finished_reg'[d] /\ copied'[d] = 0
    BY <1>1, <2>1 DEF Started, DmStart
  <2>5. CASE transfer_state[d] = "IDLE"
    <3>1. /\ transfer_state'[d] = "INITIALIZE" /\ num_data_left'[d] = job.size
          /\ current_start_addr'[d] = Start(d)
      BY <2>2, <2>5 DEF Started, DmStart
    <3>2. QED
      BY <1>4, <2>3, <2>4, <3>1 DEF Progress, Start
  <2>6. CASE transfer_state[d] = "ERROR"
    <3>1. transfer_state'[d] = "ERROR"
      BY <2>6 DEF Started, DmStart
    <3>2. QED
      BY <2>4, <3>1 DEF Progress
  <2>7. QED
    BY <2>1, <2>5, <2>6
<1>6. Transfers'
  BY <1>1, <1>4, <1>5 DEF Transfers, fwVars
<1>7. QED
  BY <1>3, <1>6 DEF RomInv

LEMMA RomInvStep ==
  ASSUME TypeOK, RomInv, [Next]_vars
  PROVE  RomInv'
<1>1. CASE MainStep
  BY <1>1, MainControl, MainTransfers DEF RomInv
<1>2. CASE HandlerStep
  BY <1>2, EnterControl, ReadControl, ServeControl, ReturnControl, LeaveControl, HandlerTransfers
     DEF HandlerStep, RomInv
<1>3. CASE UNCHANGED vars
  <2>1. lanes' = lanes
    BY <1>3 DEF vars, ppVars, dmVars, lanes, int_finished
  <2>2. OneTask' /\ OneInterrupt' /\ LaunchOnce' /\ FinishOnce'
    BY <1>3, <2>1 DEF RomInv, OneTask, OneInterrupt, LaunchOnce, FinishOnce,
       vars, fwVars, intVars, ppVars, dmVars
  <2>3. Transfers'
    BY <1>3 DEF RomInv, Transfers, Moving, Ended, Progress, AtRest, Start,
       vars, fwVars, intVars, ppVars, dmVars
  <2>4. QED
    BY <2>2, <2>3 DEF RomInv
<1>4. QED
  BY <1>1, <1>2, <1>3, LaunchInv, TakeCompletionInv, StartedInv, DatamoverStepInv, BrokenInv DEF Next

LEMMA RomInvariant == Spec => [](TypeOK /\ RomInv)
<1>1. Init => TypeOK /\ RomInv
  BY TypeInit, RomInvInit
<1>2. TypeOK /\ RomInv /\ [Next]_vars => (TypeOK /\ RomInv)'
  BY TypeStep, RomInvStep
<1>3. QED
  BY <1>1, <1>2, PTL DEF Spec

-----------------------------------------------------------------------------
(* What the invariant gives.                                                *)

\* The variables keep their types.
THEOREM TypeCorrect == Spec => []TypeOK
BY RomInvariant, PTL

\* The two interrupts of the core are never pending together, whatever the
\* interleaving of main, handler, datamover and packet processor: the handler's
\* switch always finds a case, and its eret acknowledges no interrupt it has
\* not served.
THEOREM OneInterruptAtATime == Spec => []LanesExclusive
<1>1. TypeOK /\ RomInv => LanesExclusive
  <2> SUFFICES ASSUME TypeOK, RomInv PROVE LanesExclusive
    OBVIOUS
  <2>1. CASE point = "main"
    BY <2>1, LanesInMain DEF RomInv, OneInterrupt, LanesExclusive, CauseBit
  <2>2. CASE point # "main"
    BY <2>2 DEF RomInv, OneInterrupt, LanesExclusive, CauseBit, TypeOK, InterruptTypes
  <2>3. QED
    BY <2>1, <2>2
<1>2. QED
  BY <1>1, RomInvariant, PTL

\* The bursts of both directions cut every image, of any size and for any
\* longest burst, into pieces that follow one another and cover it.
THEOREM BurstsCover == Spec => []BurstsCoverImage
<1>1. TypeOK /\ RomInv => BurstsCoverImage
  <2> SUFFICES ASSUME TypeOK, RomInv, NEW d \in Directions
               PROVE  /\ transfer_state[d] \in {"START_TRANSFER", "TRANSFER"} =>
                           /\ current_start_addr[d] = Start(d) + copied[d]
                           /\ num_data_left[d] = job.size - copied[d]
                           /\ current_burst_size(d) <= MaxBurst
                           /\ current_burst_size(d) = 0 => job.size = 0
                      /\ transfer_state[d] = "FINISHED" => copied[d] = job.size
    BY DEF BurstsCoverImage, Start
  <2>1. /\ current_burst_size(d) <= MaxBurst
        /\ current_burst_size(d) = 0 => num_data_left[d] = 0
    BY BurstType DEF TypeOK
  <2>2. transfer_state[d] \in {"START_TRANSFER", "TRANSFER", "FINISHED"} => Progress(d)
    BY DEF RomInv, Transfers, AtRest
  <2>3. QED
    BY <2>1, <2>2 DEF Progress
<1>2. QED
  BY <1>1, RomInvariant, PTL

-----------------------------------------------------------------------------
(* The detailed accelerator implements AcceleratorService, step by step.    *)

\* the task main answers has been moved in both directions
LEMMA AnsweredTaskMoved ==
  ASSUME TypeOK, RomInv, pc = "signal"
  PROVE  /\ request \in Configs
         /\ \A d \in Directions : copied[d] = SizeIn(request)
<1>1. request \in Configs /\ job.size = SizeIn(request)
  BY DEF RomInv, OneTask, TypeOK, TaskTypes
<1>2. ~Moving /\ Ended /\ request # NoConfig
  BY DEF Moving, Ended, RomInv, OneTask
<1>3. QED
  BY <1>1, <1>2 DEF RomInv, Transfers, AtRest

LEMMA ServiceInit == Init => Service!Init
BY DEF Init, DmInit, Service!Init, int_error, Directions, Service!Directions

LEMMA ServiceCopy ==
  ASSUME TypeOK, RomInv, NEW d \in Directions, Transferred(d)
  PROVE  Service!Copy(d)
<1>1. request # NoConfig /\ request \in Configs /\ job.size = SizeIn(request)
  <2>1. Moving
    BY StepsWhileMoving DEF DatamoverStep
  <2>2. QED
    BY <2>1 DEF Moving, RomInv, OneTask, TypeOK, TaskTypes
<1>2. num_data_left[d] = job.size - copied[d]
  BY DEF RomInv, Transfers, AtRest, Progress, Transferred, BurstDone, Goto
<1>3. current_burst_size(d) \in 0 .. ImageBytes[request] - copied[d]
  <2>1. current_burst_size(d) \in 0 .. num_data_left[d]
    BY BurstType DEF TypeOK
  <2>2. SizeIn(request) \in 0 .. ImageBytes[request] /\ ImageBytes[request] \in Nat
    BY <1>1, SizeType
  <2>3. copied[d] \in Nat
    BY DEF TypeOK
  <2>4. QED
    BY <1>1, <1>2, <2>1, <2>2, <2>3 DEF TypeOK, DmTypeOK
<1>4. int_error' = int_error
  BY DEF Transferred, BurstDone, Goto, int_error, TypeOK, DmTypeOK, Directions
<1>5. copied' = [copied EXCEPT ![d] = @ + current_burst_size(d)] /\ UNCHANGED request
  BY DEF Transferred, ppVars
<1>6. QED
  BY <1>1, <1>3, <1>4, <1>5 DEF Service!Copy

LEMMA ServiceStep ==
  ASSUME TypeOK, RomInv, [Next]_vars
  PROVE  [Service!Next]_Service!svcVars
<1> USE DEF Service!svcVars
<1>1. ASSUME NEW c \in Configs, Launch(c)
      PROVE  Service!Launch(c)
  <2>1. request = NoConfig
    BY <1>1 DEF Launch, RomInv, OneTask
  <2>2. int_error' = int_error
    BY <1>1 DEF Launch, dmVars, int_error
  <2>3. QED
    BY <1>1, <2>1, <2>2 DEF Launch, Service!Launch, Directions, Service!Directions
<1>2. CASE SignalPacketProcessor
  <2>1. /\ request \in Configs /\ request # NoConfig
        /\ \A d \in Directions : copied[d] = SizeIn(request)
    BY <1>2, AnsweredTaskMoved, ConfigType DEF SignalPacketProcessor, Main
  <2>2. ImageBytes[request] < Word => SizeIn(request) = ImageBytes[request]
    BY <2>1, SizeType
  <2>3. int_error' = int_error
    BY <1>2 DEF SignalPacketProcessor, dmVars, int_error
  <2>4. Service!Answer
    BY <1>2, <2>1, <2>2, <2>3
       DEF SignalPacketProcessor, Service!Answer, Directions, Service!Directions
  <2>5. QED
    BY <2>4 DEF Service!Next
<1>3. ASSUME NEW d \in Directions, Transferred(d)
      PROVE  Service!Next
  BY <1>3, ServiceCopy DEF Service!Next, Directions, Service!Directions
<1>4. ASSUME NEW d \in Directions, Broken(d)
      PROVE  Service!Next
  <2>1. int_error'
    BY <1>4 DEF Broken, BurstError, Goto, int_error, TypeOK, DmTypeOK
  <2>2. QED
    BY <1>4, <2>1 DEF Broken, ppVars, Service!Next, Service!Fail
<1>5. ASSUME \/ TakeCompletion
             \/ MainStep /\ ~SignalPacketProcessor
             \/ HandlerStep
             \/ UNCHANGED vars
      PROVE  UNCHANGED <<request, copied, int_error>>
  <2>1. UNCHANGED <<request, copied, transfer_state>>
    BY <1>5 DEF TakeCompletion, MainStep, Poll, ClearStart, WritePe, ResetPe, ConfigureDatamover,
       StartDatamover, AwaitDone, ClearDone, HandlerStep, EnterHandler, ReadCause, Serve, Return,
       LeaveHandler, vars, ppVars, dmVars
  <2>2. QED
    BY <2>1 DEF int_error
<1>6. ASSUME NEW d \in Directions, DatamoverStep(d), ~Transferred(d)
      PROVE  UNCHANGED <<request, copied, int_error>>
  BY <1>6 DEF DatamoverStep, Initialized, CommandTaken, Finished, Goto, int_error, Directions,
     TypeOK, DmTypeOK, ppVars
<1>7. CASE Started
  BY <1>7 DEF Started, DmStart, int_error, ppVars, Directions, TypeOK, DmTypeOK
<1>8. QED
  <2>1. ASSUME NEW c \in Configs, Launch(c)
        PROVE  Service!Next
    BY <1>1, <2>1 DEF Service!Next
  <2>2. QED
    BY <2>1, <1>2, <1>3, <1>4, <1>5, <1>6, <1>7 DEF Next

\* For every image and every way its transfer is cut into bursts: one answer
\* per launch, never before the whole image has been read and its result
\* written, unless the image's size overflows the firmware's 32 bits, and
\* nothing is moved beyond the image.
THEOREM AcceleratorImplementsService == Spec => ImplementsService
<1>1. TypeOK /\ RomInv /\ [Next]_vars => [Service!Next]_Service!svcVars
  BY ServiceStep
<1>2. QED
  BY <1>1, ServiceInit, RomInvariant, PTL DEF Spec, ImplementsService, Service!Spec

-----------------------------------------------------------------------------
(* The processing element's registers.                                      *)

\* From write_task_config_to_pe on, what the firmware wrote for the task stays.
PeWritten ==
  pc \notin {"poll", "clear_start", "configure_pe"} =>
    \A r \in DOMAIN PeWrites(request) : r \in written /\ pe[r] = PeWrites(request)[r]

LEMMA PeWrittenStep ==
  ASSUME TypeOK, RomInv, PeWritten, [Next]_vars
  PROVE  PeWritten'
<1>1. CASE WritePe
  <2>1. config = request /\ request' = request
    BY <1>1 DEF WritePe, Main, RomInv, OneTask, ppVars
  <2>2. written' = written \union DOMAIN PeWrites(request)
    BY <1>1, <2>1 DEF WritePe
  <2>3. ASSUME NEW r \in DOMAIN PeWrites(request)
        PROVE  pe'[r] = PeWrites(request)[r]
    BY <1>1, <2>1, <2>3, WritesRegisters DEF WritePe, ConfigurePe
  <2>4. QED
    BY <2>1, <2>2, <2>3 DEF PeWritten
<1>2. ASSUME NEW c \in Configs, Launch(c)
      PROVE  PeWritten'
  <2>1. pc' = "poll"
    BY <1>2 DEF Launch, RomInv, OneTask
  <2>2. QED
    BY <2>1 DEF PeWritten
<1>3. CASE Poll \/ ClearStart \/ SignalPacketProcessor
  BY <1>3 DEF Poll, ClearStart, SignalPacketProcessor, Main, PeWritten
<1>4. CASE ResetPe \/ ConfigureDatamover \/ StartDatamover \/ AwaitDone \/ ClearDone
  <2>1. pc \notin {"poll", "clear_start", "configure_pe"} /\ UNCHANGED <<pe, written, request>>
    BY <1>4 DEF ResetPe, ConfigureDatamover, StartDatamover, AwaitDone, ClearDone, Main, ppVars
  <2>2. QED
    BY <2>1 DEF PeWritten
<1>5. CASE \/ TakeCompletion \/ HandlerStep \/ UNCHANGED vars \/ Started
           \/ \E d \in Directions : DatamoverStep(d) \/ Broken(d)
  <2>1. UNCHANGED <<pc, pe, written, request>>
    BY <1>5 DEF TakeCompletion, HandlerStep, EnterHandler, ReadCause, Serve, Return, LeaveHandler,
       Started, DatamoverStep, Transferred, Broken, vars, fwVars, ppVars
  <2>2. QED
    BY <2>1 DEF PeWritten
<1>6. QED
  BY <1>1, <1>2, <1>3, <1>4, <1>5 DEF Next, MainStep

\* the operation word is taken apart into what it was put together from
LEMMA OperationFields ==
  ASSUME NEW color \in 0 .. 1, NEW border \in 0 .. 3, NEW kernel \in 0 .. 7, NEW used \in 0 .. 1
  PROVE  OpFields(pe_encode_op(color, border, kernel, used)) =
           [color |-> color, border |-> border, kernel |-> kernel, parameter |-> used]
<1> DEFINE word == pe_encode_op(color, border, kernel, used)
<1>1. word = color * 64 + border * 16 + kernel * 2 + used
  BY DEF pe_encode_op, append
<1>2. /\ word \div 64 = color /\ (word \div 16) % 4 = border
      /\ (word \div 2) % 8 = kernel /\ word % 2 = used
  BY <1>1
<1>3. QED
  BY <1>2 DEF OpFields

LEMMA WrittenValues ==
  ASSUME NEW c
  PROVE  LET w == PeWrites(c)
             used == IF DOMAIN Parameter(c) = {} THEN 0 ELSE 1
         IN
         /\ DOMAIN w = {"img_width", "img_height", "img_size", "window", "operation"}
                         \union DOMAIN Parameter(c) \union DOMAIN MasksOf(c)
         /\ w["window"] = WindowOf(c.task)
         /\ w["operation"] = pe_encode_op(ColorBit(c.color), BorderBits(c.border), OpType(c.task), used)
         /\ \A r \in DOMAIN Parameter(c) : w[r] = Parameter(c)[r]
         /\ \A r \in DOMAIN MasksOf(c) : w[r] = MasksOf(c)[r]
BY ParameterRegisters, MaskRegisters DEF PeWrites

\* the fields of the word written for a task, and its parameter
LEMMA WrittenOperation ==
  ASSUME NEW c \in Configs
  PROVE  /\ OpFields(PeWrites(c)["operation"]) =
              [color |-> ColorBit(c.color), border |-> BorderBits(c.border),
               kernel |-> OpType(c.task), parameter |-> IF DOMAIN Parameter(c) = {} THEN 0 ELSE 1]
         /\ DOMAIN Parameter(c) # {} =>
              /\ OpType(c.task) = 0 => Parameter(c) = [normalize |-> NormalizeVal(c)]
              /\ OpType(c.task) = 1 => Parameter(c) = [threshold |-> c.threshold]
<1>1. ColorBit(c.color) \in 0 .. 1 /\ BorderBits(c.border) \in 0 .. 3 /\ OpType(c.task) \in 0 .. 7
  BY DEF ColorBit, BorderBits, OpType
<1>2. DOMAIN Parameter(c) # {} =>
        /\ OpType(c.task) = 0 => Parameter(c) = [normalize |-> NormalizeVal(c)]
        /\ OpType(c.task) = 1 => Parameter(c) = [threshold |-> c.threshold]
  BY DEF Parameter
<1> DEFINE used == IF DOMAIN Parameter(c) = {} THEN 0 ELSE 1
<1>3. PeWrites(c)["operation"] =
        pe_encode_op(ColorBit(c.color), BorderBits(c.border), OpType(c.task), used)
  BY WrittenValues
<1>4. used \in 0 .. 1
  OBVIOUS
<1>5. OpFields(PeWrites(c)["operation"]) =
        [color |-> ColorBit(c.color), border |-> BorderBits(c.border),
         kernel |-> OpType(c.task), parameter |-> used]
  <2> HIDE DEF used
  <2>1. QED
    BY <1>1, <1>3, <1>4, OperationFields
<1>6. QED
  BY <1>2, <1>5

\* every filter that needs coefficients gets them
LEMMA MasksWritten ==
  ASSUME NEW c, c.task \in KnownTasks
  PROVE  /\ OpType(c.task) \in {0, 1} => "coeffs0" \in DOMAIN MasksOf(c)
         /\ OpType(c.task) = 1 => "coeffs1" \in DOMAIN MasksOf(c)
<1>1. CASE c.task \in {"SOBELX3x3", "SOBELY3x3", "SOBELX5x5", "SOBELY5x5", "GAUSS3x3", "GAUSS5x5"}
  <2>1. OpType(c.task) = 0
    BY <1>1 DEF OpType
  <2>2. "coeffs0" \in DOMAIN MasksOf(c)
    BY <1>1 DEF MasksOf
  <2>3. QED
    BY <2>1, <2>2
<1>2. CASE c.task \in {"SOBELXY3x3", "SOBELXY5x5", "CUSTOM_FILTER3x3", "CUSTOM_FILTER5x5"}
  BY <1>2 DEF OpType, MasksOf
<1>3. CASE c.task \in {"MIN_FILTER3x3", "MAX_FILTER3x3", "MEDIAN_FILTER3x3",
                       "MIN_FILTER5x5", "MAX_FILTER5x5", "MEDIAN_FILTER5x5"}
  BY <1>3 DEF OpType
<1>4. QED
  BY <1>1, <1>2, <1>3 DEF KnownTasks, Tasks3, Tasks5

\* the masks are the ones the filter is named for
LEMMA MasksNamed ==
  ASSUME config.task \in DOMAIN NamedMasks, NEW i \in DOMAIN NamedMasks[config.task]
  PROVE  LET r == IF i = 1 THEN "coeffs0" ELSE "coeffs1" IN
         /\ i \in {1, 2}
         /\ r \in DOMAIN MasksOf(config)
         /\ MasksOf(config)[r] = NamedMasks[config.task][i]
<1>1. CASE config.task = "SOBELX3x3"
  BY <1>1 DEF NamedMasks, MasksOf
<1>2. CASE config.task = "SOBELY3x3"
  BY <1>2 DEF NamedMasks, MasksOf
<1>3. CASE config.task = "SOBELXY3x3"
  BY <1>3 DEF NamedMasks, MasksOf
<1>4. CASE config.task = "SOBELX5x5"
  BY <1>4 DEF NamedMasks, MasksOf
<1>5. CASE config.task = "SOBELXY5x5"
  BY <1>5 DEF NamedMasks, MasksOf
<1>6. CASE config.task = "GAUSS3x3"
  BY <1>6 DEF NamedMasks, MasksOf
<1>7. CASE config.task = "GAUSS5x5"
  BY <1>7 DEF NamedMasks, MasksOf
<1>8. CASE config.task = "CUSTOM_FILTER3x3"
  BY <1>8 DEF NamedMasks, MasksOf
<1>9. CASE config.task = "CUSTOM_FILTER5x5"
  BY <1>9 DEF NamedMasks, MasksOf
<1>10. QED
  BY <1>1, <1>2, <1>3, <1>4, <1>5, <1>6, <1>7, <1>8, <1>9 DEF NamedMasks

LEMMA WrittenMeansConfigured ==
  ASSUME TypeOK, RomInv, PeWritten, pc \in {"configure_dm", "start_dm", "wait"},
         request.task \in KnownTasks
  PROVE  LET op == OpFields(pe.operation)
             coeffs == <<pe.coeffs0, pe.coeffs1>>
         IN
         /\ RegistersOf(pe.operation) \subseteq written
         /\ op.color = ColorBit(request.color) /\ op.border = BorderBits(request.border)
         /\ op.kernel = OpType(request.task)
         /\ pe.window = IF request.task \in Tasks3 THEN 3 ELSE 5
         /\ op.kernel = 0 /\ op.parameter = 1 => pe.normalize = NormalizeVal(request)
         /\ op.kernel = 1 /\ op.parameter = 1 => pe.threshold = request.threshold
         /\ request.task \in DOMAIN NamedMasks =>
              \A i \in DOMAIN NamedMasks[request.task] :
                coeffs[i] = NamedMasks[request.task][i]
<1> DEFINE w == PeWrites(request)
           op == OpFields(pe.operation)
<1>1. request \in Configs /\ config = request
  BY DEF RomInv, OneTask, TypeOK, TaskTypes
<1>2. \A r \in DOMAIN w : r \in written /\ pe[r] = w[r]
  BY DEF PeWritten
<1>3. /\ DOMAIN w = {"img_width", "img_height", "img_size", "window", "operation"}
                      \union DOMAIN Parameter(request) \union DOMAIN MasksOf(request)
      /\ w["window"] = WindowOf(request.task)
      /\ \A r \in DOMAIN Parameter(request) : w[r] = Parameter(request)[r]
      /\ \A r \in DOMAIN MasksOf(request) : w[r] = MasksOf(request)[r]
  BY WrittenValues
<1>4. op = [color |-> ColorBit(request.color), border |-> BorderBits(request.border),
            kernel |-> OpType(request.task),
            parameter |-> IF DOMAIN Parameter(request) = {} THEN 0 ELSE 1]
  <2>1. pe.operation = w["operation"]
    BY <1>2, <1>3
  <2>2. QED
    BY <1>1, <2>1, WrittenOperation
<1>5. pe.window = IF request.task \in Tasks3 THEN 3 ELSE 5
  BY <1>2, <1>3 DEF WindowOf, KnownTasks
<1>6. op.parameter = 1 =>
        /\ OpType(request.task) = 0 => Parameter(request) = [normalize |-> NormalizeVal(request)]
        /\ OpType(request.task) = 1 => Parameter(request) = [threshold |-> request.threshold]
  <2>1. op.parameter = IF DOMAIN Parameter(request) = {} THEN 0 ELSE 1
    BY <1>4
  <2>2. DOMAIN Parameter(request) # {} =>
          /\ OpType(request.task) = 0 => Parameter(request) = [normalize |-> NormalizeVal(request)]
          /\ OpType(request.task) = 1 => Parameter(request) = [threshold |-> request.threshold]
    BY <1>1, WrittenOperation
  <2> HIDE DEF op
  <2>3. op.parameter = 1 => DOMAIN Parameter(request) # {}
    BY <2>1
  <2>4. QED
    BY <2>2, <2>3
<1>7. op.kernel = 0 /\ op.parameter = 1 =>
        "normalize" \in DOMAIN w /\ pe.normalize = NormalizeVal(request)
  BY <1>2, <1>3, <1>4, <1>6
<1>8. op.kernel = 1 /\ op.parameter = 1 =>
        "threshold" \in DOMAIN w /\ pe.threshold = request.threshold
  BY <1>2, <1>3, <1>4, <1>6
<1>9. /\ op.kernel \in {0, 1} => "coeffs0" \in DOMAIN w
      /\ op.kernel = 1 => "coeffs1" \in DOMAIN w
  BY <1>3, <1>4, MasksWritten
<1>10. RegistersOf(pe.operation) \subseteq written
  BY <1>2, <1>3, <1>7, <1>8, <1>9 DEF RegistersOf
<1>11. ASSUME request.task \in DOMAIN NamedMasks, NEW i \in DOMAIN NamedMasks[request.task]
       PROVE  <<pe.coeffs0, pe.coeffs1>>[i] = NamedMasks[request.task][i]
  <2>1. /\ i \in {1, 2}
        /\ IF i = 1 THEN "coeffs0" \in DOMAIN MasksOf(request)
                           /\ MasksOf(request)["coeffs0"] = NamedMasks[request.task][i]
           ELSE "coeffs1" \in DOMAIN MasksOf(request)
                  /\ MasksOf(request)["coeffs1"] = NamedMasks[request.task][i]
    BY <1>1, <1>11, MasksNamed
  <2>2. pe[IF i = 1 THEN "coeffs0" ELSE "coeffs1"] = NamedMasks[request.task][i]
    BY <1>2, <1>3, <2>1
  <2>3. QED
    BY <2>1, <2>2
<1>12. QED
  BY <1>4, <1>5, <1>7, <1>8, <1>10, <1>11

\* Whatever task is launched, and whatever an earlier one left in the registers:
\* the processing element's operation reads only registers written for this
\* task, and finds the task's operator, colour model, border handling,
\* parameter and masks in them.
THEOREM PeIsConfigured == Spec => []PeConfigured
<1>1. Init => PeWritten
  BY DEF Init, PeWritten
<1>2. TypeOK /\ RomInv /\ PeWritten /\ [Next]_vars => PeWritten'
  BY PeWrittenStep
<1>3. TypeOK /\ RomInv /\ PeWritten => PeConfigured
  BY WrittenMeansConfigured DEF PeConfigured
<1>4. QED
  BY <1>1, <1>2, <1>3, RomInvariant, PTL DEF Spec
=============================================================================
