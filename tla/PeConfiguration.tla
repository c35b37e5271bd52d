-------------------------- MODULE PeConfiguration --------------------------
(***************************************************************************)
(* How the firmware of the rom accelerator turns a task into the registers *)
(* of its processing element (rom_accel_cmd_processor, main.c and          *)
(* op_encoding.h).  A filter mask is its name; the two masks of a custom   *)
(* filter are named by the configuration they come from.  A 32-bit word is *)
(* a natural number below Word.                                            *)
(***************************************************************************)
EXTENDS Integers, FiniteSets

CONSTANT Word    \* values of an uint32_t: 2^32 in the program

ASSUME WordAssumption == Word \in Nat \ {0}

\* fpga_operation_type_t, by window width and kind
Tasks3 == {"SOBELX3x3", "SOBELY3x3", "SOBELXY3x3", "GAUSS3x3", "MIN_FILTER3x3",
           "MAX_FILTER3x3", "MEDIAN_FILTER3x3", "CUSTOM_FILTER3x3"}
Tasks5 == {"SOBELX5x5", "SOBELY5x5", "SOBELXY5x5", "GAUSS5x5", "MIN_FILTER5x5",
           "MAX_FILTER5x5", "MEDIAN_FILTER5x5", "CUSTOM_FILTER5x5"}
KnownTasks == Tasks3 \union Tasks5

\* get_pixel_storage: a color model it does not know has no bytes
get_pixel_storage(color_model) ==
  CASE color_model = "UINT16_GRAY_SCALE" -> 2
    [] color_model = "UINT8_RGB" -> 3
    [] OTHER -> 0

\* size_in: the product of three uint32_t
SizeIn(config) == (config.width * config.height * get_pixel_storage(config.color)) % Word

append(var, size, val) == var * 2^size + (val % 2^size)

pe_encode_op(color, border, kernel, norm_and_thresh) ==
  append(append(append(append(0, 1, color), 2, border), 3, kernel), 1, norm_and_thresh)

-----------------------------------------------------------------------------
(* The switches of write_task_config_to_pe.                                 *)

ColorBit(color_model) == IF color_model = "UINT8_RGB" THEN 0 ELSE 1

BorderBits(border) ==
  CASE border = "CLAMP_TO_ZERO" -> 1
    [] border = "CLAMP_TO_EDGE" -> 2
    [] OTHER -> 0

WindowOf(task) == IF task \in Tasks3 THEN 3 ELSE IF task \in Tasks5 THEN 5 ELSE 0

OpType(task) ==
  CASE task \in {"SOBELXY3x3", "SOBELXY5x5", "CUSTOM_FILTER3x3", "CUSTOM_FILTER5x5"} -> 1
    [] task \in {"MEDIAN_FILTER3x3", "MEDIAN_FILTER5x5"} -> 2
    [] task \in {"MIN_FILTER3x3", "MIN_FILTER5x5"} -> 3
    [] task \in {"MAX_FILTER3x3", "MAX_FILTER5x5"} -> 4
    [] OTHER -> 0

\* MUTANT of MasksOf: the second write_mask of SOBELXY3x3 is missing
MasksOfOne(config) ==
  CASE config.task \in {"SOBELX3x3", "SOBELXY3x3"} -> [coeffs0 |-> "sobelX_3x3_mask"]
    [] config.task = "SOBELY3x3" -> [coeffs0 |-> "sobelY_3x3_mask"]
    [] config.task \in {"SOBELX5x5", "SOBELY5x5"} -> [coeffs0 |-> "sobelX_5x5_mask"]
    [] config.task = "SOBELXY5x5" ->
         [coeffs0 |-> "sobelX_5x5_mask", coeffs1 |-> "sobelY_5x5_mask"]
    [] config.task = "GAUSS3x3" -> [coeffs0 |-> "gauss_3x3_mask"]
    [] config.task = "GAUSS5x5" -> [coeffs0 |-> "gauss_5x5_mask"]
    [] config.task \in {"CUSTOM_FILTER3x3", "CUSTOM_FILTER5x5"} ->
         [coeffs0 |-> config.mask0, coeffs1 |-> config.mask1]
    [] OTHER -> << >>

\* the masks a case writes, by register; SOBELY5x5 writes the x mask
MasksOf(config) ==
  CASE config.task = "SOBELX3x3" -> [coeffs0 |-> "sobelX_3x3_mask"]
    [] config.task = "SOBELY3x3" -> [coeffs0 |-> "sobelY_3x3_mask"]
    [] config.task = "SOBELXY3x3" ->
         [coeffs0 |-> "sobelX_3x3_mask", coeffs1 |-> "sobelY_3x3_mask"]
    [] config.task \in {"SOBELX5x5", "SOBELY5x5"} -> [coeffs0 |-> "sobelX_5x5_mask"]
    [] config.task = "SOBELXY5x5" ->
         [coeffs0 |-> "sobelX_5x5_mask", coeffs1 |-> "sobelY_5x5_mask"]
    [] config.task = "GAUSS3x3" -> [coeffs0 |-> "gauss_3x3_mask"]
    [] config.task = "GAUSS5x5" -> [coeffs0 |-> "gauss_5x5_mask"]
    [] config.task \in {"CUSTOM_FILTER3x3", "CUSTOM_FILTER5x5"} ->
         [coeffs0 |-> config.mask0, coeffs1 |-> config.mask1]
    [] OTHER -> << >>

NormalizeVal(config) ==
  CASE config.task = "GAUSS3x3" -> 4
    [] config.task = "GAUSS5x5" -> 8
    [] OTHER -> config.normalization

\* the last switch: one parameter at most, and whether it is used
Parameter(config) ==
  LET op == OpType(config.task) IN
  CASE op = 0 /\ NormalizeVal(config) # 0 -> [normalize |-> NormalizeVal(config)]
    [] op = 1 /\ config.threshold # 0 -> [threshold |-> config.threshold]
    [] OTHER -> << >>

\* the registers an execution writes; the others keep what an earlier one left
PeWrites(config) ==
  LET parameter == Parameter(config)
      masks == MasksOf(config)
      fixed == [img_width |-> config.width, img_height |-> config.height,
                img_size |-> (config.width * config.height) % Word,
                window |-> WindowOf(config.task),
                operation |-> pe_encode_op(ColorBit(config.color), BorderBits(config.border),
                                           OpType(config.task),
                                           IF DOMAIN parameter = {} THEN 0 ELSE 1)]
  IN [r \in DOMAIN fixed \union DOMAIN parameter \union DOMAIN masks |->
        IF r \in DOMAIN fixed THEN fixed[r]
        ELSE IF r \in DOMAIN parameter THEN parameter[r] ELSE masks[r]]

PeRegisters == {"img_width", "img_height", "img_size", "window", "operation",
                "normalize", "threshold", "coeffs0", "coeffs1"}

\* window_width and window_height always hold the same value
ConfigurePe(pe, config) ==
  LET new == PeWrites(config)
  IN [r \in PeRegisters |-> IF r \in DOMAIN new THEN new[r] ELSE pe[r]]

-----------------------------------------------------------------------------
(* What the processing element reads from the operation word: the fields    *)
(* append put together, and the registers that operation needs.             *)

OpFields(operation) ==
  [color |-> operation \div 64, border |-> (operation \div 16) % 4,
   kernel |-> (operation \div 2) % 8, parameter |-> operation % 2]

RegistersOf(operation) ==
  LET op == OpFields(operation) IN
  {"img_width", "img_height", "img_size", "window", "operation"}
    \union (IF op.kernel \in {0, 1} THEN {"coeffs0"} ELSE {})
    \union (IF op.kernel = 1 THEN {"coeffs1"} ELSE {})
    \union (IF op.kernel = 0 /\ op.parameter = 1 THEN {"normalize"} ELSE {})
    \union (IF op.kernel = 1 /\ op.parameter = 1 THEN {"threshold"} ELSE {})
=============================================================================
