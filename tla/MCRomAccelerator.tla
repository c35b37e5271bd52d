-------------------------- MODULE MCRomAccelerator --------------------------
(* An instance of RomAccelerator for TLC: the tasks the host may ask for.   *)
EXTENDS RomAcceleratorProperties

Config(task, color, border, parameter, width, height) ==
  [task |-> task, color |-> color, border |-> border, normalization |-> parameter,
   threshold |-> parameter, width |-> width, height |-> height, src |-> 100, dst |-> 200,
   mask0 |-> "mask0", mask1 |-> "mask1"]

\* every task, with and without a parameter
Gray == {Config(t, "UINT16_GRAY_SCALE", "CLAMP_TO_ZERO", p, 1, 2) :
           t \in KnownTasks \union {"undefined"}, p \in {0, 5}}
\* images of no, of several and of too many bytes
Sized == {Config("SOBELX3x3", c, "CLAMP_TO_EDGE", 0, w, 3) :
            c \in {"UINT8_RGB", "undefined"}, w \in {0, 1, 2}}

MCConfigs == Gray \union Sized
=============================================================================
