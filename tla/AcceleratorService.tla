------------------------- MODULE AcceleratorService -------------------------
(***************************************************************************)
(* What a rom accelerator promises the packet processor, without flags,    *)
(* interrupts or bursts: one task at a time; the task's image is read and  *)
(* its result written piece by piece, never beyond the image; the task is  *)
(* answered once, and not before both are complete.  An image whose size   *)
(* does not fit the firmware's 32 bits is answered without that guarantee. *)
(* After an error of the datamover a task may stay without an answer.      *)
(***************************************************************************)
EXTENDS Integers

CONSTANTS
  Tasks,          \* what the packet processor may launch
  NoTask,
  ImageBytes,     \* the size of each task's image
  Representable   \* the tasks whose size the firmware can represent

VARIABLES request, copied, failed

svcVars == <<request, copied, failed>>

Directions == {"mm2s", "s2mm"}

Init ==
  /\ request = NoTask
  /\ copied = [d \in Directions |-> 0]
  /\ failed = FALSE

Launch(t) ==
  /\ request = NoTask
  /\ request' = t
  /\ copied' = [d \in Directions |-> 0]
  /\ UNCHANGED failed

Copy(d) ==
  /\ request # NoTask
  /\ \E n \in 0 .. ImageBytes[request] - copied[d] : copied' = [copied EXCEPT ![d] = @ + n]
  /\ UNCHANGED <<request, failed>>

Fail == failed' = TRUE /\ UNCHANGED <<request, copied>>

Answer ==
  /\ request # NoTask
  /\ request \in Representable => \A d \in Directions : copied[d] = ImageBytes[request]
  /\ request' = NoTask
  /\ UNCHANGED <<copied, failed>>

Next ==
  \/ \E t \in Tasks : Launch(t)
  \/ \E d \in Directions : Copy(d)
  \/ Fail
  \/ Answer

Spec == Init /\ [][Next]_svcVars
=============================================================================
