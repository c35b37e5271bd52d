------------------------- MODULE InterruptDelivery -------------------------
(***************************************************************************)
(* What the interrupt hardware between two processors promises, without    *)
(* clocks, lanes and acknowledge pulses: a requested interrupt stays       *)
(* requested until it is presented to the processor, one at a time and     *)
(* once per request; an AQL doorbell is never presented but sets the       *)
(* work-left flag, and the processor's clearing of that flag does not      *)
(* forget a doorbell.  PacketProcessor takes this for granted when it      *)
(* keeps its pending interrupts in sets.                                   *)
(***************************************************************************)
CONSTANTS
  Lines,      \* the interrupt lines
  AQL,        \* the line of the doorbell
  None        \* no line

VARIABLES requested, work, serving

idVars == <<requested, work, serving>>

Init == requested = {} /\ work = FALSE /\ serving = None

\* a line is not requested again before the processor has served it; the
\* doorbell may be, and doorbells may be merged or not
MayFire(fired) == fired \intersect ((requested \union {serving}) \ {AQL}) = {}

Wait(fired) ==
  /\ requested' = requested \union fired
  /\ work' \in {work, FALSE}
  /\ UNCHANGED serving

TakeDoorbell(fired) ==
  /\ AQL \in requested
  /\ requested' \in {requested \union fired, (requested \ {AQL}) \union fired}
  /\ work' = TRUE
  /\ UNCHANGED serving

Present(l, fired) ==
  /\ serving = None /\ l \in requested \ {AQL}
  /\ requested' = (requested \ {l}) \union fired
  /\ serving' = l
  /\ work' \in {work, FALSE}

Finish(fired) ==
  /\ serving # None
  /\ requested' = requested \union fired
  /\ serving' = None
  /\ work' \in {work, FALSE}

Next ==
  \E fired \in SUBSET Lines :
    /\ MayFire(fired)
    /\ Wait(fired) \/ TakeDoorbell(fired) \/ Finish(fired) \/ \E l \in Lines : Present(l, fired)

Spec == Init /\ [][Next]_idVars
=============================================================================
