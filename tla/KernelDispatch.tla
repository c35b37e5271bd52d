--------------------------- MODULE KernelDispatch ---------------------------
(***************************************************************************)
(* What the packet processor promises the host about kernel dispatch       *)
(* packets, without saying how: packets start in submission order, each    *)
(* starts once, its result is stored, then its completion signal (if it    *)
(* wants one) is decremented once, and only then its packet is completed.  *)
(* Packets may complete in any order.                                      *)
(***************************************************************************)
EXTENDS Naturals

CONSTANT N    \* packets the host submits

VARIABLES
  stage,      \* how far each packet has come
  wants,      \* uncompleted packets with a completion signal
  result,     \* packets whose result is in host memory
  count       \* the value of each packet's completion signal

Dispatches == 0 .. N - 1
Stages == {"unsubmitted", "submitted", "started", "completed"}

kdVars == <<stage, wants, result, count>>

Init ==
  /\ stage = [n \in Dispatches |-> "unsubmitted"]
  /\ wants = {}
  /\ result = [n \in Dispatches |-> FALSE]
  /\ count = [n \in Dispatches |-> 1]

Submit(n) ==
  /\ stage[n] = "unsubmitted"
  /\ stage' = [stage EXCEPT ![n] = "submitted"]
  /\ wants' \in {wants, wants \union {n}}
  /\ UNCHANGED <<result, count>>

Start(n) ==
  /\ stage[n] = "submitted"
  /\ \A m \in 0 .. n - 1 : stage[m] \in {"started", "completed"}
  /\ stage' = [stage EXCEPT ![n] = "started"]
  /\ UNCHANGED <<wants, result, count>>

Store(n) ==
  /\ stage[n] = "started" /\ ~result[n]
  /\ result' = [result EXCEPT ![n] = TRUE]
  /\ UNCHANGED <<stage, wants, count>>

Signal(n) ==
  /\ stage[n] = "started" /\ result[n] /\ n \in wants /\ count[n] = 1
  /\ count' = [count EXCEPT ![n] = 0]
  /\ UNCHANGED <<stage, wants, result>>

Complete(n) ==
  /\ stage[n] = "started" /\ result[n]
  /\ n \in wants => count[n] = 0
  /\ stage' = [stage EXCEPT ![n] = "completed"]
  /\ wants' = wants \ {n}
  /\ UNCHANGED <<result, count>>

Next == \E n \in Dispatches : Submit(n) \/ Start(n) \/ Store(n) \/ Signal(n) \/ Complete(n)

Spec == Init /\ [][Next]_kdVars
=============================================================================
