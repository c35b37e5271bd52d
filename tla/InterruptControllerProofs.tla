--------------------- MODULE InterruptControllerProofs ---------------------
(* Theorems about the interrupt hardware of the packet processor, for every *)
(* number of accelerator cores, with and without exceptions.                *)
EXTENDS InterruptController, FiniteSetTheorems, TLAPS

-----------------------------------------------------------------------------
(* The inductive invariant.                                                 *)

\* the five places of a request, from its sender to the core
Sent == dmx_ints \ int_lanes
Arriving == int_lanes \ acks

\* A request is in one place only (the doorbell alone may be sent again).
Apart ==
  \A l \in Lanes \ {AqlLane} :
    /\ l \in Sent => l \notin Arriving \union ints \union Granted \union {Serving}
    /\ l \in Arriving => l \notin ints \union Granted \union {Serving}
    /\ l \in ints => l \notin Granted \union {Serving}
    /\ l \in Granted => l # Serving

\* The controller presents an interrupt exactly while it waits for the answer.
PresentsOne ==
  /\ int_sig => state = "idle"
  /\ state = "idle" => itype = "none"
  /\ state = "send" => itype = TypeOf(inum) /\ inum # AqlLane

\* When an eret may be decoded, and what the two registers behind it hold.
EretPulses ==
  /\ prev_ack = eret_delayed[1]
  /\ eret => ~eret_delayed[2]
  /\ level = "main" => ~eret /\ ~eret_delayed[1]

\* Outside handlers only the presented interrupt is pending.  Until its eret, a
\* handler that will acknowledge runs while the interrupt that triggered is
\* presented: for an exception this is the one it was taken together with.
AckMatches ==
  /\ cause \subseteq Presented \union (IF level = "main" THEN {} ELSE {triggered})
  /\ /\ level # "main" /\ ~eret_delayed[1] /\ ~eret_delayed[2]
     /\ level = "interrupt" \/ ~r_exception
     => itype = triggered /\ itype # "none"
  /\ HandlerMatches

IcInv == Apart /\ PresentsOne /\ EretPulses /\ AckMatches

-----------------------------------------------------------------------------
(* Lanes and cause bits.                                                    *)

\* the arbiter's choice is a latched lane
LEMMA PreferredLatched ==
  ASSUME ints \subseteq Lanes, ints # {}
  PROVE  Preferred \in ints
<1>1. ints \subseteq Nat
  BY ControllerAssumption DEF Lanes
<1> DEFINE below == OpToRel(<, Nat)
<1>2. below = {p \in Nat \X Nat : p[1] < p[2]}
  BY DEF OpToRel
<1>3. PICK m \in ints : \A n \in ints : <<n, m>> \notin below
  BY <1>1, WFMin, NatLessThanWellFounded
<1> HIDE DEF below
<1>4. ASSUME NEW n \in ints
      PROVE  m <= n
  <2>1. m \in Nat /\ n \in Nat
    BY <1>1
  <2>2. ~(n < m)
    BY <1>2, <1>3, <2>1
  <2>3. QED
    BY <2>1, <2>2
<1>5. QED
  BY <1>4 DEF Preferred, Min

LEMMA OneHotLatched ==
  ASSUME ints \subseteq Lanes
  PROVE  OneHot \subseteq ints
BY PreferredLatched DEF OneHot

\* no lane is None
LEMMA LaneFacts ==
  /\ None \notin Lanes /\ AqlLane \in Lanes /\ 0 \in Lanes
  /\ \A l \in Lanes : TypeOf(l) \in Types
BY ControllerAssumption DEF None, Lanes, AqlLane, TypeOf, Types, CauseBit

\* a single pending interrupt is the one that triggers
LEMMA LowestOfOne ==
  ASSUME NEW t \in Types, Asserted = {t}
  PROVE  LowestBit = t
<1>1. CauseBit[t] <= CauseBit[t]
  BY DEF Types, CauseBit
<1>2. QED
  BY <1>1 DEF LowestBit

LEMMA LowestPending ==
  ASSUME Asserted \subseteq Types, Asserted # {}
  PROVE  LowestBit \in Types
<1>1. PICK t \in Types : t \in Asserted
  OBVIOUS
<1>2. \E u \in Asserted : \A v \in Asserted : CauseBit[u] <= CauseBit[v]
  BY <1>1 DEF Types, CauseBit
<1>3. QED
  BY <1>2 DEF LowestBit

LEMMA AtMostOne ==
  ASSUME NEW S, S \subseteq 1 .. 5, \A i, j \in S : i = j
  PROVE  Cardinality(S) <= 1
<1>1. CASE S = {}
  BY <1>1, FS_EmptySet
<1>2. CASE S # {}
  <2>1. PICK i \in S : S = {i}
    BY <1>2
  <2>2. QED
    BY <2>1, FS_Singleton
<1>3. QED
  BY <1>1, <1>2

-----------------------------------------------------------------------------
(* Type correctness.                                                        *)

LEMMA TypeInit == Init => TypeOK
<1> SUFFICES ASSUME Init PROVE TypeOK
  OBVIOUS
<1>1. int_num \in Lanes /\ inum \in Lanes /\ handling \in Lanes \union {None}
  BY LaneFacts DEF Init
<1>2. eret_delayed \in BOOLEAN \X BOOLEAN
  BY DEF Init
<1>3. QED
  BY <1>1, <1>2 DEF Init, TypeOK

LEMMA ArbiterTypes ==
  ASSUME TypeOK, Schedule, NEW raised \in SUBSET Lanes, Distribute(raised)
  PROVE  /\ (dmx_ints \subseteq Lanes /\ int_lanes \subseteq Lanes)'
         /\ (ints \subseteq Lanes /\ acks \subseteq Lanes /\ lanes_response \subseteq Lanes)'
         /\ (int_num \in Lanes /\ int_sig \in BOOLEAN)'
<1>1. (dmx_ints \subseteq Lanes /\ int_lanes \subseteq Lanes /\ acks \subseteq Lanes
         /\ lanes_response \subseteq Lanes)'
  BY DEF TypeOK, Schedule, Distribute
<1>2. ints' \subseteq Lanes
  BY DEF TypeOK, Schedule, Latch, RisingEdges
<1>3. int_num' \in Lanes
  BY LaneFacts, PreferredLatched DEF TypeOK, Schedule
<1>4. int_sig' \in BOOLEAN
  BY DEF Schedule
<1>5. QED
  BY <1>1, <1>2, <1>3, <1>4

LEMMA ControllerTypes ==
  ASSUME TypeOK, NEW clear \in BOOLEAN, Processing(clear)
  PROVE  /\ (state \in {"idle", "send"} /\ itype \in Types \union {"none"})'
         /\ (inum \in Lanes /\ work_left \in BOOLEAN)'
BY LaneFacts DEF TypeOK, Processing, GrantAql, GrantLane, Answered, Hold, WorkLeft

LEMMA CoreTypes ==
  ASSUME TypeOK, NEW ie \in BOOLEAN, NEW exc \in BOOLEAN, Coprocessor0(ie, exc)
  PROVE  /\ (cause \subseteq Types /\ triggered \in Types \union {"none"})'
         /\ level' \in {"main", "interrupt", "exception"} /\ handling' \in Lanes \union {None}
<1>1. Asserted \subseteq Types
  BY DEF TypeOK, Asserted, Presented
<1>2. cause' \subseteq Types
  BY <1>1 DEF Coprocessor0, LatchCause, Asserted
<1>3. triggered' \in Types \union {"none"}
  BY <1>1, LowestPending DEF Coprocessor0, Trigger, TypeOK
<1>4. level' \in {"main", "interrupt", "exception"} /\ handling' \in Lanes \union {None}
  BY DEF TypeOK, Coprocessor0, TakeException, TakeInterrupt, RunMain, RunHandler, LeaveHandler
<1>5. QED
  BY <1>2, <1>3, <1>4

LEMMA PulseTypes ==
  ASSUME TypeOK, NEW exc \in BOOLEAN, ShiftRegisters(exc), NEW ret \in BOOLEAN, Eret(ret)
  PROVE  /\ (prev_ack \in BOOLEAN /\ r_exception \in BOOLEAN)'
         /\ (eret \in BOOLEAN /\ eret_delayed \in BOOLEAN \X BOOLEAN)'
<1>1. prev_ack' \in BOOLEAN
  BY DEF TypeOK, ShiftRegisters
<1>2. r_exception' \in BOOLEAN
  BY DEF TypeOK, ShiftRegisters
<1>3. eret' \in BOOLEAN
  BY DEF Eret
<1>4. eret_delayed' \in BOOLEAN \X BOOLEAN
  BY DEF TypeOK, Eret
<1>5. QED
  BY <1>1, <1>2, <1>3, <1>4

LEMMA TypeStep ==
  ASSUME TypeOK, [Next]_vars
  PROVE  TypeOK'
<1>1. CASE Cycle
  <2>1. PICK raised \in SUBSET {l \in Lanes : MayRaise(l)} : Distribute(raised)
    BY <1>1 DEF Cycle
  <2>2. PICK clear \in BOOLEAN : Processing(clear)
    BY <1>1 DEF Cycle
  <2>3. PICK exc \in BOOLEAN, ie \in BOOLEAN : ShiftRegisters(exc) /\ Coprocessor0(ie, exc)
    BY <1>1 DEF Cycle
  <2>4. PICK ret \in BOOLEAN : Eret(ret)
    BY <1>1 DEF Cycle
  <2>5. Schedule /\ raised \in SUBSET Lanes
    BY <1>1 DEF Cycle
  <2>6. QED
    BY <2>1, <2>2, <2>3, <2>4, <2>5, ArbiterTypes, ControllerTypes, CoreTypes, PulseTypes DEF TypeOK
<1>2. CASE UNCHANGED vars
  BY <1>2 DEF vars, dmxVars, arbVars, ctlVars, topVars, cpuVars, TypeOK
<1>3. QED
  BY <1>1, <1>2 DEF Next

-----------------------------------------------------------------------------
(* A request moves on from place to place.                                  *)

LEMMA Moves ==
  ASSUME TypeOK, Schedule, NEW raised \in SUBSET {l \in Lanes : MayRaise(l)}, Distribute(raised)
  PROVE  /\ Sent' = raised /\ Arriving' = Sent
         /\ Granted' = IF Ready THEN OneHot ELSE {}
         /\ ints' = (ints \union Arriving) \ (IF Ready THEN OneHot ELSE {})
<1>1. Sent' = raised
  BY DEF Sent, Distribute, MayRaise
<1>2. Arriving' = Sent
  BY DEF Sent, Arriving, Distribute, Schedule
<1>3. CASE Ready
  <2>1. ints' = (ints \union Arriving) \ OneHot
    BY <1>3 DEF Schedule, Latch, RisingEdges, Arriving
  <2>2. Granted' = OneHot
    BY <1>3 DEF Schedule, Granted, OneHot
  <2>3. QED
    BY <1>1, <1>2, <1>3, <2>1, <2>2
<1>4. CASE ~Ready
  <2>1. ints' = ints \union Arriving /\ ~int_sig'
    BY <1>4 DEF Schedule, Latch, RisingEdges, Arriving
  <2>2. QED
    BY <1>1, <1>2, <1>4, <2>1 DEF Granted
<1>5. QED
  BY <1>3, <1>4

\* the controller serves what was granted, or goes on with what it serves
LEMMA ServingMoves ==
  ASSUME TypeOK, PresentsOne, NEW clear \in BOOLEAN, Processing(clear)
  PROVE  Serving' \in {None, Serving} \union (Granted \ {AqlLane})
BY DEF Processing, GrantAql, GrantLane, Answered, Hold, Serving, Granted

LEMMA ApartStep ==
  ASSUME TypeOK, IcInv, Cycle
  PROVE  Apart'
<1>1. PICK raised \in SUBSET {l \in Lanes : MayRaise(l)} : Distribute(raised)
  BY DEF Cycle
<1>2. PICK clear \in BOOLEAN : Processing(clear)
  BY DEF Cycle
<1>3. /\ Sent' = raised /\ Arriving' = Sent
      /\ Granted' = IF Ready THEN OneHot ELSE {}
      /\ ints' = (ints \union Arriving) \ (IF Ready THEN OneHot ELSE {})
  BY <1>1, Moves DEF Cycle
<1>4. Serving' \in {None, Serving} \union (Granted \ {AqlLane})
  BY <1>2, ServingMoves DEF IcInv
<1>5. ASSUME NEW l \in Lanes \ {AqlLane}
      PROVE  /\ (l \in Sent => l \notin Arriving \union ints \union Granted \union {Serving})'
             /\ (l \in Arriving => l \notin ints \union Granted \union {Serving})'
             /\ (l \in ints => l \notin Granted \union {Serving})'
             /\ (l \in Granted => l # Serving)'
  <2>1. /\ l \in Sent => l \notin Arriving \union ints \union Granted \union {Serving}
        /\ l \in Arriving => l \notin ints \union Granted \union {Serving}
        /\ l \in ints => l \notin Granted \union {Serving}
        /\ l \in Granted => l # Serving
    BY DEF IcInv, Apart
  <2>2. l # None
    BY LaneFacts
  <2>3. OneHot \subseteq ints
    BY OneHotLatched DEF TypeOK
  <2>4. l \in raised => l \notin Sent \union Arriving \union ints \union Granted \union {Serving}
    BY DEF MayRaise, Pending, Sent, Arriving
  <2>5. QED
    BY <1>3, <1>4, <2>1, <2>2, <2>3, <2>4
<1>6. QED
  BY <1>5, LaneFacts DEF Apart, AqlLane, Lanes

-----------------------------------------------------------------------------
(* The acknowledge reaches the interrupt whose handler returns.             *)

LEMMA PresentsOneStep ==
  ASSUME TypeOK, IcInv, Cycle
  PROVE  PresentsOne'
<1>1. PICK clear \in BOOLEAN : Processing(clear)
  BY DEF Cycle
<1>2. (state = "idle" => itype = "none")' /\ (state = "send" => itype = TypeOf(inum) /\ inum # AqlLane)'
  BY <1>1, LaneFacts
     DEF Processing, GrantAql, GrantLane, Answered, Hold, IcInv, PresentsOne, TypeOf, AqlLane
<1>3. int_sig' => state' = "idle"
  BY <1>1 DEF Cycle, Schedule, Ready, Processing, GrantAql, GrantLane, Answered, Hold
<1>4. QED
  BY <1>2, <1>3 DEF PresentsOne

LEMMA EretPulsesStep ==
  ASSUME TypeOK, IcInv, Cycle
  PROVE  EretPulses'
<1>1. PICK exc \in BOOLEAN, ie \in BOOLEAN : ShiftRegisters(exc) /\ Coprocessor0(ie, exc)
  BY DEF Cycle
<1>2. PICK ret \in BOOLEAN : Eret(ret)
  BY DEF Cycle
<1>3. eret_delayed'[1] = eret /\ eret_delayed'[2] = eret_delayed[1] /\ prev_ack' = eret
  BY <1>1, <1>2 DEF Eret, ShiftRegisters
<1>4. eret' => level # "main" /\ ~eret_delayed[1] /\ ~eret_delayed[2]
  BY <1>2 DEF Eret
<1>5. level' = "main" => level = "main" \/ eret_delayed[2]
  BY <1>1 DEF Coprocessor0, TakeException, TakeInterrupt, RunMain, RunHandler, LeaveHandler
<1>6. QED
  BY <1>3, <1>4, <1>5 DEF IcInv, EretPulses

LEMMA AckMatchesStep ==
  ASSUME TypeOK, IcInv, Cycle
  PROVE  AckMatches'
<1>1. PICK clear \in BOOLEAN : Processing(clear)
  BY DEF Cycle
<1>2. PICK exc \in BOOLEAN, ie \in BOOLEAN : ShiftRegisters(exc) /\ Coprocessor0(ie, exc)
  BY DEF Cycle
<1>3. PICK ret \in BOOLEAN : Eret(ret)
  BY DEF Cycle
<1>4. eret_delayed'[1] = eret /\ eret_delayed'[2] = eret_delayed[1] /\ prev_ack = eret_delayed[1]
  BY <1>3 DEF Eret, IcInv, EretPulses
<1>5. level = "main" => ~eret /\ ~eret_delayed[1]
  BY DEF IcInv, EretPulses
<1>6. Response => level # "main" /\ ~eret_delayed[1] /\ ~eret_delayed[2] /\ ~r_exception
  BY <1>4, <1>5 DEF Response, IcInv, EretPulses
\* without an acknowledge the presented interrupt stays
<1>7. ~Response => (itype # "none" => UNCHANGED <<itype, inum, state>>)
  BY <1>1 DEF Processing, GrantAql, GrantLane, Answered, Hold, IcInv, PresentsOne
<1>8. ~Response => Presented \subseteq Presented'
  BY <1>7 DEF Presented
<1>9. CASE level = "main" /\ level' = "main"
  <2>1. cause' \subseteq Presented
    BY <1>2, <1>9 DEF Coprocessor0, LatchCause, IcInv, AckMatches
  <2>2. QED
    BY <1>6, <1>8, <1>9, <2>1 DEF AckMatches, HandlerMatches
<1>10. CASE level = "main" /\ level' # "main"
  <2>1. cause \subseteq Presented /\ Asserted = Presented /\ cause' = Presented
    BY <1>2, <1>10 DEF Coprocessor0, LatchCause, IcInv, AckMatches, Asserted
  <2>2. ~Response
    BY <1>6, <1>10
  <2>3. CASE itype = "none"
    <3>1. exc /\ level' = "exception" /\ r_exception'
      BY <1>2, <1>4, <1>5, <1>10, <2>1, <2>3
         DEF Coprocessor0, TakeException, TakeInterrupt, RunMain, RunHandler, LeaveHandler,
             Presented, ShiftRegisters
    <3>2. QED
      BY <2>1, <2>3, <3>1 DEF AckMatches, HandlerMatches, Presented
  <2>4. CASE itype # "none"
    <3>1. UNCHANGED <<itype, inum, state>> /\ cause' = {itype}
      BY <1>7, <2>1, <2>2, <2>4 DEF Presented
    <3>2. ie /\ triggered' = LowestBit
      BY <1>2, <1>10, <2>1, <2>4
         DEF Coprocessor0, TakeException, TakeInterrupt, RunMain, RunHandler, LeaveHandler,
             Trigger, Presented
    <3>3. triggered' = itype
      BY <2>1, <2>4, <3>2, LowestOfOne DEF Presented, TypeOK
    <3>4. level' = "interrupt" => handling' = inum
      BY <1>2, <1>10 DEF Coprocessor0, TakeException, TakeInterrupt, RunMain, RunHandler, LeaveHandler
    <3>5. state = "send" /\ itype = TypeOf(inum)
      BY <2>4 DEF IcInv, PresentsOne, TypeOK
    <3>6. QED
      BY <2>4, <3>1, <3>3, <3>4, <3>5 DEF AckMatches, HandlerMatches, Presented, Serving
  <2>5. QED
    BY <2>3, <2>4
<1>11. CASE level # "main" /\ eret_delayed[2]
  <2>1. level' = "main" /\ ~Response
    BY <1>2, <1>6, <1>11
       DEF Coprocessor0, TakeException, TakeInterrupt, RunMain, RunHandler, LeaveHandler
  <2>2. cause' \subseteq Presented
    BY <1>2, <1>11 DEF Coprocessor0, LatchCause, IcInv, AckMatches
  <2>3. QED
    BY <1>8, <2>1, <2>2 DEF AckMatches, HandlerMatches
<1>12. CASE level # "main" /\ ~eret_delayed[2]
  <2>1. UNCHANGED <<level, handling, triggered>> /\ cause' = cause \union Presented
    BY <1>2, <1>12
       DEF Coprocessor0, TakeException, TakeInterrupt, RunMain, RunHandler, LeaveHandler,
           Trigger, LatchCause
  <2>2. CASE Response
    <3>1. itype = triggered
      BY <1>6, <2>2 DEF IcInv, AckMatches
    <3>2. cause' \subseteq {triggered}
      BY <1>12, <2>1, <3>1 DEF IcInv, AckMatches, Presented
    <3>3. eret_delayed'[1]
      BY <1>4, <2>2 DEF Response
    <3>4. QED
      BY <1>12, <2>1, <3>2, <3>3 DEF AckMatches, HandlerMatches
  <2>3. CASE ~Response
    <3>1. cause' \subseteq Presented' \union {triggered'}
      BY <1>8, <1>12, <2>1, <2>3 DEF IcInv, AckMatches
    <3>2. CASE eret_delayed[1] \/ eret
      <4>1. eret_delayed'[1] \/ eret_delayed'[2]
        BY <1>4, <3>2
      <4>2. QED
        BY <1>12, <2>1, <3>1, <4>1 DEF AckMatches, HandlerMatches
    <3>3. CASE ~eret_delayed[1] /\ ~eret
      <4>1. level = "interrupt" \/ ~r_exception' => level = "interrupt" \/ ~r_exception
        BY <1>2, <1>4, <3>3 DEF ShiftRegisters
      <4>2. CASE level = "interrupt" \/ ~r_exception
        <5>1. itype = triggered /\ itype # "none"
          BY <1>12, <3>3, <4>2 DEF IcInv, AckMatches
        <5>2. UNCHANGED <<itype, inum, state>>
          BY <1>7, <2>3, <5>1
        <5>3. cause' = cause \union {itype}
          BY <2>1, <5>1 DEF Presented
        <5>4. level = "interrupt" => Serving = handling /\ itype = TypeOf(handling) /\ cause = {itype}
          BY <1>12, <3>3 DEF IcInv, AckMatches, HandlerMatches
        <5>5. QED
          BY <1>12, <2>1, <3>1, <5>1, <5>2, <5>3, <5>4 DEF AckMatches, HandlerMatches, Serving
      <4>3. CASE ~(level = "interrupt" \/ ~r_exception)
        BY <1>12, <2>1, <3>1, <4>1, <4>3 DEF AckMatches, HandlerMatches
      <4>4. QED
        BY <4>2, <4>3
    <3>4. QED
      BY <3>2, <3>3
  <2>4. QED
    BY <2>2, <2>3
<1>13. QED
  BY <1>9, <1>10, <1>11, <1>12

-----------------------------------------------------------------------------
(* What the invariant gives.                                                *)

LEMMA IcInvInit == Init => IcInv
<1> SUFFICES ASSUME Init PROVE IcInv
  OBVIOUS
<1>1. Apart /\ PresentsOne
  BY LaneFacts DEF Init, Apart, Sent, Arriving, Granted, Serving, PresentsOne
<1>2. EretPulses
  BY DEF Init, EretPulses
<1>3. AckMatches
  BY DEF Init, AckMatches, HandlerMatches, Presented
<1>4. QED
  BY <1>1, <1>2, <1>3 DEF IcInv

LEMMA IcInvStep ==
  ASSUME TypeOK, IcInv, [Next]_vars
  PROVE  IcInv'
<1>1. CASE Cycle
  BY <1>1, ApartStep, PresentsOneStep, EretPulsesStep, AckMatchesStep DEF IcInv
<1>2. CASE UNCHANGED vars
  <2>1. Apart'
    BY <1>2 DEF IcInv, Apart, Sent, Arriving, Granted, Serving, vars, dmxVars, arbVars, ctlVars
  <2>2. PresentsOne' /\ EretPulses' /\ AckMatches'
    BY <1>2 DEF IcInv, PresentsOne, EretPulses, AckMatches, HandlerMatches, Presented, Serving,
       vars, arbVars, ctlVars, topVars, cpuVars
  <2>3. QED
    BY <2>1, <2>2 DEF IcInv
<1>3. QED
  BY <1>1, <1>2 DEF Next

LEMMA IcInvariant == Spec => [](TypeOK /\ IcInv)
<1>1. Init => TypeOK /\ IcInv
  BY TypeInit, IcInvInit
<1>2. TypeOK /\ IcInv /\ [Next]_vars => (TypeOK /\ IcInv)'
  BY TypeStep, IcInvStep
<1>3. QED
  BY <1>1, <1>2, PTL DEF Spec

\* Every register keeps the width the VHDL gives it.
THEOREM TypeCorrect == Spec => []TypeOK
BY IcInvariant, PTL

\* A request is in one place at a time, from its sender's register to the core,
\* so that no interrupt is presented twice for one request.
THEOREM RequestInOnePlace == Spec => []OnePlace
<1>1. TypeOK /\ IcInv => OnePlace
  <2> SUFFICES ASSUME TypeOK, IcInv, NEW l \in Lanes \ {AqlLane}
               PROVE  Cardinality({i \in 1 .. 5 :
                        l \in <<dmx_ints \ int_lanes, int_lanes \ acks, ints, Granted, {Serving}>>[i]}) <= 1
    BY DEF OnePlace, IcInv, PresentsOne
  <2> DEFINE place == <<dmx_ints \ int_lanes, int_lanes \ acks, ints, Granted, {Serving}>>
             S == {i \in 1 .. 5 : l \in place[i]}
  <2>1. \A i, j \in S : i = j
    BY DEF IcInv, Apart, Sent, Arriving
  <2>2. QED
    BY <2>1, AtMostOne
<1>2. QED
  BY <1>1, IcInvariant, PTL

\* A handler runs for the interrupt the controller presents, with no other bit
\* in the cause register, until its eret: whatever arrives meanwhile, and even
\* where exceptions were taken before.
THEOREM HandlerRunsForPresented == Spec => []HandlerMatches
<1>1. IcInv => HandlerMatches
  BY DEF IcInv, AckMatches
<1>2. QED
  BY <1>1, IcInvariant, PTL

\* Where memory accesses raise no exceptions, the acknowledge is only ever
\* caused by the eret of an interrupt, as its comment says.
THEOREM AckOfInterrupt ==
  ASSUME ~Exceptions
  PROVE  Spec => []AckCausedByInterrupt
<1> DEFINE NoException == level # "exception"
<1>1. Init => NoException
  BY DEF Init
<1>2. NoException /\ [Next]_vars => NoException'
  <2>1. ASSUME NoException, Cycle PROVE NoException'
    <3>1. PICK exc \in {e \in BOOLEAN : e => Exceptions} :
            \E ie \in {b \in BOOLEAN : b => level = "main"} : Coprocessor0(ie, exc)
      BY <2>1 DEF Cycle
    <3>2. QED
      BY <2>1, <3>1
         DEF Coprocessor0, TakeException, TakeInterrupt, RunMain, RunHandler, LeaveHandler
  <2>2. QED
    BY <2>1 DEF Next, vars, cpuVars
<1>3. TypeOK /\ IcInv /\ NoException => AckCausedByInterrupt
  BY DEF IcInv, EretPulses, AckCausedByInterrupt, Response, TypeOK
<1>4. QED
  BY <1>1, <1>2, <1>3, IcInvariant, PTL DEF Spec

-----------------------------------------------------------------------------
(* The hardware implements InterruptDelivery, cycle by cycle.               *)

LEMMA DeliveryInit == Init => Delivery!Init
BY DEF Init, Delivery!Init, Pending, Granted, Serving

LEMMA DeliveryStep ==
  ASSUME TypeOK, IcInv, Cycle
  PROVE  Delivery!Next
<1>1. PICK raised \in SUBSET {l \in Lanes : MayRaise(l)} : Distribute(raised)
  BY DEF Cycle
<1>2. PICK clear \in BOOLEAN : Processing(clear)
  BY DEF Cycle
<1>3. /\ Sent' = raised /\ Arriving' = Sent
      /\ Granted' = IF Ready THEN OneHot ELSE {}
      /\ ints' = (ints \union Arriving) \ (IF Ready THEN OneHot ELSE {})
  BY <1>1, Moves DEF Cycle
<1>4. OneHot \subseteq ints
  BY OneHotLatched DEF TypeOK
<1>5. Pending = Sent \union Arriving \union ints \union Granted
  BY DEF Pending, Sent, Arriving
<1>6. Pending' = raised \union Sent \union Arriving \union ints
  BY <1>3, <1>4, <1>5 DEF Pending, Sent, Arriving
<1>7. raised \in SUBSET Lanes /\ Delivery!MayFire(raised)
  BY DEF MayRaise, Delivery!MayFire
<1>8. work_left' \in {WorkLeft(clear), TRUE} /\ WorkLeft(clear) \in {work_left, FALSE}
  BY <1>2 DEF Processing, GrantAql, GrantLane, Answered, Hold, WorkLeft
<1>9. Delivery!Wait(raised) \/ Delivery!TakeDoorbell(raised) \/ Delivery!Finish(raised)
        \/ \E l \in Lanes : Delivery!Present(l, raised)
  <2>1. CASE GrantAql(clear)
    <3>1. /\ Granted = {AqlLane} /\ Serving' = Serving /\ work_left' = TRUE
      BY <2>1 DEF GrantAql, Granted, Serving
    <3>2. Pending' \in {Pending \union raised, (Pending \ {AqlLane}) \union raised}
      BY <1>5, <1>6, <3>1
    <3>3. QED
      BY <1>5, <3>1, <3>2 DEF Delivery!TakeDoorbell
  <2>2. CASE GrantLane(clear)
    <3>1. /\ Granted = {int_num} /\ int_num \in Lanes \ {AqlLane}
          /\ Serving = None /\ Serving' = int_num /\ work_left' = WorkLeft(clear)
      BY <2>2 DEF GrantLane, Granted, Serving, TypeOK
    <3>2. int_num \notin Sent \union Arriving \union ints
      BY <3>1 DEF IcInv, Apart
    <3>3. Pending' = (Pending \ {int_num}) \union raised
      BY <1>5, <1>6, <3>1, <3>2
    <3>4. Delivery!Present(int_num, raised)
      BY <1>5, <1>8, <3>1, <3>3 DEF Delivery!Present
    <3>5. QED
      BY <3>1, <3>4
  <2>3. CASE Answered(clear)
    <3>1. Granted = {} /\ Serving # None /\ Serving' = None /\ work_left' = WorkLeft(clear)
      BY <2>3, LaneFacts DEF Answered, Granted, Serving, IcInv, PresentsOne, TypeOK
    <3>2. Pending' = Pending \union raised
      BY <1>5, <1>6, <3>1
    <3>3. QED
      BY <1>8, <3>1, <3>2 DEF Delivery!Finish
  <2>4. CASE Hold(clear)
    <3>1. Granted = {} /\ Serving' = Serving /\ work_left' = WorkLeft(clear)
      BY <2>4 DEF Hold, Granted, Serving, IcInv, PresentsOne
    <3>2. Pending' = Pending \union raised
      BY <1>5, <1>6, <3>1
    <3>3. QED
      BY <1>8, <3>1, <3>2 DEF Delivery!Wait
  <2>5. QED
    BY <1>2, <2>1, <2>2, <2>3, <2>4 DEF Processing
<1>10. QED
  BY <1>7, <1>9 DEF Delivery!Next

\* For every number of cores: no request is lost, presented twice or forgotten
\* by a reset of AQL_LEFT, whatever the demultiplexers, the arbiter and the
\* core do in each cycle.
THEOREM ControllerImplementsDelivery == Spec => ImplementsDelivery
<1>1. TypeOK /\ IcInv /\ [Next]_vars => [Delivery!Next]_Delivery!idVars
  <2>1. ASSUME UNCHANGED vars
        PROVE  UNCHANGED Delivery!idVars
    BY <2>1 DEF vars, dmxVars, arbVars, ctlVars, Delivery!idVars, Pending, Granted, Serving
  <2>2. QED
    BY <2>1, DeliveryStep DEF Next
<1>2. QED
  BY <1>1, DeliveryInit, IcInvariant, PTL DEF Spec, ImplementsDelivery, Delivery!Spec
=============================================================================
