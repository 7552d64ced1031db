------------------------- MODULE LinkScheduleProofs -------------------------
(***************************************************************************)
(* The schedule's invariants for every number of sessions, frame length    *)
(* and set of step costs.  SInv is inductive: it adds to the properties    *)
(* that the targets of all sessions are equal until a stop comes between,  *)
(* and that no machine has run more of its frames than its cycles allow:   *)
(* what it lost for them is never negative.  Behind it the adapter driven by this schedule: LinkInv *)
(* says where its deadline lies in the game's packet.                      *)
(***************************************************************************)
EXTENDS MC_Dmg07Link, TLAPS

Together ==
  ~ cut => /\ stopped = {}
           /\ \A i, j \in Sessions : targets[i] = targets[j]

LostTime == \A i \in Sessions : Lost(i) \in Nat

SInv == TypeOK /\ FramesAsAsked /\ Together /\ LostTime /\ DriftBound

-----------------------------------------------------------------------------
(* Frames counted from when the sessions were linked order their cycles. *)
LEMMA FrameEarlier ==
  ASSUME NEW a \in Nat, NEW b \in Nat, a < b
  PROVE  a * FrameCycles + FrameCycles =< b * FrameCycles
<1>1. PICK k \in Nat : b = a + 1 + k
  <2>1. b - a - 1 \in Nat /\ b = a + 1 + (b - a - 1)
    OBVIOUS
  <2> QED
    BY <2>1
<1>2. b * FrameCycles = a * FrameCycles + FrameCycles + k * FrameCycles
  BY <1>1, FrameCyclesAssumption
<1>3. k * FrameCycles \in Nat
  BY FrameCyclesAssumption
<1> QED
  BY <1>2, <1>3, FrameCyclesAssumption

(* The invariant holds of machines just linked. *)
LEMMA InitInv == Init => SInv
<1> SUFFICES ASSUME Init PROVE SInv
  OBVIOUS
<1> USE DEF Init
<1>1. TypeOK
  <2>1. \A i \in Sessions : cycles[i] \in Nat /\ frame_phase[i] \in 0 .. FrameCycles - 1
    BY StartsAssumption
  <2>2. cycles \in [Sessions -> Nat] /\ frame_phase \in [Sessions -> 0 .. FrameCycles - 1]
    BY StartsAssumption
  <2>3. linked \in [Sessions -> [cycle : Nat, frame : Int]]
    <3>1. \A i \in Sessions : cycles[i] - frame_phase[i] \in Int
      BY <2>1, FrameCyclesAssumption
    <3> QED
      BY <2>1, <3>1
  <2> QED
    BY <2>2, <2>3 DEF TypeOK
<1>2. FramesAsAsked
  BY DEF FramesAsAsked
<1>3. Together
  BY DEF Together
<1>4. \A i \in Sessions : Lost(i) = 0
  BY <1>1, FrameCyclesAssumption DEF Lost, TypeOK
<1>5. LostTime
  BY <1>4 DEF LostTime
<1>6. DriftBound
  BY <1>1, <1>4 DEF DriftBound, Headstart, Positive, TypeOK
<1> QED
  BY <1>1, <1>2, <1>3, <1>5, <1>6 DEF SInv

(* What a step does to the stepping session and to the others. *)
LEMMA SteppedSession ==
  ASSUME TypeOK, NEW i \in Sessions, NEW c \in Costs, StepSession(i, c)
  PROVE  /\ cycles' \in [Sessions -> Nat] /\ frames' \in [Sessions -> Nat]
         /\ frame_phase' \in [Sessions -> 0 .. FrameCycles - 1]
         /\ cycles'[i] = cycles[i] + c.cpu
         /\ frames'[i] \in {frames[i], frames[i] + 1}
         /\ frames'[i] = frames[i] => frame_phase'[i] =< frame_phase[i] + c.frame
         /\ frames'[i] = frames[i] + 1 => frame_phase'[i] =< frame_phase[i] + c.frame - FrameCycles
         /\ \A j \in Sessions \ {i} :
              cycles'[j] = cycles[j] /\ frames'[j] = frames[j] /\ frame_phase'[j] = frame_phase[j]
         /\ targets' = targets /\ linked' = linked
<1>1. c.cpu \in Nat /\ c.frame \in Nat /\ c.frame =< FrameCycles
  BY CostsAssumption
<1>2. frame_phase[i] \in 0 .. FrameCycles - 1 /\ frames[i] \in Nat /\ cycles[i] \in Nat
  BY DEF TypeOK
<1>3. PICK sum \in Nat : /\ sum = (IF c.restarts THEN 0 ELSE frame_phase[i]) + c.frame
                         /\ sum =< frame_phase[i] + c.frame
  BY <1>1, <1>2
<1>4. /\ frame_phase' = [frame_phase EXCEPT ![i] = IF sum >= FrameCycles THEN sum - FrameCycles ELSE sum]
      /\ frames' = [frames EXCEPT ![i] = IF sum >= FrameCycles THEN @ + 1 ELSE @]
      /\ cycles' = [cycles EXCEPT ![i] = @ + c.cpu]
      /\ targets' = targets /\ linked' = linked
  BY <1>3 DEF StepSession
<1>5. (IF sum >= FrameCycles THEN sum - FrameCycles ELSE sum) \in 0 .. FrameCycles - 1
  BY <1>1, <1>2, <1>3, FrameCyclesAssumption
<1>6. frame_phase' \in [Sessions -> 0 .. FrameCycles - 1]
  BY <1>4, <1>5 DEF TypeOK
<1>7. cycles' \in [Sessions -> Nat] /\ frames' \in [Sessions -> Nat]
  BY <1>1, <1>2, <1>4 DEF TypeOK
<1>8. /\ frame_phase'[i] = (IF sum >= FrameCycles THEN sum - FrameCycles ELSE sum)
      /\ frames'[i] = (IF sum >= FrameCycles THEN frames[i] + 1 ELSE frames[i])
      /\ cycles'[i] = cycles[i] + c.cpu
      /\ \A j \in Sessions \ {i} :
           cycles'[j] = cycles[j] /\ frames'[j] = frames[j] /\ frame_phase'[j] = frame_phase[j]
  BY <1>4 DEF TypeOK
<1> QED
  BY <1>1, <1>2, <1>3, <1>4, <1>6, <1>7, <1>8, FrameCyclesAssumption

(* A step never makes up for lost time: its share of a frame is at most    *)
(* its cycles, and a frame that starts again only loses.                   *)
LEMMA StepLoses ==
  ASSUME TypeOK, NEW i \in Sessions, NEW c \in Costs, StepSession(i, c), NEW j \in Sessions
  PROVE  Lost(j) \in Int /\ Lost(j)' \in Int /\ Lost(j)' >= Lost(j)
<1>1. c.cpu \in Nat /\ c.frame \in Nat /\ c.frame =< c.cpu
  BY CostsAssumption
<1>2. /\ cycles[j] \in Nat /\ frames[j] \in Nat /\ frame_phase[j] \in Nat /\ linked[j].frame \in Int
      /\ frame_phase'[j] \in Nat /\ linked' = linked
  BY SteppedSession, FrameCyclesAssumption DEF TypeOK
<1>3. PICK f \in Nat : f = frames[j] * FrameCycles
  BY <1>2, FrameCyclesAssumption
<1>4. (frames[j] + 1) * FrameCycles = f + FrameCycles
  BY <1>2, <1>3, FrameCyclesAssumption
<1>5. Lost(j) = cycles[j] - linked[j].frame - f - frame_phase[j]
  BY <1>3 DEF Lost
<1>6. Lost(j)' = cycles'[j] - linked[j].frame - frames'[j] * FrameCycles - frame_phase'[j]
  BY <1>2 DEF Lost
<1>7. CASE j # i
  <2>1. Lost(j)' = Lost(j)
    BY <1>7, <1>6, SteppedSession DEF Lost
  <2> QED
    BY <2>1, <1>2, <1>3, <1>5
<1>8. CASE j = i
  <2>1. PICK x \in Int, y \in Int : /\ x = cycles[j] - linked[j].frame
                                   /\ y = cycles'[j] - linked[j].frame
                                   /\ y = x + c.cpu
    <3>1. cycles'[j] = cycles[j] + c.cpu
      BY <1>8, SteppedSession
    <3> QED
      BY <1>1, <1>2, <3>1
  <2>2. PICK p \in Nat, q \in Nat : p = frame_phase[j] /\ q = frame_phase'[j]
    BY <1>2
  <2>3. PICK g \in Nat : g = frames'[j] * FrameCycles /\ g + q =< f + p + c.frame
    <3>1. CASE frames'[j] = frames[j]
      <4>1. q =< p + c.frame
        BY <1>8, <2>2, <3>1, SteppedSession
      <4>2. f = frames'[j] * FrameCycles
        BY <1>3, <3>1
      <4>3. f + q =< f + p + c.frame
        BY <1>1, <4>1
      <4> QED
        BY <4>2, <4>3
    <3>2. CASE frames'[j] = frames[j] + 1
      <4>1. q =< p + c.frame - FrameCycles
        BY <1>8, <2>2, <3>2, SteppedSession
      <4>2. PICK h \in Nat : h = f + FrameCycles
        BY FrameCyclesAssumption
      <4>3. h = frames'[j] * FrameCycles
        BY <1>4, <3>2, <4>2
      <4>4. h + q =< f + p + c.frame
        BY <1>1, <4>1, <4>2, FrameCyclesAssumption
      <4> QED
        BY <4>3, <4>4
    <3> QED
      BY <1>8, <3>1, <3>2, SteppedSession
  <2>4. x - f - p \in Int /\ y - g - q \in Int /\ y - g - q >= x - f - p
    <3>1. g + q =< f + p + c.frame /\ y = x + c.cpu
      BY <2>1, <2>3
    <3> QED
      BY <1>1, <3>1
  <2>5. Lost(j) = x - f - p
    BY <1>5, <2>1, <2>2
  <2>6. Lost(j)' = y - g - q
    <3>1. g = frames'[j] * FrameCycles
      BY <2>3
    <3> QED
      BY <1>6, <2>1, <2>2, <3>1
  <2> QED
    BY <2>4, <2>5, <2>6
<1> QED
  BY <1>7, <1>8

(* So what a session may be ahead by only grows, and never leaves out what *)
(* its frames began earlier.                                               *)
LEMMA HeadstartIsNat ==
  ASSUME TypeOK, NEW i \in Sessions, NEW j \in Sessions, Lost(j) \in Int
  PROVE  /\ Headstart(j, i) \in Nat
         /\ linked[j].frame - linked[i].frame + Lost(j) =< Headstart(j, i)
<1>1. /\ linked[i].frame \in Int /\ linked[j].frame \in Int
      /\ linked[i].cycle \in Nat /\ linked[j].cycle \in Nat
  BY DEF TypeOK
<1> QED
  BY <1>1 DEF Headstart, Positive

LEMMA HeadstartGrows ==
  ASSUME TypeOK, NEW i \in Sessions, NEW j \in Sessions, linked' = linked,
         Lost(j) \in Int, Lost(j)' \in Int, Lost(j)' >= Lost(j)
  PROVE  Headstart(j, i)' \in Nat /\ Headstart(j, i)' >= Headstart(j, i)
<1>1. /\ linked[i].frame \in Int /\ linked[j].frame \in Int
      /\ linked[i].cycle \in Nat /\ linked[j].cycle \in Nat
  BY DEF TypeOK
<1>2. PICK y \in Int : y = Lost(j)'
  OBVIOUS
<1>3. PICK x \in Int : x = Lost(j)
  OBVIOUS
<1>4. PICK a \in Int : a = linked[j].cycle - linked[i].cycle
  BY <1>1
<1>5. PICK b \in Int : b = linked[j].frame - linked[i].frame
  BY <1>1
<1>6. Headstart(j, i)' = Positive(IF a > b + y THEN a ELSE b + y)
  BY <1>2, <1>4, <1>5 DEF Headstart, Positive
<1>7. Headstart(j, i) = Positive(IF a > b + x THEN a ELSE b + x)
  BY <1>3, <1>4, <1>5 DEF Headstart, Positive
<1> QED
  BY <1>2, <1>3, <1>6, <1>7 DEF Positive

(* A step of the chosen session keeps it. *)
LEMMA StepSessionInv ==
  ASSUME SInv, NEW i \in Sessions, NEW c \in Costs, StepSession(i, c),
         UNCHANGED <<stopped, running, cut>>
  PROVE  SInv'
<1> USE DEF SInv
<1>0. running /\ Chosen(i) /\ frames[i] < targets[i]
  BY DEF StepSession, Chosen, Eligible
<1>1. TypeOK'
  BY SteppedSession DEF TypeOK
<1>2. FramesAsAsked'
  BY <1>0, SteppedSession DEF FramesAsAsked, TypeOK
<1>3. Together'
  BY SteppedSession DEF Together
<1>4. LostTime'
  BY StepLoses DEF LostTime
<1>5. DriftBound'
  <2> SUFFICES ASSUME ~ cut, NEW a \in Sessions, NEW b \in Sessions
               PROVE  \/ cycles'[b] - cycles'[a] =< Headstart(b, a)'
                      \/ \E d \in Costs : cycles'[b] - cycles'[a] =< Headstart(b, a)' + d.cpu
    BY DEF DriftBound
  <2>0. Lost(a) \in Nat /\ Lost(b) \in Nat /\ Lost(b)' \in Int /\ Lost(b)' >= Lost(b)
    BY StepLoses DEF LostTime
  <2>1. PICK h \in Nat : h = Headstart(b, a) /\ linked[b].frame - linked[a].frame + Lost(b) =< h
    BY <2>0, HeadstartIsNat
  <2>2. PICK g \in Nat : g = Headstart(b, a)' /\ g >= h
    BY <2>0, <2>1, HeadstartGrows, SteppedSession
  <2>3. /\ cycles[a] \in Nat /\ cycles[b] \in Nat /\ c.cpu \in Nat
        /\ cycles'[a] \in Nat /\ cycles'[b] \in Nat
    BY CostsAssumption, SteppedSession DEF TypeOK
  <2>4. CASE b # i
    <3>1. cycles'[b] - cycles'[a] =< cycles[b] - cycles[a]
      <4>1. cycles'[b] = cycles[b]
        BY <2>4, SteppedSession
      <4>2. cycles'[a] \in {cycles[a], cycles[a] + c.cpu}
        BY SteppedSession
      <4> QED
        BY <2>3, <4>1, <4>2
    <3>2. \/ cycles[b] - cycles[a] =< h
          \/ \E d \in Costs : cycles[b] - cycles[a] =< h + d.cpu
      BY <2>1 DEF DriftBound
    <3>3. CASE cycles[b] - cycles[a] =< h
      BY <2>1, <2>2, <2>3, <3>1, <3>3
    <3>4. CASE \E d \in Costs : cycles[b] - cycles[a] =< h + d.cpu
      <4>1. PICK d \in Costs : cycles[b] - cycles[a] =< h + d.cpu
        BY <3>4
      <4>2. d.cpu \in Nat
        BY CostsAssumption
      <4>3. cycles'[b] - cycles'[a] =< g + d.cpu
        BY <2>2, <2>3, <3>1, <4>1, <4>2
      <4> QED
        BY <2>2, <4>3
    <3> QED
      BY <3>2, <3>3, <3>4
  <2>5. CASE b = i /\ a = i
    BY <2>2, <2>3, <2>5
  <2>6. CASE b = i /\ a # i
    <3>1. cycles'[b] = cycles[i] + c.cpu /\ cycles'[a] = cycles[a]
      BY <2>6, SteppedSession
    <3>2. cycles[i] - cycles[a] =< h
      <4>1. CASE Eligible(a)
        <5>1. cycles[i] =< cycles[a]
          BY <1>0, <2>3, <2>6, <4>1 DEF Chosen, Before
        <5> QED
          BY <2>3, <2>6, <5>1
      <4>2. CASE ~ Eligible(a)
        (* a has all its frames, i is at least one short of as many *)
        <5>1. frames[i] < frames[a] /\ frames[i] \in Nat /\ frames[a] \in Nat
          BY <1>0, <4>2 DEF Eligible, Together, TypeOK
        <5>2. PICK x \in Nat, y \in Nat : /\ x = frames[i] * FrameCycles
                                          /\ y = frames[a] * FrameCycles
          BY <5>1, FrameCyclesAssumption
        <5>3. x + FrameCycles =< y
          BY <5>1, <5>2, FrameEarlier
        <5>4. /\ Lost(i) = cycles[i] - linked[i].frame - x - frame_phase[i]
              /\ Lost(a) = cycles[a] - linked[a].frame - y - frame_phase[a]
          BY <5>2 DEF Lost
        <5>5. /\ frame_phase[i] \in Nat /\ frame_phase[i] < FrameCycles /\ frame_phase[a] \in Nat
              /\ linked[i].frame \in Int /\ linked[a].frame \in Int
          BY FrameCyclesAssumption DEF TypeOK
        <5>6. linked[i].frame - linked[a].frame + Lost(i) =< h
          BY <2>1, <2>6
        <5> QED
          BY <2>0, <2>1, <2>3, <2>6, <5>2, <5>3, <5>4, <5>5, <5>6, FrameCyclesAssumption
      <4> QED
        BY <4>1, <4>2
    <3>3. cycles'[b] - cycles'[a] =< g + c.cpu
      BY <2>2, <2>3, <2>6, <3>1, <3>2
    <3> QED
      BY <2>2, <3>3
  <2> QED
    BY <2>4, <2>5, <2>6
<1> QED
  BY <1>1, <1>2, <1>3, <1>4, <1>5

-----------------------------------------------------------------------------
(* Every step of the runner and the host keeps it. *)
LEMMA NextInv == SInv /\ [Next]_vars => SInv'
<1> SUFFICES ASSUME SInv, [Next]_vars PROVE SInv'
  OBVIOUS
<1> USE DEF SInv
<1>0. ASSUME UNCHANGED <<cycles, frame_phase, frames, linked>>, cut' = cut \/ cut' = TRUE
      PROVE  LostTime' /\ DriftBound'
  BY <1>0 DEF LostTime, Lost, DriftBound, Headstart
<1>1. ASSUME NEW n \in Requests, BeginCall(n) PROVE SInv'
  <2>0. n \in Nat /\ frames \in [Sessions -> Nat] /\ targets \in [Sessions -> Nat]
    BY RequestsAssumption DEF TypeOK
  <2>1. TypeOK'
    BY <1>1, <2>0 DEF BeginCall, TypeOK
  <2>2. FramesAsAsked'
    BY <1>1, <2>0 DEF BeginCall, FramesAsAsked
  <2>3. Together'
    BY <1>1, <2>0 DEF BeginCall, Together, FramesAsAsked
  <2>4. LostTime' /\ DriftBound'
    BY <1>0, <1>1 DEF BeginCall
  <2> QED
    BY <2>1, <2>2, <2>3, <2>4
<1>2. ASSUME NEW i \in Sessions, NEW c \in Costs, Step(i, c) PROVE SInv'
  BY <1>2, StepSessionInv DEF Step
<1>3. ASSUME NEW i \in Sessions, NEW c \in Costs, StepAndStop(i, c) PROVE SInv'
  <2>0. StepSession(i, c) /\ cut'
    BY <1>3 DEF StepAndStop
  <2>1. TypeOK'
    BY <1>3, SteppedSession DEF StepAndStop, TypeOK
  <2>2. FramesAsAsked'
    <3>1. frames[i] < targets[i]
      BY <2>0 DEF StepSession, Chosen, Eligible
    <3> QED
      BY <2>0, <3>1, SteppedSession DEF FramesAsAsked, TypeOK
  <2>3. Together' /\ DriftBound'
    BY <2>0 DEF Together, DriftBound
  <2>4. LostTime'
    BY <2>0, StepLoses DEF LostTime
  <2> QED
    BY <2>1, <2>2, <2>3, <2>4
<1>4. ASSUME NEW i \in Sessions, BreakBeforeStep(i) PROVE SInv'
  <2>1. LostTime' /\ DriftBound'
    BY <1>0, <1>4 DEF BreakBeforeStep
  <2> QED
    BY <1>4, <2>1 DEF BreakBeforeStep, TypeOK, FramesAsAsked, Together
<1>5. ASSUME EndCall PROVE SInv'
  <2>1. FramesAsAsked'
    <3>1. ASSUME ~ cut PROVE frames = targets
      <4>1. \A i \in Sessions : frames[i] = targets[i]
        <5> SUFFICES ASSUME NEW i \in Sessions PROVE frames[i] = targets[i]
          OBVIOUS
        <5>1. i \notin stopped
          BY <3>1 DEF Together
        <5>2. ~ (frames[i] < targets[i])
          BY <1>5, <5>1 DEF EndCall, Eligible
        <5>3. frames[i] =< targets[i]
          BY DEF FramesAsAsked
        <5>4. frames[i] \in Nat /\ targets[i] \in Nat
          BY DEF TypeOK
        <5> QED
          BY <5>2, <5>3, <5>4
      <4> QED
        BY <4>1 DEF TypeOK
    <3> QED
      BY <1>5, <3>1 DEF EndCall, FramesAsAsked
  <2>2. TypeOK' /\ Together'
    BY <1>5, ZenonT(120) DEF EndCall, TypeOK, Together
  <2>3. LostTime' /\ DriftBound'
    BY <1>0, <1>5 DEF EndCall
  <2> QED
    BY <2>1, <2>2, <2>3
<1>6. ASSUME NEW i \in Sessions, Resume(i) PROVE SInv'
  <2>1. LostTime' /\ DriftBound'
    BY <1>0, <1>6 DEF Resume
  <2> QED
    BY <1>6, <2>1 DEF Resume, TypeOK, FramesAsAsked, Together
<1>7. CASE UNCHANGED vars
  <2>1. LostTime' /\ DriftBound'
    BY <1>0, <1>7 DEF vars
  <2> QED
    BY <1>7, <2>1 DEF vars, TypeOK, FramesAsAsked, Together
<1> QED
  BY <1>1, <1>2, <1>3, <1>4, <1>5, <1>6, <1>7 DEF Next, InCall

(* It always holds. *)
LEMMA ScheduleInvariant == Spec => []SInv
<1> QED
  BY InitInv, NextInv, PTL DEF Spec

(* Whatever frames are asked for and in whatever calls, a call that no     *)
(* stop cuts short gives every session just those frames.                  *)
THEOREM CallsGiveFramesAsked == Spec => [](TypeOK /\ FramesAsAsked)
<1>1. SInv => TypeOK /\ FramesAsAsked
  BY DEF SInv
<1> QED
  BY <1>1, ScheduleInvariant, PTL

(* Machines never drift apart by more than one step on top of where they   *)
(* were linked and of the time the one ahead has lost for its frames, for  *)
(* any number of sessions and calls, rates and restarts of a frame.        *)
THEOREM NoDrift == Spec => []DriftBound
<1>1. SInv => DriftBound
  BY DEF SInv
<1> QED
  BY <1>1, ScheduleInvariant, PTL

(* Whatever the rates, only the session that is least in cycles steps, so  *)
(* it ends no more than its own step past any other with frames to run.    *)
THEOREM EligibleWaitOneStep == Spec => NeverAheadOfTheEligible
<1> DEFINE Bounded ==
      \A i, j \in Sessions :
        running /\ Eligible(i) /\ cycles'[j] # cycles[j] =>
          \E c \in Costs : cycles'[j] =< cycles[i] + c.cpu
<1>1. SInv /\ [Next]_vars => [Bounded]_vars
  <2> SUFFICES ASSUME SInv, Next, NEW i \in Sessions, NEW j \in Sessions,
                      Eligible(i), cycles'[j] # cycles[j]
               PROVE  \E c \in Costs : cycles'[j] =< cycles[i] + c.cpu
    OBVIOUS
  <2>1. PICK k \in Sessions, c \in Costs : StepSession(k, c)
    BY DEF Next, InCall, BeginCall, Step, StepAndStop, BreakBeforeStep, EndCall, Resume
  <2>2. j = k /\ cycles'[j] = cycles[j] + c.cpu
    BY <2>1, SteppedSession DEF SInv
  <2>3. cycles[j] =< cycles[i]
    BY <2>1, <2>2 DEF StepSession, Chosen, Before, SInv, TypeOK
  <2>4. cycles[i] \in Nat /\ cycles[j] \in Nat /\ c.cpu \in Nat
    BY CostsAssumption DEF SInv, TypeOK
  <2> QED
    BY <2>2, <2>3, <2>4
<1> QED
  BY <1>1, ScheduleInvariant, PTL DEF Spec, NeverAheadOfTheEligible

(***************************************************************************)
(* The adapter driven by the runner (Link), for every clock, delay and cost *)
(* of a step.  LinkInv adds to the two invariants the shape of the adapter's *)
(* place in its packets, and how far the deadline has come from the start   *)
(* of a game's packet (PacketsRun).                                         *)
(***************************************************************************)
LinkShape ==
  /\ lcycles \in [Sessions -> Int] /\ rewound \in [Sessions -> Nat]
  /\ armed \in [Sessions -> PortUses \cup {"idle"}]
  /\ session_count \in {0, SessionCount} /\ (lrunning => session_count = SessionCount)
  /\ phase \in {"Ping", "Confirm", "Transmission", "Restart"} /\ byte_index \in Nat
  /\ phase = "Ping" => byte_index \in 0 .. 3
  /\ phase = "Transmission" => byte_index < 4 * packet_size
  /\ packet_size \in 1 .. 4 /\ rate \in Nat /\ ping_rate \in Nat
  /\ ping_replies \in [0 .. 3 -> [0 .. 3 -> 0 .. 255]]
  /\ next_transfer \in Int /\ packet_start \in Int

PacketsRun ==
  phase = "Transmission" /\ packet_start # 0 =>
    IF byte_index = 0
    THEN next_transfer >= packet_start
           + Link!Greater(Link!MinimumPeriod(rate), Link!SerializedPeriod(rate, 4 * packet_size))
    ELSE next_transfer >= packet_start + (Link!ByteInterval(rate) * byte_index)

LinkInv == LinkShape /\ PacketsRun /\ Link!NothingOverdue /\ Link!WaitBounded

-----------------------------------------------------------------------------
(* Delays *)

LEMMA LinkConstants ==
  /\ SessionCount \in 2 .. 4
  /\ \A c \in LinkCosts : c.cpu \in Nat \ {0}
  /\ CpuHz \in Nat \ {0} /\ Second \in Nat \ {0} /\ PingByteUs \in Nat /\ PingPacketUs \in Nat
  /\ TxByteUs \in Nat /\ TxNibbleUs \in Nat /\ TxMinPacketUs \in Nat /\ TxRateUs \in Nat
  /\ TxAddonUs \in Nat
<1> QED
  BY LinkAssumption DEF Link!LinkParameters

(* Delays round up, so the longer one takes no fewer cycles. *)
LEMMA MicrosInOrder ==
  ASSUME NEW a \in Nat, NEW b \in Nat, a =< b
  PROVE  /\ Link!CyclesForMicros(a) \in Nat /\ Link!CyclesForMicros(b) \in Nat
         /\ Link!CyclesForMicros(a) =< Link!CyclesForMicros(b)
<1>1. PICK k \in Nat : b = a + k
  <2>1. b - a \in Nat /\ b = a + (b - a)
    OBVIOUS
  <2> QED
    BY <2>1
<1>2. PICK x \in Nat : x = CpuHz * a
  BY LinkConstants
<1>3. PICK y \in Nat : y = CpuHz * b
  BY LinkConstants
<1>4. PICK z \in Nat : z = CpuHz * k
  BY LinkConstants
<1>5. y = x + z
  BY <1>1, <1>2, <1>3, <1>4, LinkConstants
<1>6. PICK s \in Nat \ {0} : s = Second
  BY LinkConstants
<1>7. PICK u \in Nat : u = x + s - 1
  BY <1>2, <1>6
<1>8. PICK v \in Nat : v = y + s - 1
  BY <1>3, <1>6
<1>9. u \div s \in Nat /\ v \div s \in Nat /\ u \div s =< v \div s
  BY <1>5, <1>6, <1>7, <1>8, <1>2, <1>3, <1>4, SMTT(90)
<1> QED
  BY <1>9, <1>2, <1>3, <1>6, <1>7, <1>8 DEF Link!CyclesForMicros

(* A byte, and a packet, take their time. *)
LEMMA DelaysAreNat ==
  ASSUME NEW r \in Nat, NEW n \in Nat \ {0}
  PROVE  /\ r % 16 \in Nat /\ r \div 16 \in Nat
         /\ Link!ByteInterval(r) \in Nat /\ Link!MinimumPeriod(r) \in Nat
         /\ Link!SerializedPeriod(r, n) \in Nat /\ Link!PacketTail(r, n) \in Nat
         /\ (Link!ByteInterval(r) * (n - 1)) + Link!PacketTail(r, n)
              >= Link!Greater(Link!MinimumPeriod(r), Link!SerializedPeriod(r, n))
<1>1. r % 16 \in Nat /\ r \div 16 \in Nat
  OBVIOUS
<1>2. TxByteUs + (r \div 16) * TxNibbleUs \in Nat /\ TxMinPacketUs + (r % 16) * TxRateUs \in Nat
  BY <1>1, LinkConstants
<1>3. Link!ByteInterval(r) \in Nat
  <2>1. PICK d \in Nat : d = TxByteUs + (r \div 16) * TxNibbleUs
    BY <1>2
  <2>2. Link!CyclesForMicros(d) \in Nat
    BY MicrosInOrder
  <2> QED
    BY <2>1, <2>2 DEF Link!ByteInterval
<1>4. Link!MinimumPeriod(r) \in Nat
  <2>1. PICK d \in Nat : d = TxMinPacketUs + (r % 16) * TxRateUs
    BY <1>2
  <2>2. Link!CyclesForMicros(d) \in Nat
    BY MicrosInOrder
  <2> QED
    BY <2>1, <2>2 DEF Link!MinimumPeriod
<1>5. Link!CyclesForMicros(TxAddonUs) \in Nat
  BY MicrosInOrder, LinkConstants
<1>6. PICK i \in Nat : i = Link!ByteInterval(r)
  BY <1>3
<1>7. PICK w \in Nat : w = i * n
  OBVIOUS
<1>8. PICK e \in Nat : e = i * (n - 1)
  OBVIOUS
<1>9. Link!SerializedPeriod(r, n) \in Nat
  BY <1>5, <1>6, <1>7 DEF Link!SerializedPeriod
<1>10. PICK p \in Nat : p = Link!Greater(Link!MinimumPeriod(r), Link!SerializedPeriod(r, n))
  BY <1>4, <1>9 DEF Link!Greater
<1>11. Link!PacketTail(r, n) = Link!Greater(IF p > e THEN p - e ELSE 0, i)
  BY <1>6, <1>8, <1>10 DEF Link!PacketTail
<1>12. Link!PacketTail(r, n) \in Nat /\ e + Link!PacketTail(r, n) >= p
  BY <1>11 DEF Link!Greater
<1> QED
  BY <1>1, <1>3, <1>4, <1>6, <1>8, <1>9, <1>10, <1>12

(* A few sets of delays have a longest. *)
HasLongest(S) == S \subseteq Nat /\ \E d \in S : \A e \in S : e =< d

LEMMA LongestOfBoth ==
  ASSUME NEW S, NEW T, HasLongest(S), HasLongest(T)
  PROVE  HasLongest(S \cup T)
<1>1. PICK d \in S : \A e \in S : e =< d
  BY DEF HasLongest
<1>2. PICK f \in T : \A e \in T : e =< f
  BY DEF HasLongest
<1>3. d \in Nat /\ f \in Nat /\ S \cup T \subseteq Nat
  BY DEF HasLongest
<1>4. CASE d >= f
  <2>1. \A e \in S \cup T : e =< d
    BY <1>1, <1>2, <1>3, <1>4
  <2> QED
    BY <2>1, <1>3 DEF HasLongest
<1>5. CASE d < f
  <2>1. \A e \in S \cup T : e =< f
    BY <1>1, <1>2, <1>3, <1>5
  <2> QED
    BY <2>1, <1>3 DEF HasLongest
<1> QED
  BY <1>3, <1>4, <1>5

LEMMA OneIsLongest ==
  ASSUME NEW a \in Nat
  PROVE  HasLongest({a})
<1> QED
  BY DEF HasLongest

LEMMA RateHasLongest ==
  ASSUME NEW r \in Nat
  PROVE  HasLongest(Link!DelaysAt(r))
<1> DEFINE pings == {Link!CyclesForMicros(PingByteUs), Link!ByteInterval(r),
                     Link!CyclesForMicros(PingPacketUs + (r % 16) * TxRateUs)}
           tails == {Link!PacketTail(r, 4 * n) : n \in 1 .. 4}
<1>1. r % 16 \in Nat /\ PingPacketUs + (r % 16) * TxRateUs \in Nat
  BY LinkConstants
<1>2. PICK p \in Nat : p = PingPacketUs + (r % 16) * TxRateUs
  BY <1>1
<1>3. /\ Link!CyclesForMicros(PingByteUs) \in Nat /\ Link!CyclesForMicros(p) \in Nat
      /\ Link!ByteInterval(r) \in Nat
  <2>1. Link!CyclesForMicros(PingByteUs) \in Nat /\ Link!CyclesForMicros(p) \in Nat
    BY MicrosInOrder, LinkConstants
  <2>2. Link!ByteInterval(r) \in Nat
    <3>1. 1 \in Nat \ {0}
      OBVIOUS
    <3> QED
      BY <3>1, DelaysAreNat
  <2> QED
    BY <2>1, <2>2
<1>4. HasLongest(pings)
  <2>1. pings = {Link!CyclesForMicros(PingByteUs)} \cup {Link!ByteInterval(r)} \cup {Link!CyclesForMicros(p)}
    BY <1>2
  <2>2. /\ HasLongest({Link!CyclesForMicros(PingByteUs)}) /\ HasLongest({Link!ByteInterval(r)})
        /\ HasLongest({Link!CyclesForMicros(p)})
    BY <1>3, OneIsLongest
  <2> HIDE DEF pings
  <2> QED
    BY <2>1, <2>2, LongestOfBoth
<1>5. \A n \in Nat \ {0} : Link!PacketTail(r, n) \in Nat
  BY DelaysAreNat
<1>6. tails = {Link!PacketTail(r, 4)} \cup {Link!PacketTail(r, 8)} \cup {Link!PacketTail(r, 12)}
              \cup {Link!PacketTail(r, 16)}
  <2>1. 1 .. 4 = {1, 2, 3, 4}
    OBVIOUS
  <2>2. tails = {Link!PacketTail(r, 4 * n) : n \in {1, 2, 3, 4}}
    BY <2>1
  <2>3. 4 * 1 = 4 /\ 4 * 2 = 8 /\ 4 * 3 = 12 /\ 4 * 4 = 16
    OBVIOUS
  <2> QED
    BY <2>2, <2>3
<1>7. HasLongest(tails)
  <2>1. /\ HasLongest({Link!PacketTail(r, 4)}) /\ HasLongest({Link!PacketTail(r, 8)})
        /\ HasLongest({Link!PacketTail(r, 12)}) /\ HasLongest({Link!PacketTail(r, 16)})
    BY <1>5, OneIsLongest
  <2> HIDE DEF tails
  <2> QED
    BY <2>1, <1>6, LongestOfBoth
<1>8. Link!DelaysAt(r) = pings \cup tails
  BY DEF Link!DelaysAt
<1> HIDE DEF pings, tails
<1> QED
  BY <1>4, <1>7, <1>8, LongestOfBoth

(* So the longest delay is one, and bounds those of either rate. *)
LEMMA LongestBounds ==
  ASSUME NEW a \in Nat, NEW b \in Nat,
         NEW all, all = Link!DelaysAt(a) \cup Link!DelaysAt(b) \cup Link!DelaysAt(255)
  PROVE  /\ Link!LongestOf(all) \in Nat
         /\ \A e \in all : e \in Nat /\ e =< Link!LongestOf(all)
<1> DEFINE A == Link!DelaysAt(a)
           B == Link!DelaysAt(b)
           C == Link!DelaysAt(255)
<1>0. HasLongest(A) /\ HasLongest(B) /\ HasLongest(C)
  BY RateHasLongest
<1>1. HasLongest(all)
  <2> HIDE DEF A, B, C
  <2>1. HasLongest(A \cup B)
    BY <1>0, LongestOfBoth
  <2>2. HasLongest((A \cup B) \cup C)
    BY <1>0, <2>1, LongestOfBoth
  <2> QED
    BY <2>2 DEF A, B, C
<1> QED
  BY <1>1 DEF HasLongest, Link!LongestOf

-----------------------------------------------------------------------------
(* The adapter's transfers *)

(* The machine that is least in cycles. *)
LEMMA LeastCycle ==
  ASSUME NEW c \in [Sessions -> Int]
  PROVE  Link!Least(c) \in Int /\ \A i \in Sessions : Link!Least(c) =< c[i]
<1> DEFINE LeastOf(S) == \E i \in S : \A j \in S : c[i] =< c[j]
<1>1. ASSUME NEW S \in SUBSET Sessions, NEW k \in Sessions, LeastOf(S)
      PROVE  LeastOf(S \cup {k})
  <2>1. PICK i \in S : \A j \in S : c[i] =< c[j]
    BY <1>1
  <2>2. c[i] \in Int /\ c[k] \in Int /\ \A j \in S : c[j] \in Int
    BY <1>1
  <2>3. CASE c[i] =< c[k]
    BY <2>1, <2>2, <2>3
  <2>4. CASE c[k] < c[i]
    <3>1. \A j \in S \cup {k} : c[k] =< c[j]
      BY <2>1, <2>2, <2>4
    <3> QED
      BY <3>1
  <2> QED
    BY <2>2, <2>3, <2>4
<1>2. Sessions \in {0 .. 1, 0 .. 2, 0 .. 3}
  BY LinkConstants, SMTT(90) DEF Sessions
<1>3. PICK i \in Sessions : \A j \in Sessions : c[i] =< c[j]
  <2>1. 0 \in Sessions /\ c[0] \in Int /\ 1 \in Sessions /\ {0} \in SUBSET Sessions
    BY LinkConstants DEF Sessions
  <2>2. LeastOf({0})
    BY <2>1
  <2>3. LeastOf({0} \cup {1})
    BY <1>1, <2>1, <2>2
  <2>4. CASE Sessions = 0 .. 1
    <3>1. Sessions = {0} \cup {1}
      BY <2>4
    <3> QED
      BY <3>1, <2>3
  <2>5. CASE 2 \in Sessions
    <3>1. LeastOf(({0} \cup {1}) \cup {2})
      <4>1. {0} \cup {1} \in SUBSET Sessions
        BY <2>1
      <4> QED
        BY <4>1, <2>5, <1>1, <2>3
    <3>2. CASE Sessions = 0 .. 2
      <4>1. Sessions = ({0} \cup {1}) \cup {2}
        BY <3>2
      <4> QED
        BY <4>1, <3>1
    <3>3. CASE Sessions = 0 .. 3
      <4>1. Sessions = (({0} \cup {1}) \cup {2}) \cup {3}
        BY <3>3
      <4>2. ({0} \cup {1}) \cup {2} \in SUBSET Sessions /\ 3 \in Sessions
        BY <4>1
      <4>3. LeastOf((({0} \cup {1}) \cup {2}) \cup {3})
        BY <4>2, <1>1, <3>1
      <4> QED
        BY <4>1, <4>3
    <3> QED
      BY <1>2, <2>5, <3>2, <3>3
  <2> QED
    BY <1>2, <2>4, <2>5
<1>4. \A j \in Sessions : c[j] \in Int
  OBVIOUS
<1>5. Link!Sessions = Sessions
  BY DEF Link!Sessions, Sessions
<1>6. \E n \in {c[j] : j \in Sessions} : \A j \in Sessions : n =< c[j]
  BY <1>3
<1> QED
  BY <1>4, <1>5, <1>6 DEF Link!Least

(* What a transfer leaves of the adapter's place. *)
LEMMA TransferShape ==
  ASSUME LinkShape, session_count = SessionCount, NEW out \in Link!Adapter!Outgoing,
         Link!Adapter!Transfer(out)
  PROVE  /\ session_count' = session_count
         /\ phase' \in {"Ping", "Confirm", "Transmission", "Restart"} /\ byte_index' \in Nat
         /\ phase' = "Ping" => byte_index' \in 0 .. 3
         /\ phase' = "Transmission" => byte_index' < 4 * packet_size'
         /\ packet_size' \in 1 .. 4 /\ rate' \in Nat /\ ping_rate' \in Nat
         /\ ping_replies' \in [0 .. 3 -> [0 .. 3 -> 0 .. 255]]
         /\ DOMAIN incoming' = Sessions
<1>1. Link!Adapter!Slots = Sessions /\ Link!Adapter!Ports = 0 .. 3
  BY LinkConstants DEF Link!Adapter!Slots, Link!Adapter!Ports, Sessions
<1>2. /\ byte_index \in Nat /\ packet_size \in 1 .. 4 /\ rate \in Nat /\ ping_rate \in Nat
      /\ phase = "Ping" => byte_index \in 0 .. 3
      /\ phase = "Transmission" => byte_index < 4 * packet_size
  BY DEF LinkShape
<1>0. ping_replies \in [0 .. 3 -> [0 .. 3 -> 0 .. 255]]
  BY ZenonT(120) DEF LinkShape
<1> DEFINE none == [p \in 0 .. 3 |-> [k \in 0 .. 4 - 1 |-> 0]]
<1>3. Link!Adapter!NoReplies = none
  BY <1>1 DEF Link!Adapter!NoReplies, Link!Adapter!Zeros
<1>4. none \in [0 .. 3 -> [0 .. 3 -> 0 .. 255]]
  OBVIOUS
<1> HIDE DEF none
<1>5. CASE Link!Adapter!TransferConfirm(out)
  <2>1. /\ UNCHANGED <<session_count, rate, ping_rate, packet_size, ping_replies>>
        /\ DOMAIN incoming' = Sessions
        /\ \/ phase' = "Transmission" /\ byte_index' = 0
           \/ phase' = "Confirm" /\ byte_index' = byte_index + 1
    BY <1>1, <1>5 DEF Link!Adapter!TransferConfirm, Link!Adapter!BeginTransmission, Link!Adapter!discovery
  <2>2. ping_replies' = ping_replies /\ session_count' = session_count /\ packet_size' = packet_size
        /\ rate' = rate /\ ping_rate' = ping_rate
    BY <2>1
  <2>3. /\ phase' \in {"Transmission", "Confirm"} /\ phase' # "Ping" /\ byte_index' \in Nat
        /\ phase' = "Transmission" => byte_index' < 4 * packet_size
    BY <1>2, <2>1
  <2> QED
    BY <1>0, <1>2, <2>1, <2>2, <2>3, ZenonT(120)
<1>6. CASE Link!Adapter!TransferPayload(out)
  <2>1. /\ UNCHANGED <<session_count, rate, ping_rate, packet_size, ping_replies>>
        /\ DOMAIN incoming' = Sessions /\ phase = "Transmission"
        /\ \/ phase' = "Transmission" /\ byte_index' = byte_index + 1 /\ byte_index + 1 # 4 * packet_size
           \/ phase' \in {"Transmission", "Restart"} /\ byte_index' = 0
    BY <1>1, <1>6 DEF Link!Adapter!TransferPayload, Link!Adapter!discovery, Link!Adapter!PacketLength
  <2>2. PICK n \in Nat : n = 4 * packet_size /\ n > 0
    BY <1>2
  <2>3. ping_replies' = ping_replies /\ session_count' = session_count /\ packet_size' = packet_size
        /\ rate' = rate /\ ping_rate' = ping_rate
    BY <2>1
  <2>4. /\ phase' \in {"Transmission", "Restart"} /\ phase' # "Ping" /\ byte_index' \in Nat
        /\ phase' = "Transmission" => byte_index' < 4 * packet_size
    BY <1>2, <2>1, <2>2
  <2> QED
    BY <1>0, <1>2, <2>1, <2>3, <2>4, ZenonT(120)
<1>7. CASE Link!Adapter!TransferRestart(out)
  <2>1. /\ UNCHANGED <<session_count, rate, ping_rate, packet_size>>
        /\ DOMAIN incoming' = Sessions
        /\ \/ phase' = "Ping" /\ byte_index' = 0 /\ ping_replies' = none
           \/ phase' = "Restart" /\ byte_index' = byte_index + 1 /\ ping_replies' = ping_replies
    BY <1>1, <1>3, <1>7 DEF Link!Adapter!TransferRestart, Link!Adapter!RestartPing
  <2>2. ping_replies' \in [0 .. 3 -> [0 .. 3 -> 0 .. 255]]
    BY <1>0, <1>4, <2>1, ZenonT(120)
  <2>3. session_count' = session_count /\ packet_size' = packet_size /\ rate' = rate /\ ping_rate' = ping_rate
    BY <2>1
  <2>4. /\ phase' \in {"Ping", "Restart"} /\ phase' # "Transmission" /\ byte_index' \in Nat
        /\ phase' = "Ping" => byte_index' \in 0 .. 3
    BY <1>2, <2>1
  <2> QED
    BY <1>2, <2>1, <2>2, <2>3, <2>4, ZenonT(120)
<1>8. CASE Link!Adapter!TransferPing(out)
  <2>1. byte_index \in 0 .. 3 /\ phase = "Ping"
    BY <1>2, <1>8, ZenonT(120) DEF Link!Adapter!TransferPing
  <2>2. \A s \in Sessions : out[s] \in 0 .. 255
    <3>1. \A s \in Sessions : out[s] \in Link!Adapter!Offered(s)
      BY <1>1 DEF Link!Adapter!Outgoing
    <3>2. \A r \in Replies : r[byte_index] \in 0 .. 255
      BY <2>1, LinkAssumption DEF Link!LinkParameters
    <3> QED
      BY <3>1, <3>2, <2>1 DEF Link!Adapter!Offered
  <2> DEFINE r == [p \in 0 .. 3 |-> IF p \in Sessions
                                    THEN [ping_replies[p] EXCEPT ![byte_index] = out[p]]
                                    ELSE ping_replies[p]]
  <2>3. r \in [0 .. 3 -> [0 .. 3 -> 0 .. 255]]
    <3>1. ASSUME NEW p \in 0 .. 3
          PROVE  (IF p \in Sessions THEN [ping_replies[p] EXCEPT ![byte_index] = out[p]]
                                    ELSE ping_replies[p]) \in [0 .. 3 -> 0 .. 255]
      <4>1. ping_replies[p] \in [0 .. 3 -> 0 .. 255]
        BY <1>0
      <4>2. CASE p \in Sessions
        BY <2>1, <2>2, <4>1, <4>2
      <4>3. CASE p \notin Sessions
        BY <4>1, <4>3
      <4> QED
        BY <4>2, <4>3, ZenonT(120)
    <3> QED
      BY <3>1, ZenonT(120)
  <2>4. r = [p \in Link!Adapter!Ports |-> IF p \in Link!Adapter!Slots
                                  THEN [ping_replies[p] EXCEPT ![byte_index] = out[p]]
                                  ELSE ping_replies[p]]
    BY <1>1
  <2> HIDE DEF r
  <2>5. r[0][2] \in 0 .. 255 /\ r[0][3] \in 0 .. 255
    <3>1. r[0] \in [0 .. 3 -> 0 .. 255]
      BY <2>3
    <3> QED
      BY <3>1
  <2>6. /\ session_count' = session_count /\ DOMAIN incoming' = Sessions
        /\ \/ /\ byte_index < 3 /\ byte_index' = byte_index + 1 /\ ping_replies' = r
              /\ UNCHANGED <<phase, rate, ping_rate, packet_size>>
           \/ /\ byte_index' = 0 /\ phase' \in {"Confirm", "Ping"}
              /\ ping_replies' = none
              /\ rate' \in {rate, r[0][2]} /\ ping_rate' \in {ping_rate, r[0][2]}
              /\ packet_size' \in {packet_size, Link!Adapter!Clamp(r[0][3])}
    BY <1>1, <1>3, <1>8, <2>4 DEF Link!Adapter!TransferPing
  <2>7. Link!Adapter!Clamp(r[0][3]) \in 1 .. 4
    <3>1. PICK n \in 0 .. 255 : n = r[0][3]
      BY <2>5
    <3>2. Link!Adapter!Clamp(n) \in 1 .. 4
      BY DEF Link!Adapter!Clamp
    <3> QED
      BY <3>1, <3>2
  <2>8. CASE byte_index < 3 /\ byte_index' = byte_index + 1 /\ ping_replies' = r
             /\ UNCHANGED <<phase, rate, ping_rate, packet_size>>
    <3>1. ping_replies' \in [0 .. 3 -> [0 .. 3 -> 0 .. 255]]
      BY <2>3, <2>8, ZenonT(120)
    <3>2. phase' = "Ping" /\ packet_size' = packet_size /\ rate' = rate /\ ping_rate' = ping_rate
      BY <2>1, <2>8
    <3>3. byte_index' \in Nat /\ byte_index' \in 0 .. 3 /\ phase' # "Transmission"
      BY <2>1, <2>8, <3>2
    <3> QED
      BY <1>2, <2>6, <3>1, <3>2, <3>3, ZenonT(120)
  <2>9. CASE /\ byte_index' = 0 /\ phase' \in {"Confirm", "Ping"}
             /\ ping_replies' = none
             /\ rate' \in {rate, r[0][2]} /\ ping_rate' \in {ping_rate, r[0][2]}
             /\ packet_size' \in {packet_size, Link!Adapter!Clamp(r[0][3])}
    <3>1. PICK x, y \in 0 .. 255 : x = r[0][2] /\ y = r[0][3]
      BY <2>5, ZenonT(120)
    <3>2. rate' = rate \/ rate' = x
      BY <2>9, <3>1
    <3>3. ping_rate' = ping_rate \/ ping_rate' = x
      BY <2>9, <3>1
    <3>4. packet_size' = packet_size \/ packet_size' = Link!Adapter!Clamp(r[0][3])
      BY <2>9
    <3>5. rate' \in Nat /\ ping_rate' \in Nat /\ packet_size' \in 1 .. 4
      BY <1>2, <2>7, <3>2, <3>3, <3>4, SMTT(90)
    <3>6. ping_replies' \in [0 .. 3 -> [0 .. 3 -> 0 .. 255]]
      BY <1>4, <2>9, ZenonT(120)
    <3>7. 0 \in Nat /\ 0 \in 0 .. 3 /\ phase' # "Transmission"
      BY <2>9
    <3> QED
      BY <2>6, <2>9, <3>5, <3>6, <3>7, Zenon
  <2> QED
    BY <2>6, <2>8, <2>9, ZenonT(120)
<1> QED
  BY <1>5, <1>6, <1>7, <1>8, ZenonT(120) DEF Link!Adapter!Transfer

(* The delay a transfer asks for is one of the protocol's. *)
LEMMA DelayIsOne ==
  ASSUME LinkShape, session_count = SessionCount, NEW out \in Link!Adapter!Outgoing,
         Link!Adapter!Transfer(out)
  PROVE  /\ Link!DelayAfter(phase, byte_index) \in Nat
         /\ Link!DelayAfter(phase, byte_index) =< Link!LongestDelay'
<1>1. /\ phase \in {"Ping", "Confirm", "Transmission", "Restart"}
      /\ packet_size' \in 1 .. 4 /\ rate' \in Nat /\ ping_rate' \in Nat
      /\ byte_index \in Nat /\ (phase = "Ping" => byte_index \in 0 .. 3)
  BY TransferShape, ZenonT(120) DEF LinkShape
<1>2. PICK r \in Nat : r = rate'
  BY <1>1
<1>3. PICK p \in Nat : p = ping_rate'
  BY <1>1
<1>4. PICK n \in 1 .. 4 : n = packet_size'
  BY <1>1
<1>5. PICK all : all = Link!DelaysAt(r) \cup Link!DelaysAt(p) \cup Link!DelaysAt(255)
  OBVIOUS
<1>6. Link!LongestDelay' = Link!LongestOf(all)
  <2>1. Link!LongestDelay'
          = Link!LongestOf(Link!DelaysAt(rate') \cup Link!DelaysAt(ping_rate') \cup Link!DelaysAt(255))
    BY DEF Link!LongestDelay, Link!LongestOf, Link!DelaysAt, Link!PacketTail, Link!ByteInterval,
       Link!CyclesForMicros, Link!MinimumPeriod, Link!SerializedPeriod, Link!Greater
  <2> QED
    BY <2>1, <1>2, <1>3, <1>5
<1>7. \A e \in all : e \in Nat /\ e =< Link!LongestOf(all)
  BY <1>5, LongestBounds
<1>8. /\ Link!CyclesForMicros(PingByteUs) \in all /\ Link!ByteInterval(r) \in all
      /\ Link!CyclesForMicros(PingPacketUs + (p % 16) * TxRateUs) \in all
      /\ Link!PacketTail(r, 4 * n) \in all
  BY <1>5 DEF Link!DelaysAt
<1>9. /\ Link!CyclesForMicros(PingPacketUs) \in Nat
      /\ Link!CyclesForMicros(PingPacketUs) =< Link!CyclesForMicros(PingPacketUs + (p % 16) * TxRateUs)
  <2>1. PICK d \in Nat : d = (p % 16) * TxRateUs
    BY LinkConstants
  <2>2. PICK e \in Nat : e = PingPacketUs + d /\ PingPacketUs =< e
    BY LinkConstants
  <2> QED
    BY <2>1, <2>2, MicrosInOrder, LinkConstants
<1>10. PICK d : d = Link!DelayAfter(phase, byte_index)
  OBVIOUS
<1>11. d \in all \cup {Link!CyclesForMicros(PingPacketUs)}
  <2> HIDE DEF LinkShape
  <2>1. \/ d = Link!CyclesForMicros(PingByteUs)
        \/ d = Link!CyclesForMicros(PingPacketUs + (p % 16) * TxRateUs)
        \/ d = Link!ByteInterval(r)
        \/ d = Link!PacketTail(r, 4 * n)
        \/ d = Link!CyclesForMicros(PingPacketUs)
    <3>1. CASE phase = "Ping"
      BY <3>1, <1>1, <1>3, <1>10 DEF Link!DelayAfter
    <3>2. CASE phase = "Confirm"
      BY <3>2, <1>2, <1>10 DEF Link!DelayAfter, Link!ByteInterval, Link!CyclesForMicros
    <3>3. CASE phase = "Transmission"
      BY <3>3, <1>2, <1>4, <1>10 DEF Link!DelayAfter, Link!ByteInterval, Link!CyclesForMicros, Link!PacketTail,
         Link!MinimumPeriod, Link!SerializedPeriod, Link!Greater
    <3>4. CASE phase = "Restart"
      BY <3>4, <1>2, <1>4, <1>10 DEF Link!DelayAfter, Link!ByteInterval, Link!CyclesForMicros
    <3> QED
      BY <1>1, <3>1, <3>2, <3>3, <3>4
  <2> QED
    BY <2>1, <1>8
<1>12. PICK m : m = Link!LongestOf(all)
  OBVIOUS
<1>13. d \in Nat /\ d =< m
  <2>1. m \in Nat
    BY <1>5, <1>12, LongestBounds
  <2>2. \A e \in all : e \in Nat /\ e =< m
    BY <1>7, <1>12
  <2>3. PICK e \in Nat : e = Link!CyclesForMicros(PingPacketUs) /\ e =< m
    BY <2>1, <2>2, <1>8, <1>9
  <2> QED
    BY <2>2, <2>3, <1>11
<1> QED
  BY <1>6, <1>10, <1>12, <1>13

(* A transfer that is due keeps a packet's bytes apart, and ends it no      *)
(* sooner than its period.                                                 *)
LEMMA PacketGoesOn ==
  ASSUME LinkShape, PacketsRun, session_count = SessionCount,
         NEW out \in Link!Adapter!Outgoing, Link!Adapter!Transfer(out),
         NEW cycle \in Int, cycle >= next_transfer,
         next_transfer' = cycle + Link!DelayAfter(phase, byte_index),
         packet_start' = Link!PacketStart(cycle)
  PROVE  PacketsRun'
<1> SUFFICES ASSUME phase' = "Transmission", packet_start' # 0
             PROVE  PacketsRun'
  BY DEF PacketsRun
<1>1. phase = "Transmission" /\ Link!Adapter!TransferPayload(out)
  BY ZenonT(120) DEF LinkShape, Link!PacketStart, Link!Adapter!Transfer, Link!Adapter!TransferPing,
     Link!Adapter!TransferConfirm, Link!Adapter!TransferPayload, Link!Adapter!TransferRestart,
     Link!Adapter!RestartPing
<1>2. UNCHANGED <<rate, ping_rate, packet_size>>
  BY <1>1 DEF Link!Adapter!TransferPayload, Link!Adapter!discovery
<1>3. PICK r \in Nat : r = rate /\ r = rate'
  BY <1>2 DEF LinkShape
<1>4. PICK n \in 1 .. 4 : n = packet_size /\ n = packet_size'
  BY <1>2 DEF LinkShape
<1>5. PICK b \in Nat : b = byte_index /\ b < 4 * n
  BY <1>1, <1>4 DEF LinkShape
<1>6. PICK i \in Nat : i = Link!ByteInterval(r)
  BY DelaysAreNat, <1>4
<1>7. PICK t \in Nat : t = Link!PacketTail(r, 4 * n)
  <2>1. 4 * n \in Nat \ {0}
    OBVIOUS
  <2> QED
    BY <2>1, DelaysAreNat
<1>8. PICK p : p = Link!Greater(Link!MinimumPeriod(r), Link!SerializedPeriod(r, 4 * n))
  OBVIOUS
<1>9. p \in Nat /\ (i * ((4 * n) - 1)) + t >= p
  <2>1. PICK m \in Nat \ {0} : m = 4 * n
    OBVIOUS
  <2>2. Link!MinimumPeriod(r) \in Nat /\ Link!SerializedPeriod(r, m) \in Nat
    BY DelaysAreNat
  <2>3. (Link!ByteInterval(r) * (m - 1)) + Link!PacketTail(r, m)
          >= Link!Greater(Link!MinimumPeriod(r), Link!SerializedPeriod(r, m))
    BY DelaysAreNat
  <2>4. Link!Greater(Link!MinimumPeriod(r), Link!SerializedPeriod(r, m)) \in Nat
    BY <2>2 DEF Link!Greater
  <2> QED
    BY <2>1, <2>3, <2>4, <1>6, <1>7, <1>8
<1>10. PICK at \in Int : at = packet_start' /\ at = (IF b = 0 THEN cycle ELSE packet_start)
  BY <1>1, <1>5 DEF Link!PacketStart, LinkShape
<1>11. PICK x \in Nat : x = i * b
  BY <1>5, <1>6
<1>12. cycle >= at + x
  <2>1. CASE b = 0
    BY <2>1, <1>10, <1>11, <1>6
  <2>2. CASE b # 0
    BY <2>2, <1>1, <1>3, <1>5, <1>6, <1>10, <1>11 DEF PacketsRun, LinkShape
  <2> QED
    BY <2>1, <2>2
<1>13. CASE b + 1 = 4 * n
  <2>1. byte_index' = 0
    BY <1>1, <1>13, <1>4, <1>5 DEF Link!Adapter!TransferPayload, Link!Adapter!PacketLength
  <2>2. next_transfer' = cycle + t
    <3>1. Link!DelayAfter(phase, byte_index) = Link!PacketTail(r, 4 * n)
      BY <1>1, <1>3, <1>4, <1>5, <1>13 DEF Link!DelayAfter, Link!ByteInterval, Link!CyclesForMicros,
         Link!PacketTail, Link!MinimumPeriod, Link!SerializedPeriod, Link!Greater
    <3> QED
      BY <3>1, <1>7
  <2>3. b = (4 * n) - 1
    BY <1>13
  <2>4. cycle + t >= at + p
    <3>1. i * ((4 * n) - 1) = x
      BY <2>3, <1>11
    <3>2. x + t >= p
      BY <3>1, <1>9
    <3>3. x \in Nat /\ t \in Nat /\ p \in Nat /\ at \in Int
      BY <1>9
    <3> QED
      BY <3>2, <3>3, <1>12
  <2> QED
    BY <2>1, <2>2, <2>4, <1>8, <1>10, <1>3, <1>4 DEF PacketsRun, Link!Greater, Link!MinimumPeriod,
       Link!SerializedPeriod, Link!ByteInterval, Link!CyclesForMicros
<1>14. CASE b + 1 # 4 * n
  <2>1. byte_index' = b + 1
    BY <1>1, <1>14, <1>4, <1>5 DEF Link!Adapter!TransferPayload, Link!Adapter!PacketLength
  <2>2. next_transfer' = cycle + i
    <3>1. Link!DelayAfter(phase, byte_index) = Link!ByteInterval(r)
      BY <1>1, <1>3, <1>4, <1>5, <1>14 DEF Link!DelayAfter, Link!ByteInterval, Link!CyclesForMicros
    <3> QED
      BY <3>1, <1>6
  <2>3. PICK y \in Nat : y = i * (b + 1) /\ y = x + i
    BY <1>11
  <2>4. cycle + i >= at + y
    BY <2>3, <1>12
  <2>5. i = Link!ByteInterval(rate')
    BY <1>3, <1>6
  <2> QED
    BY <2>1, <2>2, <2>3, <2>4, <2>5, <1>10 DEF PacketsRun, Link!ByteInterval, Link!CyclesForMicros
<1> QED
  BY <1>13, <1>14

-----------------------------------------------------------------------------
(* The steps of the runner *)

(* What a look at the ports keeps and tells, of machines whose cycles only  *)
(* grew.                                                                   *)
LEMMA LookKeeps ==
  ASSUME LinkInv, session_count = SessionCount, loaded' = FALSE, lrunning' \in BOOLEAN,
         lcycles' \in [Sessions -> Int], \A i \in Sessions : lcycles[i] =< lcycles'[i],
         NEW ports \in [Sessions -> PortUses \cup {"idle"}],
         Link!TryExchange(ports)
  PROVE  /\ LinkInv'
         /\ next_transfer' # next_transfer =>
              /\ Link!AllExternal(ports) /\ DOMAIN incoming' = Sessions
              /\ \A i \in Sessions : armed'[i] = "idle"
         /\ phase = "Transmission" /\ byte_index = 0 /\ packet_start # 0 /\ packet_start' # packet_start =>
              packet_start' - packet_start
                >= Link!Greater(Link!MinimumPeriod(rate), Link!SerializedPeriod(rate, 4 * packet_size))
<1>1. PICK c : c = lcycles' /\ c \in [Sessions -> Int]
  OBVIOUS
<1>2. PICK cycle \in Int : cycle = Link!Least(c) /\ \A i \in Sessions : cycle =< c[i]
  BY <1>1, LeastCycle
<1>3. Link!Least(lcycles') = cycle
  BY <1>1, <1>2
<1>4. Link!Sessions = Sessions /\ Sessions # {}
  <2>1. 0 \in Sessions
    BY SessionCountAssumption DEF Sessions
  <2> QED
    BY <2>1 DEF Link!Sessions, Sessions
<1>6. CASE Link!AllExternal(ports) /\ cycle >= next_transfer
  <2>1. PICK out \in Link!Adapter!Outgoing : Link!Adapter!Transfer(out)
    BY <1>3, <1>6 DEF Link!TryExchange, Link!TransferDue
  <2>2. /\ next_transfer' = cycle + Link!DelayAfter(phase, byte_index)
        /\ armed' = [i \in Sessions |-> "idle"]
        /\ packet_start' = Link!PacketStart(cycle)
        /\ rewound' = [i \in Sessions |-> 0]
    BY <1>3, <1>4, <1>6 DEF Link!TryExchange, Link!TransferDue
  <2>3. LinkShape /\ PacketsRun
    BY DEF LinkInv
  <2>4. PICK d \in Nat : d = Link!DelayAfter(phase, byte_index) /\ d =< Link!LongestDelay'
    BY <2>1, <2>3, DelayIsOne
  <2>5. /\ session_count' = session_count
        /\ phase' \in {"Ping", "Confirm", "Transmission", "Restart"} /\ byte_index' \in Nat
        /\ phase' = "Ping" => byte_index' \in 0 .. 3
        /\ phase' = "Transmission" => byte_index' < 4 * packet_size'
        /\ packet_size' \in 1 .. 4 /\ rate' \in Nat /\ ping_rate' \in Nat
        /\ ping_replies' \in [0 .. 3 -> [0 .. 3 -> 0 .. 255]]
        /\ DOMAIN incoming' = Sessions
    BY <2>1, <2>3, TransferShape, ZenonT(120)
  <2>6. next_transfer' \in Int /\ packet_start' \in Int
    BY <2>2, <2>3, <2>4 DEF LinkShape, Link!PacketStart
  <2>7. LinkShape'
    BY <2>2, <2>3, <2>5, <2>6, ZenonT(120) DEF LinkShape
  <2>8. PacketsRun'
    BY <1>6, <2>1, <2>2, <2>3, PacketGoesOn
  <2>9. \A i \in Sessions : armed'[i] = "idle"
    BY <2>2
  <2>10. Link!NothingOverdue'
    BY <1>4, <2>9 DEF Link!NothingOverdue, Link!AllExternal
  <2>11. Link!WaitBounded'
    <3>1. PICK m : m = Link!LongestDelay'
      OBVIOUS
    <3>2. m \in Nat
      <4>1. PICK r \in Nat, p \in Nat : r = rate' /\ p = ping_rate'
        BY <2>5
      <4>2. Link!LongestDelay'
              = Link!LongestOf(Link!DelaysAt(rate') \cup Link!DelaysAt(ping_rate') \cup Link!DelaysAt(255))
        BY DEF Link!LongestDelay, Link!LongestOf, Link!DelaysAt, Link!PacketTail, Link!ByteInterval,
           Link!CyclesForMicros, Link!MinimumPeriod, Link!SerializedPeriod, Link!Greater
      <4> QED
        BY <4>1, <4>2, <3>1, LongestBounds
    <3>3. \A i \in Sessions : cycle + d =< c[i] + m
      BY <1>1, <1>2, <2>4, <3>1, <3>2
    <3>4. \A i \in Sessions : next_transfer' =< lcycles'[i] + Link!LongestDelay' + rewound'[i]
      <4>1. SUFFICES ASSUME NEW i \in Sessions
                     PROVE  next_transfer' =< lcycles'[i] + Link!LongestDelay' + rewound'[i]
        OBVIOUS
      <4>2. rewound'[i] = 0 /\ lcycles'[i] = c[i] /\ c[i] \in Int
        BY <1>1, <2>2
      <4> QED
        BY <2>2, <2>4, <3>1, <3>2, <3>3, <4>2
    <3> QED
      BY <1>4, <3>4 DEF Link!WaitBounded
  <2>12. phase = "Transmission" /\ byte_index = 0 /\ packet_start # 0 =>
           packet_start' - packet_start
             >= Link!Greater(Link!MinimumPeriod(rate), Link!SerializedPeriod(rate, 4 * packet_size))
    <3> SUFFICES ASSUME phase = "Transmission", byte_index = 0, packet_start # 0
                 PROVE  packet_start' - packet_start
                   >= Link!Greater(Link!MinimumPeriod(rate), Link!SerializedPeriod(rate, 4 * packet_size))
      OBVIOUS
    <3>1. PICK p : p = Link!Greater(Link!MinimumPeriod(rate), Link!SerializedPeriod(rate, 4 * packet_size))
      OBVIOUS
    <3>2. p \in Nat
      <4>1. PICK n \in Nat \ {0} : n = 4 * packet_size
        BY <2>3 DEF LinkShape
      <4>2. PICK r \in Nat : r = rate
        BY <2>3 DEF LinkShape
      <4>3. Link!MinimumPeriod(r) \in Nat /\ Link!SerializedPeriod(r, n) \in Nat
        BY DelaysAreNat
      <4> QED
        BY <3>1, <4>1, <4>2, <4>3 DEF Link!Greater
    <3>3. next_transfer >= packet_start + p
      BY <2>3, <3>1 DEF PacketsRun
    <3>4. packet_start' = cycle
      BY <2>2 DEF Link!PacketStart
    <3> QED
      BY <1>6, <2>3, <3>1, <3>2, <3>3, <3>4 DEF LinkShape
  <2> QED
    BY <1>6, <2>5, <2>7, <2>8, <2>9, <2>10, <2>11, <2>12 DEF LinkInv
<1>7. CASE ~ (Link!AllExternal(ports) /\ cycle >= next_transfer)
  <2>1. /\ armed' = ports /\ next_transfer' = next_transfer /\ packet_start' = packet_start
        /\ rewound' = rewound
        /\ UNCHANGED <<session_count, phase, byte_index, ping_replies, rate, ping_rate, packet_size>>
    BY <1>3, <1>7 DEF Link!TryExchange, Link!TransferDue, Link!adapterState
  <2>2. LinkShape'
    BY <2>1, ZenonT(120) DEF LinkInv, LinkShape
  <2>3. PacketsRun'
    BY <2>1 DEF LinkInv, PacketsRun, Link!Greater, Link!MinimumPeriod, Link!SerializedPeriod,
       Link!ByteInterval, Link!CyclesForMicros
  <2>4. Link!NothingOverdue'
    <3>1. Link!Least(lcycles)' = cycle
      BY <1>3 DEF Link!Least
    <3>2. ~ (Link!AllExternal(armed)' /\ Link!Least(lcycles)' >= next_transfer')
      BY <1>7, <2>1, <3>1 DEF Link!AllExternal
    <3> QED
      BY <3>2 DEF Link!NothingOverdue, Link!TransferDue, Link!AllExternal, Link!Least
  <2>5. Link!WaitBounded'
    <3>1. Link!LongestDelay' = Link!LongestDelay
      BY <2>1 DEF Link!LongestDelay, Link!LongestOf, Link!DelaysAt, Link!PacketTail, Link!ByteInterval,
           Link!CyclesForMicros, Link!MinimumPeriod, Link!SerializedPeriod, Link!Greater
    <3>2. Link!LongestDelay \in Nat
      BY LongestBounds DEF Link!LongestDelay, LinkInv, LinkShape
    <3>3. PICK m \in Nat : m = Link!LongestDelay
      BY <3>2
    <3>4. \A i \in Sessions : next_transfer =< lcycles[i] + m + rewound[i]
      BY <1>4, <3>3 DEF LinkInv, Link!WaitBounded
    <3>5. \A i \in Sessions : next_transfer =< c[i] + m + rewound[i]
      <4>1. \A i \in Sessions : lcycles[i] \in Int /\ c[i] \in Int /\ lcycles[i] =< c[i]
                                 /\ rewound[i] \in Nat
        BY <1>1 DEF LinkInv, LinkShape
      <4>2. next_transfer \in Int
        BY DEF LinkInv, LinkShape
      <4> QED
        BY <3>4, <4>1, <4>2
    <3> QED
      BY <1>1, <1>4, <2>1, <3>1, <3>3, <3>5 DEF Link!WaitBounded
  <2> QED
    BY <2>1, <2>2, <2>3, <2>4, <2>5 DEF LinkInv
<1> QED
  BY <1>6, <1>7

(* Nothing that only passes control moves the adapter. *)
LEMMA LinkStays ==
  ASSUME LinkInv, UNCHANGED <<phase, byte_index, ping_replies, rate, ping_rate, packet_size>>,
         UNCHANGED <<lcycles, armed, next_transfer, packet_start, rewound, loaded>>,
         session_count' \in {0, SessionCount}, lrunning' => session_count' = SessionCount
  PROVE  LinkInv'
<1>1. LinkShape'
  BY ZenonT(120) DEF LinkInv, LinkShape
<1>2. PacketsRun'
  BY DEF LinkInv, PacketsRun, Link!Greater, Link!MinimumPeriod, Link!SerializedPeriod,
     Link!ByteInterval, Link!CyclesForMicros
<1>3. Link!NothingOverdue'
  BY DEF LinkInv, Link!NothingOverdue, Link!TransferDue, Link!AllExternal, Link!Least
<1>4. Link!WaitBounded'
  <2>1. Link!LongestDelay' = Link!LongestDelay
    BY DEF Link!LongestDelay, Link!LongestOf, Link!DelaysAt, Link!PacketTail, Link!ByteInterval,
         Link!CyclesForMicros, Link!MinimumPeriod, Link!SerializedPeriod, Link!Greater
  <2> QED
    BY <2>1 DEF LinkInv, Link!WaitBounded
<1> QED
  BY <1>1, <1>2, <1>3, <1>4 DEF LinkInv

LEMMA LinkInit == Link!LInit => LinkInv
<1> SUFFICES ASSUME Link!LInit PROVE LinkInv
  OBVIOUS
<1> USE DEF Link!LInit
<1>1. Link!Sessions = Sessions /\ Sessions # {}
  BY LinkConstants DEF Link!Sessions, Sessions
<1>2. lcycles \in [Sessions -> Nat]
  BY <1>1, LinkAssumption, ZenonT(120) DEF Link!Init, Link!LinkParameters
<1>3. LinkShape
  <2>1. [p \in 0 .. 3 |-> [k \in 0 .. 4 - 1 |-> 0]] \in [0 .. 3 -> [0 .. 3 -> 0 .. 255]]
    OBVIOUS
  <2>2. ping_replies = [p \in 0 .. 3 |-> [k \in 0 .. 4 - 1 |-> 0]]
    BY DEF Link!Adapter!Init, Link!Adapter!NoReplies, Link!Adapter!Ports, Link!Adapter!Zeros
  <2> QED
    BY <1>1, <1>2, <2>1, <2>2 DEF LinkShape, Link!Adapter!Init, Link!Init
<1>4. PacketsRun
  BY DEF PacketsRun, Link!Adapter!Init
<1>5. Link!NothingOverdue
  BY <1>1 DEF Link!NothingOverdue, Link!AllExternal
<1>6. Link!WaitBounded
  <2>1. Link!LongestDelay \in Nat
    BY <1>3, LongestBounds DEF Link!LongestDelay, LinkShape
  <2>2. next_transfer = 0 /\ \A i \in Sessions : rewound[i] = 0 /\ lcycles[i] \in Nat
    BY <1>1, <1>2
  <2> QED
    BY <1>1, <2>1, <2>2 DEF Link!WaitBounded
<1> QED
  BY <1>3, <1>4, <1>5, <1>6 DEF LinkInv

(* What a step of the driven adapter keeps, and what it may do. *)
PeriodKept ==
  phase = "Transmission" /\ packet_start' # packet_start /\ packet_start # 0
    /\ byte_index = 0 /\ phase' = "Transmission" =>
    packet_start' - packet_start
      >= Link!Greater(Link!MinimumPeriod(rate), Link!SerializedPeriod(rate, 4 * packet_size))

ServesAll ==
  next_transfer' # next_transfer =>
    /\ \A i \in Sessions : lcycles'[i] = lcycles[i] => armed[i] = "external"
    /\ \A i \in Sessions : armed'[i] = "idle"
    /\ DOMAIN incoming' = Sessions

LEMMA LStepKeeps ==
  ASSUME LinkInv, NEW i \in Sessions, NEW c \in LinkCosts, Link!LStep(i, c)
  PROVE  LinkInv' /\ PeriodKept /\ ServesAll
<1>1. lrunning /\ lcycles' = [lcycles EXCEPT ![i] = @ + c.cpu] /\ loaded' = FALSE
      /\ lrunning' \in BOOLEAN
  BY DEF Link!LStep, Link!Step, Link!StepAndStop, Link!StepSession
<1>2. c.cpu \in Nat \ {0} /\ lcycles \in [Sessions -> Int] /\ session_count = SessionCount
      /\ armed \in [Sessions -> PortUses \cup {"idle"}]
  BY <1>1, LinkConstants DEF LinkInv, LinkShape
<1>3. lcycles' \in [Sessions -> Int] /\ \A j \in Sessions : lcycles[j] =< lcycles'[j]
  BY <1>1, <1>2
<1>4. PICK a \in PortUses \cup {armed[i]} : Link!TryExchange([armed EXCEPT ![i] = a])
  BY DEF Link!LStep
<1>5. PICK ports : ports = [armed EXCEPT ![i] = a]
  OBVIOUS
<1>6. ports \in [Sessions -> PortUses \cup {"idle"}] /\ \A j \in Sessions : j # i => ports[j] = armed[j]
  BY <1>2, <1>4, <1>5
<1>7. Link!TryExchange(ports)
  BY <1>4, <1>5
<1>8. /\ LinkInv'
      /\ next_transfer' # next_transfer =>
           /\ Link!AllExternal(ports) /\ DOMAIN incoming' = Sessions
           /\ \A j \in Sessions : armed'[j] = "idle"
      /\ PeriodKept
  BY <1>1, <1>2, <1>3, <1>6, <1>7, LookKeeps DEF PeriodKept
<1>9. lcycles'[i] # lcycles[i]
  BY <1>1, <1>2
<1>10. Link!Sessions = Sessions
  BY DEF Link!Sessions, Sessions
<1> QED
  BY <1>6, <1>8, <1>9, <1>10 DEF ServesAll, Link!AllExternal

LEMMA LBreakKeeps ==
  ASSUME LinkInv, NEW i \in Sessions, Link!LBreak(i)
  PROVE  LinkInv' /\ PeriodKept /\ ServesAll
<1>1. lrunning /\ lcycles' = lcycles /\ loaded' = FALSE /\ lrunning' \in BOOLEAN
      /\ Link!TryExchange(armed)
  BY DEF Link!LBreak, Link!BreakBeforeStep
<1>2. lcycles \in [Sessions -> Int] /\ session_count = SessionCount
      /\ armed \in [Sessions -> PortUses \cup {"idle"}]
  BY <1>1 DEF LinkInv, LinkShape
<1>3. lcycles' \in [Sessions -> Int] /\ \A j \in Sessions : lcycles[j] =< lcycles'[j]
  <2>1. \A j \in Sessions : lcycles[j] \in Int
    BY <1>2
  <2> QED
    BY <1>1, <1>2, <2>1
<1>4. /\ LinkInv'
      /\ next_transfer' # next_transfer =>
           /\ Link!AllExternal(armed) /\ DOMAIN incoming' = Sessions
           /\ \A j \in Sessions : armed'[j] = "idle"
      /\ PeriodKept
  BY <1>1, <1>2, <1>3, LookKeeps DEF PeriodKept
<1>5. Link!Sessions = Sessions
  BY DEF Link!Sessions, Sessions
<1> QED
  BY <1>4, <1>5 DEF ServesAll, Link!AllExternal

(* A loaded state is of an earlier cycle; the deadline is not. *)
LEMMA LoadStateKeeps ==
  ASSUME LinkInv, NEW i \in Sessions, NEW n \in 1 .. LinkMaxFrames, NEW l \in Nat,
         Link!LoadState(i, n, l)
  PROVE  LinkInv' /\ UNCHANGED <<packet_start, next_transfer>>
<1>1. /\ lcycles' = [lcycles EXCEPT ![i] = @ - n * LinkFrameCycles - l]
      /\ rewound' = [rewound EXCEPT ![i] = @ + n * LinkFrameCycles + l]
      /\ loaded' = TRUE /\ lrunning' = lrunning
      /\ UNCHANGED <<session_count, phase, byte_index, ping_replies, rate, ping_rate, packet_size>>
      /\ UNCHANGED <<packet_start, next_transfer>>
  BY DEF Link!LoadState, Link!adapterState
<1>2. PICK a \in PortUses : armed' = [armed EXCEPT ![i] = a]
  BY DEF Link!LoadState
<1>3. PICK k \in Nat : k = n * LinkFrameCycles + l
  <2>1. LinkFrameCycles \in Nat /\ n \in Nat
    BY LinkAssumption DEF Link!LinkParameters
  <2>2. PICK f \in Nat : f = n * LinkFrameCycles
    BY <2>1
  <2> QED
    BY <2>2
<1>4. /\ lcycles \in [Sessions -> Int] /\ rewound \in [Sessions -> Nat]
      /\ armed \in [Sessions -> PortUses \cup {"idle"}]
  BY DEF LinkInv, LinkShape
<1>5. \A j \in Sessions : /\ lcycles'[j] \in Int /\ rewound'[j] \in Nat
                          /\ lcycles'[j] + rewound'[j] = lcycles[j] + rewound[j]
  <2> SUFFICES ASSUME NEW j \in Sessions
               PROVE  /\ lcycles'[j] \in Int /\ rewound'[j] \in Nat
                      /\ lcycles'[j] + rewound'[j] = lcycles[j] + rewound[j]
    OBVIOUS
  <2>1. lcycles[j] \in Int /\ rewound[j] \in Nat
    BY <1>4
  <2>2. PICK f \in Int : f = n * LinkFrameCycles /\ f + l = k
    BY <1>3, LinkAssumption DEF Link!LinkParameters
  <2>3. CASE j = i
    <3>1. lcycles'[j] = lcycles[j] - f - l /\ rewound'[j] = rewound[j] + f + l
      BY <1>1, <1>4, <2>2, <2>3
    <3> QED
      BY <1>3, <2>1, <2>2, <3>1
  <2>4. CASE j # i
    <3>1. lcycles'[j] = lcycles[j] /\ rewound'[j] = rewound[j]
      BY <1>1, <1>4, <2>4
    <3> QED
      BY <2>1, <3>1
  <2> QED
    BY <2>3, <2>4
<1>6. lcycles' \in [Sessions -> Int] /\ rewound' \in [Sessions -> Nat]
  <2>1. lcycles' = [j \in Sessions |-> lcycles'[j]] /\ rewound' = [j \in Sessions |-> rewound'[j]]
    BY <1>1, <1>4
  <2> QED
    BY <1>5, <2>1
<1>7. LinkShape'
  <2>1. armed' \in [Sessions -> PortUses \cup {"idle"}]
    BY <1>2, <1>4
  <2>2. /\ lrunning' = lrunning /\ session_count' = session_count /\ phase' = phase
        /\ byte_index' = byte_index /\ packet_size' = packet_size /\ rate' = rate
        /\ ping_rate' = ping_rate /\ ping_replies' = ping_replies
        /\ next_transfer' = next_transfer /\ packet_start' = packet_start
    BY <1>1
  <2>3. LinkShape
    BY DEF LinkInv
  <2> QED
    BY <1>6, <2>1, <2>2, <2>3, ZenonT(120) DEF LinkShape
<1>8. PacketsRun'
  BY <1>1 DEF LinkInv, PacketsRun, Link!Greater, Link!MinimumPeriod, Link!SerializedPeriod,
     Link!ByteInterval, Link!CyclesForMicros
<1>9. Link!NothingOverdue'
  BY <1>1 DEF Link!NothingOverdue
<1>10. Link!WaitBounded'
  <2>1. Link!LongestDelay' = Link!LongestDelay
    BY <1>1 DEF Link!LongestDelay, Link!LongestOf, Link!DelaysAt, Link!PacketTail, Link!ByteInterval,
         Link!CyclesForMicros, Link!MinimumPeriod, Link!SerializedPeriod, Link!Greater
  <2>2. Link!LongestDelay \in Nat
    BY LongestBounds DEF Link!LongestDelay, LinkInv, LinkShape
  <2>3. PICK m \in Nat : m = Link!LongestDelay
    BY <2>2
  <2>4. Link!Sessions = Sessions
    BY DEF Link!Sessions, Sessions
  <2>5. \A j \in Sessions : next_transfer =< lcycles[j] + m + rewound[j]
    BY <2>3, <2>4 DEF LinkInv, Link!WaitBounded
  <2>6. next_transfer \in Int /\ next_transfer' = next_transfer
    BY <1>1 DEF LinkInv, LinkShape
  <2>7. \A j \in Sessions : next_transfer' =< lcycles'[j] + m + rewound'[j]
    <3> SUFFICES ASSUME NEW j \in Sessions
                 PROVE  next_transfer' =< lcycles'[j] + m + rewound'[j]
      OBVIOUS
    <3>1. lcycles[j] \in Int /\ rewound[j] \in Nat
      BY <1>4
    <3> QED
      BY <1>5, <2>5, <2>6, <3>1
  <2> QED
    BY <2>1, <2>3, <2>4, <2>7 DEF Link!WaitBounded
<1> QED
  BY <1>1, <1>7, <1>8, <1>9, <1>10 DEF LinkInv

LEMMA LinkStep == LinkInv /\ [Link!LNext]_(Link!linkVars) => LinkInv' /\ PeriodKept /\ ServesAll
<1> SUFFICES ASSUME LinkInv, [Link!LNext]_(Link!linkVars) PROVE LinkInv' /\ PeriodKept /\ ServesAll
  OBVIOUS
<1>1. Link!Sessions = Sessions
  BY DEF Link!Sessions, Sessions
<1>2. ASSUME UNCHANGED <<next_transfer, packet_start>> PROVE PeriodKept /\ ServesAll
  BY <1>2 DEF PeriodKept, ServesAll
<1>3. ASSUME NEW n \in LinkRequests, Link!LBeginCall(n) PROVE LinkInv' /\ PeriodKept /\ ServesAll
  <2>1. /\ UNCHANGED <<phase, byte_index, ping_replies, rate, ping_rate, packet_size>>
        /\ UNCHANGED <<lcycles, armed, next_transfer, packet_start, rewound, loaded>>
        /\ session_count' = SessionCount
    BY <1>3 DEF Link!LBeginCall, Link!BeginCall, Link!Adapter!Bind, Link!Adapter!discovery,
       Link!history
  <2> QED
    BY <1>2, <2>1, LinkStays
<1>4. ASSUME Link!LIdle PROVE LinkInv' /\ PeriodKept /\ ServesAll
  <2>1. /\ UNCHANGED <<session_count, phase, byte_index, ping_replies, rate, ping_rate, packet_size>>
        /\ UNCHANGED <<lcycles, armed, next_transfer, packet_start, rewound, loaded>>
        /\ lrunning' => lrunning
    BY <1>4 DEF Link!LIdle, Link!EndCall, Link!Resume, Link!adapterState, Link!history
  <2>2. session_count \in {0, SessionCount} /\ (lrunning => session_count = SessionCount)
    BY DEF LinkInv, LinkShape
  <2> QED
    BY <1>2, <2>1, <2>2, LinkStays
<1>5. ASSUME UNCHANGED Link!linkVars PROVE LinkInv' /\ PeriodKept /\ ServesAll
  <2>1. /\ UNCHANGED <<session_count, phase, byte_index, ping_replies, rate, ping_rate, packet_size>>
        /\ UNCHANGED <<lcycles, armed, next_transfer, packet_start, rewound, loaded, lrunning>>
    BY <1>5 DEF Link!linkVars, Link!vars, Link!adapterState, Link!history
  <2>2. session_count \in {0, SessionCount} /\ (lrunning => session_count = SessionCount)
    BY DEF LinkInv, LinkShape
  <2> QED
    BY <1>2, <2>1, <2>2, LinkStays
<1>6. ASSUME NEW i \in Sessions, NEW n \in 1 .. LinkMaxFrames, NEW l \in 0 .. Link!Lost(i),
             Link!LoadState(i, n, l)
      PROVE  LinkInv' /\ PeriodKept /\ ServesAll
  <2>1. l \in Nat
    OBVIOUS
  <2> QED
    BY <1>2, <1>6, <2>1, LoadStateKeeps
<1> QED
  BY <1>1, <1>3, <1>4, <1>5, <1>6, LStepKeeps, LBreakKeeps DEF Link!LNext

(* The deadline between the adapter and its machines, for every clock and   *)
(* delay: never further away than the longest delay of the protocol, never   *)
(* let pass by a check, a byte to every port or to none, and the packets of  *)
(* a game no closer together than its period.                               *)
THEOREM DeadlinesAreKept == MCSpec => DeadlinesHold
<1>1. MCInit => Link!LInit
  BY DEF MCInit
<1>2. [MCNext]_<<part, vars, driven>> => [Link!LNext]_(Link!linkVars)
  BY DEF MCNext, AdapterStep, ScheduleStep, driven, Link!linkVars, Link!vars, Link!adapterState,
     Link!history
<1>3. MCSpec => []LinkInv
  BY <1>1, <1>2, LinkInit, LinkStep, PTL DEF MCSpec
<1>4. LinkInv => Link!WaitBounded /\ Link!NothingOverdue
  BY DEF LinkInv
<1>5. LinkInv /\ [Link!LNext]_(Link!linkVars) => [PeriodKept]_(Link!linkVars) /\ [ServesAll]_(Link!linkVars)
  BY LinkStep
<1>6. PeriodKept => (phase = "Transmission" /\ packet_start' # packet_start /\ packet_start # 0
       /\ byte_index = 0 /\ phase' = "Transmission" =>
       packet_start' - packet_start >=
         Link!Greater(Link!MinimumPeriod(rate), Link!SerializedPeriod(rate, 4 * packet_size)))
  BY DEF PeriodKept
<1>7. ServesAll => (next_transfer' # next_transfer =>
       /\ \A i \in Link!Sessions : lcycles'[i] = lcycles[i] => armed[i] = "external"
       /\ \A i \in Link!Sessions : armed'[i] = "idle"
       /\ DOMAIN incoming' = Link!Sessions)
  BY DEF ServesAll, Link!Sessions, Sessions
<1>8. MCSpec => Link!PacketPeriodKept
  BY <1>2, <1>3, <1>5, <1>6, PTL DEF MCSpec, Link!PacketPeriodKept
<1>9. MCSpec => Link!AllOrNone
  BY <1>2, <1>3, <1>5, <1>7, PTL DEF MCSpec, Link!AllOrNone
<1> QED
  BY <1>3, <1>4, <1>8, <1>9, PTL DEF DeadlinesHold
=============================================================================
