--------------------------- MODULE MachineProofs ---------------------------
(***************************************************************************)
(* What holds of the CPU's interrupt handling for every set of requesting  *)
(* devices, of the display for every size of the picture, and of the bus   *)
(* for every program and every number of banks.                            *)
(*                                                                         *)
(* CPU: TypeOK, ImeIffGranted and EiHaltServes are inductive together:     *)
(* whether HALT sleeps is decided before time passes and EI takes effect   *)
(* after, so the last needs that requests survive the step.  BugWaits,     *)
(* over them, says how long a suppressed fetch can be put off.             *)
(*                                                                         *)
(* Display: LcdInv relates the shared interrupt latch to the signal, and   *)
(* the lines drawn to the position; a chunk of time ends with its mode at  *)
(* the latest, so none takes a line past the end of mode 3 unseen.  Within *)
(* a chunk nothing changes but the dots (QuietChunk), so a chunk is that   *)
(* many dots, and by induction over the turns time may be cut anywhere.    *)
(*                                                                         *)
(* Bus: BusInv says that each place of memory holds what was last stored   *)
(* in its cell, and that the flat image shows the banks selected; a store, *)
(* a switch, a transfer or a load changes one cell or none of them.        *)
(***************************************************************************)
EXTENDS MC_Machine, Iteration, Sequences, TLAPS

CInv == TypeOK /\ ImeIffGranted /\ EiHaltServes

(* Bits can be compared, and none of them is None. *)
LEMMA SourcesAreNumbers == Sources \subseteq 0 .. 4 /\ None \notin Sources /\ JOYPAD \in Sources
<1>1. Devices \subseteq 0 .. 4 /\ None \notin Sources
  BY DevicesAssumption
<1>2. JOYPAD \in 0 .. 4
  BY DEF JOYPAD
<1> QED
  BY <1>1, <1>2 DEF Sources

(* The invariant holds of a new machine. *)
LEMMA InitCInv == Init => CInv
<1> SUFFICES ASSUME Init PROVE CInv
  OBVIOUS
<1>1. iflag \subseteq Sources /\ ime_enable_delay \in 0 .. 1
  BY DEF Init, Sources
<1>2. TypeOK
  BY <1>1, Zenon DEF Init, TypeOK
<1>3. ImeIffGranted /\ EiHaltServes
  BY DEF Init, ImeIffGranted, EiHaltServes
<1> QED
  BY <1>2, <1>3 DEF CInv

(* What the end of a step leaves of the flags it is given, *)
LEMMA FlagsKept ==
  ASSUME NEW flags \in SUBSET Sources, NEW enabled, NEW delay,
         FinishStep(flags, enabled, delay)
  PROVE  iflag' \subseteq Sources /\ flags \subseteq iflag'
<1> QED
  BY DEF FinishStep, Sources

(* and of the rest. *)
LEMMA Finished ==
  ASSUME NEW flags \in SUBSET Sources, NEW enabled, NEW delay \in 0 .. 2,
         FinishStep(flags, enabled, delay)
  PROVE  /\ iflag' \subseteq Sources /\ flags \subseteq iflag'
         /\ ime_enable_delay' \in 0 .. 1
         /\ delay = 1 => ime' = TRUE
         /\ delay # 1 => ime' = enabled
         /\ delay =< 1 => ime_enable_delay' = 0
         /\ delay = 2 => ime_enable_delay' = 1
<1>1. iflag' \subseteq Sources /\ flags \subseteq iflag'
  BY DEF FinishStep, Sources
<1>2. (delay = 1 => ime' = TRUE) /\ (delay # 1 => ime' = enabled)
  BY DEF FinishStep
<1>3. /\ ime_enable_delay' \in 0 .. 1
      /\ delay =< 1 => ime_enable_delay' = 0
      /\ delay = 2 => ime_enable_delay' = 1
  BY DEF FinishStep
<1> QED
  BY <1>1, <1>2, <1>3

(* A store leaves the registers in their types. *)
LEMMA Stored ==
  ASSUME TypeOK, NEW w \in Writes, NEW flags \in SUBSET Sources, Store(w)
  PROVE  /\ ie' \subseteq Sources /\ selected' \subseteq Groups
         /\ RequestedBy(w, flags) \in SUBSET Sources
         /\ w.to # "IF" => flags \subseteq RequestedBy(w, flags)
<1> QED
  BY SourcesAreNumbers DEF TypeOK, Writes, Store, RequestedBy

(* The request served is pending, and no pending one goes before it. *)
LEMMA HighestPending ==
  ASSUME TypeOK, Pending # {}
  PROVE  Highest \in Pending /\ \A t \in Pending : Highest =< t
<1>1. Pending \subseteq 0 .. 4
  BY SourcesAreNumbers DEF TypeOK, Pending
<1>2. \E s \in Pending : \A t \in Pending : s =< t
  <2>1. CASE 0 \in Pending
    BY <1>1, <2>1
  <2>2. CASE 0 \notin Pending /\ 1 \in Pending
    BY <1>1, <2>2
  <2>3. CASE 0 \notin Pending /\ 1 \notin Pending /\ 2 \in Pending
    BY <1>1, <2>3
  <2>4. CASE 0 \notin Pending /\ 1 \notin Pending /\ 2 \notin Pending /\ 3 \in Pending
    BY <1>1, <2>4
  <2>5. CASE 0 \notin Pending /\ 1 \notin Pending /\ 2 \notin Pending /\ 3 \notin Pending
    <3>1. PICK s : s \in Pending
      OBVIOUS
    <3>2. \A t \in Pending : t = 4
      BY <1>1, <2>5
    <3> QED
      BY <3>1, <3>2
  <2> QED
    BY <2>1, <2>2, <2>3, <2>4, <2>5
<1> QED
  BY <1>2 DEF Highest

-----------------------------------------------------------------------------
(* Every step of the machine keeps the invariant. *)
LEMMA StepKeepsCInv == CInv /\ Step => CInv'
<1> SUFFICES ASSUME CInv, Step PROVE CInv'
  OBVIOUS
<1>0. /\ iflag \in SUBSET Sources /\ ime \in BOOLEAN /\ ime_enable_delay \in 0 .. 2
      /\ TypeOK /\ ImeIffGranted /\ EiHaltServes
  BY DEF CInv, TypeOK
<1>1. CASE Service
  <2>1. PICK w \in Writes :
          /\ Store(w)
          /\ FinishStep(RequestedBy(w, Acknowledged), FALSE, ime_enable_delay)
          /\ last' = IF w.to = "IF" THEN "service_over_IF" ELSE "service"
    BY <1>1 DEF Service
  <2>2. Highest \in Sources
    BY <1>0, <1>1, HighestPending DEF Service, Interrupted, Pending
  <2>3. RequestedBy(w, Acknowledged) \in SUBSET Sources /\ ie' \subseteq Sources
        /\ selected' \subseteq Groups
    <3>1. Acknowledged \in SUBSET Sources
      BY <1>0 DEF Acknowledged
    <3> QED
      BY <1>0, <2>1, <3>1, Stored
  <2>4. /\ iflag' \subseteq Sources /\ ime_enable_delay' = 0
        /\ ime' \in BOOLEAN
        /\ ime_enable_delay = 1 => ime' = TRUE
        /\ ime_enable_delay # 1 => ime' = FALSE
    <3>1. iflag' \subseteq Sources
      BY <2>1, <2>3, FlagsKept
    <3> QED
      BY <1>0, <2>1, <3>1 DEF FinishStep, TypeOK
  <2>5. TypeOK'
    <3>1. /\ halted' \in BOOLEAN /\ halt_bug' \in BOOLEAN /\ active' \in Sources
          /\ pressed' \subseteq Keys /\ grant' \in {"none", "EI", "RETI"}
      BY <1>0, <1>1, <2>2 DEF Service, TypeOK
    <3>2. last' \in {"service", "service_over_IF"}
      BY <2>1
    <3> QED
      BY <1>0, <2>3, <2>4, <3>1, <3>2 DEF TypeOK
  <2>6. ImeIffGranted'
    BY <1>1, <2>4 DEF Service, ImeIffGranted
  <2>7. EiHaltServes'
    BY <2>1 DEF EiHaltServes
  <2> QED
    BY <2>5, <2>6, <2>7 DEF CInv
<1>2. CASE Idle
  <2>1. TypeOK'
    BY <1>0, <1>2, Finished DEF Idle, TypeOK
  <2>2. ImeIffGranted'
    BY <1>0, <1>2 DEF Idle, FinishStep, TypeOK, ImeIffGranted
  <2>3. EiHaltServes'
    BY <1>2 DEF Idle, EiHaltServes
  <2> QED
    BY <2>1, <2>2, <2>3 DEF CInv
<1>3. CASE Plain
  <2>1. PICK w \in Writes :
          w.to # "IF" /\ Store(w) /\ FinishStep(RequestedBy(w, iflag), ime, ime_enable_delay)
    BY <1>3 DEF Plain
  <2>2. RequestedBy(w, iflag) \in SUBSET Sources /\ ie' \subseteq Sources
        /\ selected' \subseteq Groups
    BY <1>0, <2>1, Stored
  <2>3. TypeOK'
    BY <1>0, <1>3, <2>1, <2>2, Finished DEF Plain, Fetched, Awake, TypeOK
  <2>4. ImeIffGranted'
    BY <1>0, <1>3, <2>1 DEF Plain, Fetched, FinishStep, TypeOK, ImeIffGranted
  <2>5. EiHaltServes'
    BY <1>3 DEF Plain, Fetched, EiHaltServes
  <2> QED
    BY <2>3, <2>4, <2>5 DEF CInv
<1>4. CASE StoreToIf
  <2>1. PICK flags \in SUBSET Sources : FinishStep(flags, ime, ime_enable_delay)
    BY <1>4 DEF StoreToIf
  <2>3. TypeOK'
    BY <1>0, <1>4, <2>1, Finished DEF StoreToIf, Fetched, Awake, TypeOK
  <2>4. ImeIffGranted'
    BY <1>0, <1>4, <2>1 DEF StoreToIf, Fetched, FinishStep, TypeOK, ImeIffGranted
  <2>5. EiHaltServes'
    BY <1>4 DEF StoreToIf, Fetched, EiHaltServes
  <2> QED
    BY <2>3, <2>4, <2>5 DEF CInv
<1>5. CASE EI
  <2>1. TypeOK'
    <3>1. ie' \subseteq Sources /\ iflag' \subseteq Sources
      BY <1>0, <1>5, FlagsKept DEF EI, TypeOK
    <3>2. ime' \in BOOLEAN /\ ime_enable_delay' \in 0 .. 1
      BY <1>0, <1>5 DEF EI, FinishStep
    <3> QED
      BY <1>0, <1>5, <3>1, <3>2 DEF EI, Fetched, Awake, TypeOK
  <2>2. ImeIffGranted'
    BY <1>0, <1>5 DEF EI, Fetched, FinishStep, TypeOK, ImeIffGranted
  <2>3. EiHaltServes'
    BY <1>5 DEF EI, Fetched, Awake, EiHaltServes
  <2> QED
    BY <2>1, <2>2, <2>3 DEF CInv
<1>6. CASE DI
  <2>1. TypeOK'
    <3>1. ie' \subseteq Sources /\ iflag' \subseteq Sources
      BY <1>0, <1>6, FlagsKept DEF DI, TypeOK
    <3>2. ime' \in BOOLEAN /\ ime_enable_delay' \in 0 .. 1
      BY <1>0, <1>6 DEF DI, FinishStep
    <3> QED
      BY <1>0, <1>6, <3>1, <3>2 DEF DI, Fetched, Awake, TypeOK
  <2>2. ImeIffGranted'
    BY <1>0, <1>6 DEF DI, Fetched, FinishStep, TypeOK, ImeIffGranted
  <2>3. EiHaltServes'
    BY <1>6 DEF DI, Fetched, Awake, EiHaltServes
  <2> QED
    BY <2>1, <2>2, <2>3 DEF CInv
<1>7. CASE RETI
  <2>1. TypeOK'
    BY <1>0, <1>7, Finished DEF RETI, Fetched, Awake, TypeOK
  <2>2. ImeIffGranted'
    BY <1>0, <1>7 DEF RETI, Fetched, FinishStep, TypeOK, ImeIffGranted
  <2>3. EiHaltServes'
    BY <1>7 DEF RETI, Fetched, Awake, EiHaltServes
  <2> QED
    BY <2>1, <2>2, <2>3 DEF CInv
<1>8. CASE HALT
  <2>1. iflag \subseteq iflag' /\ ie' = ie
    BY <1>0, <1>8, Finished DEF HALT
  <2>2. EiHaltServes'
    (* if it failed to sleep, what was pending then still is *)
    BY <1>8, <2>1 DEF HALT, HaltFailsToSleep, EiHaltServes, Pending
  <2>3. TypeOK'
    BY <1>0, <1>8, Finished DEF HALT, HaltFailsToSleep, Fetched, TypeOK
  <2>4. ImeIffGranted'
    BY <1>0, <1>8 DEF HALT, Fetched, FinishStep, TypeOK, ImeIffGranted
  <2> QED
    BY <2>2, <2>3, <2>4 DEF CInv
<1>9. CASE STOP
  <2>1. TypeOK'
    BY <1>0, <1>9, Finished DEF STOP, Fetched, TypeOK
  <2>2. ImeIffGranted'
    BY <1>0, <1>9 DEF STOP, Fetched, FinishStep, TypeOK, ImeIffGranted
  <2>3. EiHaltServes'
    BY <1>9 DEF STOP, Fetched, EiHaltServes
  <2> QED
    BY <2>1, <2>2, <2>3 DEF CInv
<1>10. CASE Unsupported
  <2>1. TypeOK'
    BY <1>0, <1>10 DEF Unsupported, Fetched, Awake, TypeOK
  <2>2. ImeIffGranted' /\ EiHaltServes'
    BY <1>0, <1>10 DEF Unsupported, Fetched, Awake, ImeIffGranted, EiHaltServes
  <2> QED
    BY <2>1, <2>2 DEF CInv
<1> QED
  BY <1>1, <1>2, <1>3, <1>4, <1>5, <1>6, <1>7, <1>8, <1>9, <1>10 DEF Step

(* So does the host. *)
LEMMA NextKeepsCInv == CInv /\ [Next]_vars => CInv'
<1> SUFFICES ASSUME CInv, [Next]_vars PROVE CInv'
  OBVIOUS
<1>1. CASE Step
  BY <1>1, StepKeepsCInv
<1>2. CASE SetKeys
  <2>1. iflag' \subseteq Sources /\ iflag \subseteq iflag' /\ pressed' \subseteq Keys
    BY <1>2, SourcesAreNumbers DEF SetKeys, CInv, TypeOK
  <2>2. EiHaltServes'
    BY <1>2, <2>1 DEF SetKeys, CInv, EiHaltServes, Pending
  <2> QED
    BY <1>2, <2>1, <2>2 DEF SetKeys, CInv, TypeOK, ImeIffGranted
<1>3. CASE SaveAndLoad
  <2>1. TypeOK'
    <3>1. grant' \in {"none", "EI", "RETI"} /\ ime_enable_delay' \in 0 .. 1
      BY <1>3 DEF SaveAndLoad, CInv, TypeOK
    <3> QED
      BY <1>3, <3>1, Zenon DEF SaveAndLoad, CInv, TypeOK
  <2>2. ImeIffGranted'
    BY <1>3 DEF SaveAndLoad, CInv, TypeOK, ImeIffGranted
  <2>3. EiHaltServes'
    BY <1>3 DEF SaveAndLoad, EiHaltServes
  <2> QED
    BY <2>1, <2>2, <2>3 DEF CInv
<1>4. CASE UNCHANGED vars
  BY <1>4 DEF vars, CInv, TypeOK, ImeIffGranted, EiHaltServes, Pending
<1> QED
  BY <1>1, <1>2, <1>3, <1>4 DEF Next

(* It always holds. *)
LEMMA CpuInvariant == Spec => []CInv
<1> QED
  BY InitCInv, NextKeepsCInv, PTL DEF Spec

(* The registers keep their shape, and interrupts are on exactly when an   *)
(* EI or a RETI since the last DI or entry has turned them on.             *)
THEOREM InterruptsOnlyWhenGranted == Spec => [](TypeOK /\ ImeIffGranted)
<1>1. CInv => TypeOK /\ ImeIffGranted
  BY DEF CInv
<1> QED
  BY <1>1, CpuInvariant, PTL

(* EI, HALT waits for its interrupt and is always served, whenever the     *)
(* request is made.                                                        *)
THEOREM HaltIsServed == Spec => []EiHaltServes
<1>1. CInv => EiHaltServes
  BY DEF CInv
<1> QED
  BY <1>1, CpuInvariant, PTL

(* An entry takes the highest request that is enabled, and only a store to *)
(* IF drops any other.                                                     *)
LEMMA RequestsSurvive == Spec => RequestsKept
<1> DEFINE Kept ==
      \A s \in iflag \ iflag' :
        \/ last' = "service" /\ ime /\ s = active' /\ s \in ie /\ \A t \in Pending : s =< t
        \/ last' \in {"IF", "service_over_IF"}
<1>1. CInv /\ [Next]_vars => [Kept]_vars
  <2> SUFFICES ASSUME CInv, Next, NEW s \in iflag \ iflag'
               PROVE  \/ /\ last' = "service" /\ ime /\ s = active' /\ s \in ie
                         /\ \A t \in Pending : s =< t
                      \/ last' \in {"IF", "service_over_IF"}
    OBVIOUS
  <2>0. TypeOK /\ iflag \in SUBSET Sources /\ ime \in BOOLEAN /\ ime_enable_delay \in 0 .. 2
    BY DEF CInv, TypeOK
  <2>1. CASE Service
    <3>1. PICK w \in Writes :
            /\ Store(w)
            /\ FinishStep(RequestedBy(w, Acknowledged), FALSE, ime_enable_delay)
            /\ last' = IF w.to = "IF" THEN "service_over_IF" ELSE "service"
      BY <2>1 DEF Service
    <3>2. CASE w.to = "IF"
      BY <3>1, <3>2
    <3>3. CASE w.to # "IF"
      <4>1. Acknowledged \in SUBSET Sources
        BY <2>0 DEF Acknowledged
      <4>2. RequestedBy(w, Acknowledged) \in SUBSET Sources
            /\ Acknowledged \subseteq RequestedBy(w, Acknowledged)
        BY <2>0, <3>1, <3>3, <4>1, Stored
      <4>3. Acknowledged \subseteq iflag'
        BY <2>0, <3>1, <4>2, Finished
      <4>4. s = Highest
        BY <4>3 DEF Acknowledged
      <4>5. Highest \in Pending /\ \A t \in Pending : Highest =< t
        BY <2>0, <2>1, HighestPending DEF Service, Interrupted
      <4> QED
        BY <2>1, <3>1, <3>3, <4>4, <4>5 DEF Service, Interrupted, Pending
    <3> QED
      BY <3>2, <3>3
  <2>2. CASE Plain
    <3>1. PICK w \in Writes :
            w.to # "IF" /\ Store(w) /\ FinishStep(RequestedBy(w, iflag), ime, ime_enable_delay)
      BY <2>2 DEF Plain
    <3>2. RequestedBy(w, iflag) \in SUBSET Sources /\ iflag \subseteq RequestedBy(w, iflag)
      BY <2>0, <3>1, Stored
    <3>3. iflag \subseteq iflag'
      BY <2>0, <3>1, <3>2, Finished
    <3> QED
      BY <3>3
  <2>3. CASE StoreToIf
    BY <2>3 DEF StoreToIf, Fetched
  <2>4. CASE Idle \/ EI \/ DI \/ RETI \/ HALT \/ STOP
    <3>1. \E rung \in SUBSET Devices : iflag' = iflag \cup rung
      BY <2>4 DEF Idle, EI, DI, RETI, HALT, STOP, FinishStep
    <3> QED
      BY <3>1
  <2>5. CASE Unsupported \/ SetKeys \/ SaveAndLoad
    BY <2>5 DEF Unsupported, SetKeys, SaveAndLoad
  <2> QED
    BY <2>1, <2>2, <2>3, <2>4, <2>5 DEF Next, Step
<1> QED
  BY <1>1, CpuInvariant, PTL DEF Spec, RequestsKept

(* A suppressed fetch waits behind its HALT, or behind the one entry that  *)
(* an EI before the HALT allows, in which interrupts are off again.        *)
BugWaits ==
  halt_bug =>
    /\ ~ halted /\ ime_enable_delay = 0
    /\ \/ last = "HALT" /\ (ime => grant = "EI")
       \/ last \in {"service", "service_over_IF"} /\ ~ ime

LEMMA BugWaitsInit == Init => BugWaits
  BY DEF Init, BugWaits

LEMMA BugWaitsNext == CInv /\ BugWaits /\ [Next]_vars => BugWaits'
<1> SUFFICES ASSUME CInv, BugWaits, [Next]_vars, halt_bug' PROVE BugWaits'
  BY DEF BugWaits
<1>0. /\ halt_bug \in BOOLEAN /\ ime \in BOOLEAN /\ ime_enable_delay \in 0 .. 1
      /\ ime_enable_delay = 1 => grant = "EI"
  BY DEF CInv, TypeOK, ImeIffGranted
<1>1. CASE Service
  <2>1. halt_bug /\ halted' = FALSE
    BY <1>1 DEF Service
  <2>2. ime_enable_delay = 0
    BY <2>1 DEF BugWaits
  <2>3. PICK w \in Writes :
          /\ FinishStep(RequestedBy(w, Acknowledged), FALSE, ime_enable_delay)
          /\ last' = IF w.to = "IF" THEN "service_over_IF" ELSE "service"
    BY <1>1 DEF Service
  <2>4. ime' = FALSE /\ ime_enable_delay' = 0
    BY <2>2, <2>3 DEF FinishStep
  <2> QED
    BY <2>1, <2>3, <2>4 DEF BugWaits
<1>2. CASE HALT
  <2>1. halt_bug' = HaltFailsToSleep /\ halted' = ~ HaltFailsToSleep /\ last' = "HALT"
    BY <1>2, ZenonT(120) DEF HALT, Fetched
  <2>2. ~ ime /\ ~ halted'
    BY <2>1 DEF HaltFailsToSleep
  <2>3. /\ ime' = IF ime_enable_delay = 1 THEN TRUE ELSE ime
        /\ ime_enable_delay' = IF ime_enable_delay > 0 THEN ime_enable_delay - 1 ELSE 0
        /\ grant' = grant
    BY <1>2 DEF HALT, FinishStep
  <2>4. ime_enable_delay' = 0 /\ (ime' => grant' = "EI")
    BY <1>0, <2>2, <2>3
  <2> QED
    BY <2>1, <2>2, <2>4 DEF BugWaits
<1>3. CASE Idle
  BY <1>3 DEF Idle, Asleep, BugWaits
<1>4. CASE Plain \/ StoreToIf \/ EI \/ DI \/ RETI \/ Unsupported
  BY <1>4 DEF Plain, StoreToIf, EI, DI, RETI, Unsupported, Awake
<1>5. CASE STOP \/ SaveAndLoad
  BY <1>5 DEF STOP, SaveAndLoad
<1>6. CASE SetKeys \/ UNCHANGED vars
  BY <1>6 DEF SetKeys, vars, BugWaits
<1> QED
  BY <1>1, <1>2, <1>3, <1>4, <1>5, <1>6 DEF Next, Step

(* A falling line is seen where the program's selection moves it and where *)
(* the host's keys do; nothing else moves it.                              *)
LEMMA EdgesAreSeen ==
  ASSUME CInv, Next, Falls(Low(pressed, selected), Low(pressed', selected'))
  PROVE  JOYPAD \in iflag'
<1>0. TypeOK /\ iflag \in SUBSET Sources /\ ime_enable_delay \in 0 .. 2
  BY DEF CInv, TypeOK
<1>1. ASSUME NEW w \in Writes, NEW flags \in SUBSET Sources, NEW enabled,
             Store(w), FinishStep(RequestedBy(w, flags), enabled, ime_enable_delay),
             pressed' = pressed
      PROVE  JOYPAD \in iflag'
  <2>1. w.to = "P1" /\ selected' = w.bits
    BY <1>1 DEF Store, Falls
  <2>2. JOYPAD \in RequestedBy(w, flags)
    BY <1>1, <2>1 DEF RequestedBy
  <2>3. RequestedBy(w, flags) \in SUBSET Sources
    BY <1>0, <1>1, Stored
  <2> QED
    BY <1>1, <2>2, <2>3, FlagsKept
<1>2. CASE Service
  <2>1. Acknowledged \in SUBSET Sources
    BY <1>0 DEF Acknowledged
  <2> QED
    BY <1>1, <1>2, <2>1 DEF Service
<1>3. CASE Plain
  BY <1>0, <1>1, <1>3 DEF Plain, Fetched
<1>4. CASE SetKeys
  BY <1>4 DEF SetKeys
<1>5. CASE Idle \/ StoreToIf \/ EI \/ DI \/ RETI \/ HALT \/ STOP \/ Unsupported \/ SaveAndLoad
  <2>1. pressed' = pressed /\ selected' = selected
    BY <1>5 DEF Idle, StoreToIf, EI, DI, RETI, HALT, STOP, Unsupported, SaveAndLoad, Fetched
  <2> QED
    BY <2>1 DEF Falls
<1> QED
  BY <1>2, <1>3, <1>4, <1>5 DEF Next, Step

(* No request goes astray, for every set of devices and of keys: an entry  *)
(* takes the highest request and only a store to IF drops another, every   *)
(* falling line of P1 is on request (joypad.rs), and an entry overtakes a  *)
(* suppressed fetch only behind EI, HALT (lib.rs, the HALT instruction).   *)
THEOREM NoRequestIsLost == Spec => NoRequestGoesAstray
<1>1. CInv /\ [Next]_vars =>
        [Falls(Low(pressed, selected), Low(pressed', selected')) => JOYPAD \in iflag']_vars
  BY EdgesAreSeen
<1>2. BugWaits /\ [Next]_vars => [Service /\ halt_bug => grant = "EI" /\ last = "HALT"]_vars
  BY DEF BugWaits, Service, Interrupted
<1> QED
  BY CpuInvariant, BugWaitsInit, BugWaitsNext, RequestsSurvive, <1>1, <1>2, PTL
     DEF Spec, NoRequestGoesAstray, NoEdgeMissed, HaltBugOvertaken

-----------------------------------------------------------------------------
(* The display. *)

(* The display's registers, latch and position. *)
Ppus ==
  [on : BOOLEAN, geo : Geometries, ly : 0 .. TotalLines - 1, dots : 0 .. LineDots - 1,
   lyc : 0 .. TotalLines - 1, stat : SUBSET Lcd!Sources, line : BOOLEAN, penalty : Nat]

(* The sprites found for the line in progress are some line's. *)
Fits(p) == p.penalty = 0 \/ \E o \in OamContents, l \in Lcd!DrawnLines : p.penalty = o[l]

(* Mode 3 has been through line l of the picture. *)
Through(p, l) == l < p.ly \/ (l = p.ly /\ p.dots >= Lcd!Mode3End(p, l))

Counted(p, count, except) ==
  p.on => \A l \in Lcd!DrawnLines \ except : count[l] = IF Through(p, l) THEN 1 ELSE 0

(* The latch is current unless a write has moved the mode behind it, and     *)
(* the lines drawn so far are those that mode 3 has been through.            *)
LcdInv ==
  /\ Lcd!TypeOK
  /\ Fits(ppu)
  /\ ~ stale => ppu.line = Lcd!Selected(ppu)
  /\ Counted(ppu, drawn, moved)

LEMMA Sizes ==
  /\ SearchDots \in Nat \ {0} /\ TransferEnd \in Nat /\ LineDots \in Nat /\ WindowDots \in Nat
  /\ VisibleLines \in Nat \ {0} /\ TotalLines \in Nat
  /\ SearchDots < TransferEnd /\ VisibleLines < TotalLines
  /\ Enables \subseteq SUBSET Lcd!Sources
  /\ 0 \in Lcd!DrawnLines /\ Lcd!DrawnLines \subseteq Nat
  BY LcdAssumption DEF Lcd!PpuParameters, Lcd!DisplaySizes, Lcd!DrawnLines

(* The end of mode 3 lies behind OAM search and before the end of the line. *)
LEMMA EndOfTransfer ==
  ASSUME NEW p \in Ppus, Fits(p), OamContents # {}, NEW l \in Nat
  PROVE  /\ Lcd!Mode3End(p, l) \in Nat
         /\ SearchDots < Lcd!Mode3End(p, l) /\ Lcd!Mode3End(p, l) < LineDots
<1>1. /\ p.geo \in Geometries /\ p.penalty \in Nat
      /\ p.geo.fine \in Nat /\ p.geo.bg \in BOOLEAN
  BY LcdAssumption DEF Ppus, Lcd!PpuParameters, Lcd!DisplaySizes
<1>2. TransferEnd + p.geo.fine + WindowDots + p.penalty < LineDots
  <2>1. PICK o \in OamContents, k \in Lcd!DrawnLines : p.penalty = 0 \/ p.penalty = o[k]
    BY Sizes DEF Fits
  <2>2. o[k] \in Nat /\ TransferEnd + p.geo.fine + WindowDots + o[k] < LineDots
    BY <1>1, LcdAssumption DEF Lcd!PpuParameters, Lcd!DisplaySizes, Lcd!DrawnLines
  <2> QED
    BY <1>1, <2>1, <2>2, Sizes
<1>3. PICK f \in {0, p.geo.fine}, w \in {0, WindowDots} :
        Lcd!Mode3End(p, l) = TransferEnd + f + w + p.penalty
  <2> DEFINE f == IF p.geo.bg THEN p.geo.fine ELSE 0
             w == IF Lcd!WindowVisible(p, l) THEN WindowDots ELSE 0
  <2>1. Lcd!Mode3End(p, l) = TransferEnd + f + w + p.penalty
    BY DEF Lcd!Mode3End
  <2>2. f \in {0, p.geo.fine} /\ w \in {0, WindowDots}
    OBVIOUS
  <2> HIDE DEF f, w
  <2> QED
    BY <2>1, <2>2
<1> QED
  BY <1>1, <1>2, <1>3, Sizes

LEMMA SelectedShape ==
  ASSUME NEW p \in Ppus
  PROVE  /\ Lcd!Selected(p) \in BOOLEAN
         /\ Lcd!Refreshed(p) \in Ppus
         /\ Lcd!Refreshed(p) = [p EXCEPT !.line = Lcd!Selected(p)]
         /\ Lcd!Refreshed(p).line = Lcd!Selected(Lcd!Refreshed(p))
         /\ Lcd!Selected(Lcd!Refreshed(p)) = Lcd!Selected(p)
         /\ ~ p.on => ~ Lcd!Selected(p)
<1> DEFINE s == Lcd!Selected(p)
           q == Lcd!Refreshed(p)
<1>1. s \in BOOLEAN
  BY DEF Lcd!Selected
<1>2. ~ p.on => ~ s
  BY DEF Lcd!Selected
<1> HIDE DEF s
<1>3. q = [p EXCEPT !.line = s]
  BY DEF Lcd!Refreshed, s
<1> HIDE DEF q
<1>4. /\ q \in Ppus /\ q.line = s
      /\ q.on = p.on /\ q.geo = p.geo /\ q.ly = p.ly /\ q.dots = p.dots /\ q.lyc = p.lyc
      /\ q.stat = p.stat /\ q.penalty = p.penalty
  BY <1>1, <1>3 DEF Ppus
<1>5. Lcd!Mode3End(q, q.ly) = Lcd!Mode3End(p, p.ly)
  BY <1>4 DEF Lcd!Mode3End, Lcd!WindowVisible
<1>6. Lcd!Mode(q) = Lcd!Mode(p)
  BY <1>4, <1>5 DEF Lcd!Mode, Lcd!ModeFor
<1>7. Lcd!Selected(q) = Lcd!Selected(p)
  BY <1>4, <1>6 DEF Lcd!Selected
<1> QED
  BY <1>1, <1>2, <1>3, <1>4, <1>7 DEF s, q

(* What the latch's refresh leaves alone. *)
LEMMA RefreshedFields ==
  ASSUME NEW p \in Ppus, NEW count, NEW except
  PROVE  /\ Fits(p) => Fits(Lcd!Refreshed(p))
         /\ Counted(p, count, except) => Counted(Lcd!Refreshed(p), count, except)
         /\ Lcd!Refreshed(p).stat = p.stat /\ Lcd!Refreshed(p).ly = p.ly
         /\ Lcd!Refreshed(p).on = p.on
<1> DEFINE q == Lcd!Refreshed(p)
<1>1. q = [p EXCEPT !.line = Lcd!Selected(p)]
  BY DEF Lcd!Refreshed
<1> HIDE DEF q
<1>2. /\ q.on = p.on /\ q.geo = p.geo /\ q.ly = p.ly /\ q.dots = p.dots
      /\ q.stat = p.stat /\ q.penalty = p.penalty
  BY <1>1 DEF Ppus
<1>3. \A l : Lcd!Mode3End(q, l) = Lcd!Mode3End(p, l)
  BY <1>2 DEF Lcd!Mode3End, Lcd!WindowVisible
<1>4. \A l : Through(q, l) <=> Through(p, l)
  BY <1>2, <1>3 DEF Through
<1>5. Counted(p, count, except) => Counted(q, count, except)
  <2> HIDE DEF Lcd!DrawnLines
  <2> QED
    BY <1>2, <1>4 DEF Counted
<1>6. Fits(p) => Fits(q)
  BY <1>2 DEF Fits
<1> QED
  BY <1>2, <1>5, <1>6 DEF q

LEMMA LcdInit == Lcd!Init => LcdInv
<1> SUFFICES ASSUME Lcd!Init PROVE LcdInv
  OBVIOUS
<1>1. PICK g \in Geometries : ppu = Lcd!PowerOn(g, 0, {})
  BY DEF Lcd!Init
<1>2. /\ ppu.on = TRUE /\ ppu.geo = g /\ ppu.ly = 0 /\ ppu.dots = 0 /\ ppu.lyc = 0
      /\ ppu.stat = {} /\ ppu.line = FALSE /\ ppu.penalty = 0
  BY <1>1 DEF Lcd!PowerOn
<1>3. OamContents # {} /\ 0 \in 0 .. TotalLines - 1
  BY Sizes DEF Lcd!Init
<1>4. ppu \in Ppus
  <2>1. SearchDots < LineDots
    <3>2. PICK o \in OamContents : TRUE
      BY <1>3
    <3>3. o[0] \in Nat /\ TransferEnd + g.fine + WindowDots + o[0] < LineDots /\ g.fine \in Nat
      BY LcdAssumption, Sizes DEF Lcd!PpuParameters, Lcd!DisplaySizes, Lcd!DrawnLines
    <3> QED
      BY <3>3, Sizes
  <2> QED
    BY <1>1, <1>3, <2>1, Sizes DEF Lcd!PowerOn, Ppus
<1>5. ~ Lcd!Selected(ppu) /\ Lcd!Selected(ppu) \in BOOLEAN
  BY <1>2 DEF Lcd!Selected
<1>6. Lcd!TypeOK
  BY <1>4 DEF Lcd!Init, Lcd!TypeOK, Ppus
<1>7. Fits(ppu)
  BY <1>2 DEF Fits
<1>8. Counted(ppu, drawn, moved)
  <2>1. \A l \in Lcd!DrawnLines : ~ Through(ppu, l)
    BY <1>2, <1>3, <1>4, <1>7, EndOfTransfer, Sizes DEF Through
  <2> QED
    BY <2>1 DEF Counted, Lcd!Init
<1> QED
  BY <1>2, <1>5, <1>6, <1>7, <1>8 DEF LcdInv

LEMMA LatchedShape ==
  ASSUME NEW p \in Ppus, NEW o \in OamContents
  PROVE  LET q == Lcd!Latched(p, o)
         IN /\ q \in Ppus /\ Fits(q)
            /\ q.on = p.on /\ q.geo = p.geo /\ q.ly = p.ly /\ q.dots = p.dots /\ q.lyc = p.lyc
            /\ q.stat = p.stat /\ q.line = p.line
<1> DEFINE n == IF p.on /\ p.ly < VisibleLines THEN o[p.ly] ELSE 0
           q == Lcd!Latched(p, o)
<1>1. n \in Nat /\ (n = 0 \/ \E e \in OamContents, l \in Lcd!DrawnLines : n = e[l])
  <2>1. CASE p.on /\ p.ly < VisibleLines
    <3>1. p.ly \in Lcd!DrawnLines
      BY <2>1, Sizes DEF Ppus, Lcd!DrawnLines
    <3>2. o[p.ly] \in Nat
      BY <3>1, LcdAssumption DEF Lcd!PpuParameters, Lcd!DisplaySizes, Lcd!DrawnLines
    <3> QED
      BY <2>1, <3>1, <3>2
  <2>2. CASE ~ (p.on /\ p.ly < VisibleLines)
    BY <2>2
  <2> QED
    BY <2>1, <2>2
<1>2. q = [p EXCEPT !.penalty = n]
  BY DEF Lcd!Latched
<1> HIDE DEF n, q
<1>3. /\ q \in Ppus /\ q.penalty = n
      /\ q.on = p.on /\ q.geo = p.geo /\ q.ly = p.ly /\ q.dots = p.dots /\ q.lyc = p.lyc
      /\ q.stat = p.stat /\ q.line = p.line
  BY <1>1, <1>2 DEF Ppus
<1>4. Fits(q)
  BY <1>1, <1>3 DEF Fits
<1> QED
  BY <1>3, <1>4 DEF q

(* What a line's start finds in OAM moves no mode: the line has just begun. *)
LEMMA LatchedAtStart ==
  ASSUME NEW p \in Ppus, NEW o \in OamContents, Fits(p), Lcd!AtLineStart(p), NEW count, NEW except
  PROVE  LET q == Lcd!Latched(p, o)
         IN /\ Lcd!Selected(q) = Lcd!Selected(p)
            /\ Lcd!Boundary(q) = Lcd!Boundary(p)
            /\ Counted(p, count, except) => Counted(q, count, except)
<1> DEFINE q == Lcd!Latched(p, o)
<1>1. /\ q \in Ppus /\ Fits(q)
      /\ q.on = p.on /\ q.geo = p.geo /\ q.ly = p.ly /\ q.dots = p.dots /\ q.lyc = p.lyc
      /\ q.stat = p.stat
  BY LatchedShape
<1> HIDE DEF q
<1>2. p.dots = 0 /\ Lcd!Mode(p) = "search" /\ p.on /\ p.ly \in Nat /\ ~ (p.ly >= VisibleLines)
  <2>1. p.dots = 0 /\ Lcd!Mode(p) = "search"
    BY DEF Lcd!AtLineStart
  <2>2. p.on /\ ~ (p.ly >= VisibleLines)
    BY <2>1 DEF Lcd!Mode, Lcd!ModeFor
  <2> QED
    BY <2>1, <2>2, Sizes DEF Ppus
<1>3. Lcd!Mode(q) = "search"
  BY <1>1, <1>2, Sizes DEF Lcd!Mode, Lcd!ModeFor
<1>4. Lcd!Selected(q) = Lcd!Selected(p)
  BY <1>1, <1>2, <1>3 DEF Lcd!Selected
<1>5. Lcd!Boundary(q) = Lcd!Boundary(p)
  BY <1>1, <1>2, <1>3 DEF Lcd!Boundary
<1>6. \A l \in Lcd!DrawnLines : Through(q, l) <=> Through(p, l)
  <2>1. ASSUME NEW l \in Lcd!DrawnLines
        PROVE  ~ (p.dots >= Lcd!Mode3End(p, l)) /\ ~ (q.dots >= Lcd!Mode3End(q, l))
    <3>1. /\ Lcd!Mode3End(p, l) \in Nat /\ 0 < Lcd!Mode3End(p, l)
          /\ Lcd!Mode3End(q, l) \in Nat /\ 0 < Lcd!Mode3End(q, l)
      BY <1>1, Sizes, EndOfTransfer
    <3> QED
      BY <1>1, <1>2, <3>1
  <2> QED
    BY <1>1, <2>1 DEF Through
<1>7. Counted(p, count, except) => Counted(q, count, except)
  <2> HIDE DEF Lcd!DrawnLines
  <2> QED
    BY <1>1, <1>6 DEF Counted
<1> QED
  BY <1>4, <1>5, <1>7 DEF q

(* A chunk ends with its mode at the latest, and never passes a line's end. *)
LEMMA ChunkStays ==
  ASSUME NEW p \in Ppus, Fits(p), OamContents # {}, p.on, NEW c \in Nat \ {0},
         c =< Lcd!Boundary(p)
  PROVE  /\ p.dots + c =< LineDots
         /\ p.ly < VisibleLines /\ p.dots < Lcd!Mode3End(p, p.ly) =>
               p.dots + c =< Lcd!Mode3End(p, p.ly)
         /\ Lcd!LineDone(p, c) <=>
               /\ p.ly < VisibleLines /\ p.dots < Lcd!Mode3End(p, p.ly)
               /\ p.dots + c >= Lcd!Mode3End(p, p.ly)
<1> DEFINE e == Lcd!Mode3End(p, p.ly)
<1>1. /\ p.dots \in 0 .. LineDots - 1 /\ p.ly \in Nat /\ p.on \in BOOLEAN
  BY Sizes DEF Ppus
<1>2. e \in Nat /\ SearchDots < e /\ e < LineDots
  BY <1>1, EndOfTransfer
<1>3. Lcd!Mode(p) = IF p.ly >= VisibleLines THEN "vblank"
                    ELSE IF p.dots < SearchDots THEN "search"
                    ELSE IF p.dots < e THEN "transfer" ELSE "hblank"
  BY DEF Lcd!Mode, Lcd!ModeFor
<1>4. Lcd!Boundary(p) = LET b == CASE Lcd!Mode(p) = "search" -> SearchDots - p.dots
                                   [] Lcd!Mode(p) = "transfer" -> e - p.dots
                                   [] OTHER -> LineDots - p.dots
                        IN IF 1 >= b THEN 1 ELSE b
  BY DEF Lcd!Boundary, Lcd!AtLeast
<1>5. Lcd!LineDone(p, c) <=> Lcd!Mode(p) = "transfer" /\ p.dots + c >= e
  BY DEF Lcd!LineDone
<1> HIDE DEF e
<1> SUFFICES /\ p.dots + c =< LineDots
             /\ p.ly < VisibleLines /\ p.dots < e => p.dots + c =< e
             /\ Lcd!LineDone(p, c) <=> /\ p.ly < VisibleLines /\ p.dots < e
                                       /\ p.dots + c >= e
  BY DEF e
<1>6. CASE Lcd!Mode(p) = "search"
  <2>1. p.ly < VisibleLines /\ p.dots < SearchDots
    BY <1>1, <1>3, <1>6, Sizes
  <2>2. c =< SearchDots - p.dots
    BY <1>1, <1>4, <1>6, <2>1, Sizes
  <2> QED
    BY <1>1, <1>2, <1>5, <1>6, <2>1, <2>2, Sizes
<1>7. CASE Lcd!Mode(p) = "transfer"
  <2>1. p.ly < VisibleLines /\ p.dots < e
    BY <1>1, <1>2, <1>3, <1>7, Sizes
  <2>2. c =< e - p.dots
    BY <1>1, <1>2, <1>4, <1>7, <2>1, Sizes
  <2> QED
    BY <1>1, <1>2, <1>5, <1>7, <2>1, <2>2, Sizes
<1>8. CASE Lcd!Mode(p) \in {"hblank", "vblank"}
  <2>1. ~ (p.ly < VisibleLines /\ p.dots < e)
    BY <1>1, <1>2, <1>3, <1>8, Sizes
  <2>2. c =< LineDots - p.dots
    BY <1>1, <1>4, <1>8, Sizes
  <2> QED
    BY <1>1, <1>2, <1>5, <1>8, <2>1, <2>2, Sizes
<1> QED
  BY <1>3, <1>6, <1>7, <1>8

LEMMA MovedShape ==
  ASSUME NEW p \in Ppus, NEW c \in Nat \ {0}, p.dots + c =< LineDots
  PROVE  LET q == Lcd!Moved(p, c)
         IN /\ q \in Ppus /\ (Fits(p) => Fits(q))
            /\ q.on = p.on /\ q.geo = p.geo /\ q.lyc = p.lyc /\ q.stat = p.stat
            /\ q.line = p.line
            /\ \/ /\ q.dots = p.dots + c /\ q.ly = p.ly /\ q.penalty = p.penalty
                  /\ p.dots + c < LineDots
               \/ /\ p.dots + c = LineDots /\ q.dots = 0
                  /\ \/ p.ly + 1 < TotalLines /\ q.ly = p.ly + 1
                     \/ p.ly + 1 = TotalLines /\ q.ly = 0
                  /\ q.penalty \in {0, p.penalty}
<1> DEFINE q == Lcd!Moved(p, c)
           ly == IF p.ly + 1 >= TotalLines THEN 0 ELSE p.ly + 1
           pen == IF p.ly + 1 = VisibleLines THEN 0 ELSE p.penalty
<1>1. p.dots \in 0 .. LineDots - 1 /\ p.ly \in 0 .. TotalLines - 1 /\ p.penalty \in Nat
  BY DEF Ppus
<1>2. CASE p.dots + c < LineDots
  <2>1. q = [p EXCEPT !.dots = p.dots + c]
    BY <1>2 DEF Lcd!Moved
  <2>2. p.dots + c \in 0 .. LineDots - 1
    BY <1>1, <1>2, Sizes
  <2> HIDE DEF q
  <2>3. /\ q \in Ppus /\ q.dots = p.dots + c /\ q.ly = p.ly /\ q.penalty = p.penalty
        /\ q.on = p.on /\ q.geo = p.geo /\ q.lyc = p.lyc /\ q.stat = p.stat /\ q.line = p.line
    BY <2>1, <2>2 DEF Ppus
  <2>4. Fits(p) => Fits(q)
    BY <2>3 DEF Fits
  <2> QED
    BY <1>2, <2>3, <2>4 DEF q
<1>3. CASE ~ (p.dots + c < LineDots)
  <2>1. q = [p EXCEPT !.dots = (p.dots + c) - LineDots, !.ly = ly, !.penalty = pen]
    BY <1>3 DEF Lcd!Moved
  <2>2. p.dots + c = LineDots /\ (p.dots + c) - LineDots = 0 /\ 0 \in 0 .. LineDots - 1
    BY <1>1, <1>3, Sizes
  <2>3. /\ ly \in 0 .. TotalLines - 1
        /\ (p.ly + 1 < TotalLines /\ ly = p.ly + 1) \/ (p.ly + 1 = TotalLines /\ ly = 0)
    BY <1>1, Sizes
  <2>4. pen \in {0, p.penalty}
    OBVIOUS
  <2> HIDE DEF q, ly, pen
  <2> DEFINE d == (p.dots + c) - LineDots
  <2>5. d \in 0 .. LineDots - 1 /\ d = 0 /\ pen \in Nat
    BY <1>1, <2>2, <2>4
  <2> HIDE DEF d
  <2>7. /\ q \in Ppus /\ q.dots = d /\ q.ly = ly /\ q.penalty = pen
        /\ q.on = p.on /\ q.geo = p.geo /\ q.lyc = p.lyc /\ q.stat = p.stat /\ q.line = p.line
    BY <2>1, <2>3, <2>5, ZenonT(120) DEF Ppus, d
  <2>6. Fits(p) => Fits(q)
    BY <2>4, <2>7 DEF Fits
  <2> QED
    BY <2>2, <2>3, <2>4, <2>5, <2>6, <2>7 DEF q
<1> QED
  BY <1>2, <1>3

(* A chunk draws a line as it takes it through mode 3, and no other. *)
LEMMA ChunkDraws ==
  ASSUME NEW p \in Ppus, Fits(p), OamContents # {}, p.on, NEW c \in Nat \ {0},
         c =< Lcd!Boundary(p), NEW count \in [Lcd!DrawnLines -> Nat], NEW except,
         Counted(p, count, except)
  PROVE  LET q == Lcd!Moved(p, c)
             done == IF Lcd!LineDone(p, c) THEN {p.ly} ELSE {}
         IN /\ q.ly >= p.ly =>
                 Counted(q, [l \in Lcd!DrawnLines |-> count[l] + IF l \in done THEN 1 ELSE 0], except)
            /\ q.ly < p.ly =>
                 /\ Counted(q, [l \in Lcd!DrawnLines |-> 0], {})
                 /\ \A l \in Lcd!DrawnLines \ except : count[l] = 1
            /\ p.ly > 0 /\ q.ly = 0 => q.ly < p.ly
<1> DEFINE q == Lcd!Moved(p, c)
           done == IF Lcd!LineDone(p, c) THEN {p.ly} ELSE {}
           e == Lcd!Mode3End(p, p.ly)
           counted == [l \in Lcd!DrawnLines |-> count[l] + IF l \in done THEN 1 ELSE 0]
<1>1. /\ p.dots + c =< LineDots
      /\ p.ly < VisibleLines /\ p.dots < e => p.dots + c =< e
      /\ Lcd!LineDone(p, c) <=> p.ly < VisibleLines /\ p.dots < e /\ p.dots + c >= e
  BY ChunkStays
<1>2. /\ q \in Ppus /\ Fits(q) /\ q.on = p.on /\ q.geo = p.geo
      /\ \/ /\ q.dots = p.dots + c /\ q.ly = p.ly /\ q.penalty = p.penalty
            /\ p.dots + c < LineDots
         \/ /\ p.dots + c = LineDots /\ q.dots = 0
            /\ (p.ly + 1 < TotalLines /\ q.ly = p.ly + 1) \/ (p.ly + 1 = TotalLines /\ q.ly = 0)
  BY <1>1, MovedShape
<1>3. /\ p.dots \in 0 .. LineDots - 1 /\ p.ly \in 0 .. TotalLines - 1
      /\ e \in Nat /\ SearchDots < e /\ e < LineDots
  <2>1. p.dots \in 0 .. LineDots - 1 /\ p.ly \in 0 .. TotalLines - 1 /\ p.ly \in Nat
    BY Sizes DEF Ppus
  <2> HIDE DEF q, done, counted
  <2> QED
    BY <2>1, EndOfTransfer
<1>4. \A l \in Lcd!DrawnLines :
        Lcd!Mode3End(q, l) \in Nat /\ 0 < Lcd!Mode3End(q, l) /\ l \in Nat
  <2> HIDE DEF q, done, e, counted
  <2> QED
    BY <1>2, Sizes, EndOfTransfer
<1>5. q.penalty = p.penalty => Lcd!Mode3End(q, p.ly) = e
  BY <1>2 DEF Lcd!Mode3End, Lcd!WindowVisible
<1>6. \A l \in Lcd!DrawnLines \ except :
        count[l] = IF l < p.ly \/ (l = p.ly /\ p.dots >= e) THEN 1 ELSE 0
  BY DEF Counted, Through
<1>7. \A l \in Lcd!DrawnLines : l \in Nat /\ l < VisibleLines
  BY Sizes DEF Lcd!DrawnLines
<1>8. \A l \in Lcd!DrawnLines :
        counted[l] = IF Lcd!LineDone(p, c) /\ l = p.ly THEN count[l] + 1 ELSE count[l]
  <2> HIDE DEF Lcd!DrawnLines
  <2> QED
    OBVIOUS
<1> HIDE DEF q, e, done, counted
<1> HIDE DEF Lcd!DrawnLines
<1>9. ASSUME q.ly >= p.ly PROVE Counted(q, counted, except)
  <2> SUFFICES ASSUME NEW l \in Lcd!DrawnLines \ except
               PROVE  counted[l] = IF Through(q, l) THEN 1 ELSE 0
    BY DEF Counted
  <2>1. /\ count[l] = IF l < p.ly \/ (l = p.ly /\ p.dots >= e) THEN 1 ELSE 0
        /\ counted[l] = IF Lcd!LineDone(p, c) /\ l = p.ly THEN count[l] + 1 ELSE count[l]
        /\ l \in Nat /\ l < VisibleLines
    BY <1>6, <1>7, <1>8
  <2>2. CASE q.dots = p.dots + c /\ q.ly = p.ly /\ q.penalty = p.penalty
    <3>1. Through(q, l) <=> l < p.ly \/ (l = p.ly /\ p.dots + c >= e)
      BY <1>5, <2>2 DEF Through
    <3> QED
      BY <1>1, <1>3, <2>1, <3>1
  <2>3. CASE p.dots + c = LineDots /\ q.dots = 0 /\ q.ly = p.ly + 1
    <3>1. Through(q, l) <=> l < p.ly + 1
      BY <1>4, <2>3 DEF Through
    <3>2. p.ly < VisibleLines => ~ (p.dots < e)
      BY <1>1, <1>3, <2>3, Sizes
    <3> QED
      BY <1>1, <1>3, <2>1, <3>1, <3>2, Sizes
  <2> QED
    BY <1>2, <1>3, <1>9, <2>2, <2>3, Sizes
<1>10. ASSUME q.ly < p.ly
       PROVE  /\ Counted(q, [l \in Lcd!DrawnLines |-> 0], {})
              /\ \A l \in Lcd!DrawnLines \ except : count[l] = 1
  <2>1. q.dots = 0 /\ q.ly = 0 /\ p.ly + 1 = TotalLines
    BY <1>2, <1>3, <1>10, Sizes
  <2>2. \A l \in Lcd!DrawnLines : ~ Through(q, l)
    BY <1>4, <2>1 DEF Through
  <2>3. \A l \in Lcd!DrawnLines \ except : count[l] = 1
    BY <1>3, <1>6, <1>7, <2>1, Sizes
  <2> QED
    BY <2>2, <2>3 DEF Counted
<1>11. p.ly > 0 /\ q.ly = 0 => q.ly < p.ly
  OBVIOUS
<1> QED
  BY <1>9, <1>10, <1>11 DEF q, counted, done

(* The machine's clock keeps the counts and the latch, whose rise it tells. *)
LEMMA AdvanceStep ==
  ASSUME LcdInv, NEW c \in 1 .. LineDots, Lcd!Advance(c)
  PROVE  /\ LcdInv'
         /\ ~ stale => (raised' <=> ~ Lcd!Selected(ppu) /\ Lcd!Selected(ppu'))
         /\ ppu.ly > 0 /\ ppu'.ly = 0 /\ ppu.on /\ ppu'.on =>
               \A l \in Lcd!DrawnLines \ moved : drawn[l] = 1
<1> DEFINE p == IF Lcd!AtLineStart(ppu) THEN Lcd!Latched(ppu, oam) ELSE ppu
           r == Lcd!Pass(p, c)
<1>0. /\ ppu \in Ppus /\ Fits(ppu) /\ Counted(ppu, drawn, moved)
      /\ oam \in OamContents /\ OamContents # {} /\ dmg \in BOOLEAN
      /\ drawn \in [Lcd!DrawnLines -> Nat] /\ moved \subseteq Lcd!DrawnLines
      /\ c \in Nat \ {0}
  BY Sizes DEF LcdInv, Lcd!TypeOK, Ppus
<1>1. /\ p \in Ppus /\ Fits(p) /\ Counted(p, drawn, moved)
      /\ p.on = ppu.on /\ p.ly = ppu.ly /\ p.line = ppu.line
      /\ Lcd!Selected(p) = Lcd!Selected(ppu) /\ Lcd!Boundary(p) = Lcd!Boundary(ppu)
  <2>1. CASE Lcd!AtLineStart(ppu)
    <3>1. p = Lcd!Latched(ppu, oam)
      BY <2>1
    <3> HIDE DEF p
    <3> QED
      BY <1>0, <2>1, <3>1, LatchedShape, LatchedAtStart
  <2>2. CASE ~ Lcd!AtLineStart(ppu)
    BY <1>0, <2>2
  <2> QED
    BY <2>1, <2>2
<1>2. /\ ppu' = r.ppu /\ raised' = r.stat /\ stale' = FALSE
      /\ oam' = oam /\ dmg' = dmg
      /\ c =< Lcd!Boundary(ppu) \/ ~ ppu.on
      /\ IF r.frame THEN drawn' = [l \in Lcd!DrawnLines |-> 0] /\ moved' = {}
         ELSE /\ drawn' = [l \in Lcd!DrawnLines |-> drawn[l] + IF l \in r.drawn THEN 1 ELSE 0]
              /\ moved' = moved
  BY DEF Lcd!Advance
<1> HIDE DEF p
<1>3. CASE p.on
  <2> DEFINE q == Lcd!Moved(p, c)
             done == IF Lcd!LineDone(p, c) THEN {p.ly} ELSE {}
  <2>1. /\ r.ppu = Lcd!Refreshed(q) /\ r.stat = Lcd!Rises(q)
        /\ (r.frame <=> q.ly < p.ly) /\ r.drawn = done
    BY <1>3 DEF Lcd!Pass
  <2>2. c =< Lcd!Boundary(p) /\ p.dots + c =< LineDots
    BY <1>0, <1>1, <1>2, <1>3, ChunkStays
  <2>3. q \in Ppus /\ Fits(q) /\ q.line = p.line /\ q.on = p.on
    BY <1>0, <1>1, <2>2, MovedShape
  <2>4. /\ q.ly >= p.ly =>
             Counted(q, [l \in Lcd!DrawnLines |-> drawn[l] + IF l \in done THEN 1 ELSE 0], moved)
        /\ q.ly < p.ly =>
             /\ Counted(q, [l \in Lcd!DrawnLines |-> 0], {})
             /\ \A l \in Lcd!DrawnLines \ moved : drawn[l] = 1
        /\ p.ly > 0 /\ q.ly = 0 => q.ly < p.ly
    BY <1>0, <1>1, <1>3, <2>2, ChunkDraws
  <2> HIDE DEF q, done
  <2> HIDE DEF Lcd!DrawnLines, r
  <2>5. /\ ppu' \in Ppus /\ Fits(ppu') /\ ppu'.on = p.on /\ ppu'.ly = q.ly
        /\ ppu'.line = Lcd!Selected(ppu') /\ Lcd!Selected(ppu') = Lcd!Selected(q)
    BY <1>2, <2>1, <2>3, SelectedShape, RefreshedFields
  <2>6. Counted(ppu', drawn', moved')
    <3>1. CASE q.ly < p.ly
      <4>1. /\ drawn' = [l \in Lcd!DrawnLines |-> 0] /\ moved' = {}
            /\ Counted(q, [l \in Lcd!DrawnLines |-> 0], {})
        BY <1>2, <2>1, <2>4, <3>1
      <4>2. Counted(q, drawn', moved')
        BY <4>1
      <4> QED
        BY <1>2, <2>1, <2>3, <4>2, RefreshedFields
    <3>2. CASE ~ (q.ly < p.ly)
      <4>1. q.ly >= p.ly
        BY <1>1, <2>3, <3>2, Sizes DEF Ppus
      <4>2. Counted(ppu', drawn', moved')
        <5>1. /\ moved' = moved
              /\ drawn' = [l \in Lcd!DrawnLines |-> drawn[l] + IF l \in done THEN 1 ELSE 0]
              /\ Counted(q, [l \in Lcd!DrawnLines |-> drawn[l] + IF l \in done THEN 1 ELSE 0], moved)
          BY <1>2, <2>1, <2>4, <3>2, <4>1
        <5>2. Counted(q, drawn', moved')
          BY <5>1
        <5> QED
          BY <1>2, <2>1, <2>3, <5>2, RefreshedFields
      <4> QED
        BY <4>2
    <3> QED
      BY <3>1, <3>2
  <2>7. drawn' \in [Lcd!DrawnLines -> Nat] /\ moved' \subseteq Lcd!DrawnLines
    BY <1>0, <1>2
  <2>8. (raised' <=> ~ p.line /\ Lcd!Selected(q)) /\ raised' \in BOOLEAN
    <3>1. raised' = Lcd!Rises(q)
      BY <1>2, <2>1
    <3>2. (Lcd!Rises(q) <=> ~ p.line /\ Lcd!Selected(q)) /\ Lcd!Rises(q) \in BOOLEAN
      BY <2>3 DEF Lcd!Rises
    <3> QED
      BY <3>1, <3>2
  <2>9. LcdInv'
    BY <1>0, <1>2, <2>5, <2>6, <2>7, <2>8 DEF LcdInv, Lcd!TypeOK, Ppus
  <2>10. ~ stale => (raised' <=> ~ Lcd!Selected(ppu) /\ Lcd!Selected(ppu'))
    <3>1. ~ stale => ppu.line = Lcd!Selected(ppu)
      BY DEF LcdInv
    <3> QED
      BY <1>1, <2>5, <2>8, <3>1
  <2> QED
    BY <1>1, <2>4, <2>5, <2>9, <2>10
<1>4. CASE ~ p.on
  <2> DEFINE q == [p EXCEPT !.ly = 0, !.dots = 0]
  <2>1. r.ppu = Lcd!Refreshed(q) /\ r.stat = Lcd!Rises(q) /\ r.frame = FALSE /\ r.drawn = {}
    BY <1>4 DEF Lcd!Pass
  <2>2. q \in Ppus /\ q.on = p.on /\ q.penalty = p.penalty
    <3>1. 0 \in 0 .. TotalLines - 1 /\ 0 \in 0 .. LineDots - 1
      BY <1>1, Sizes DEF Ppus
    <3> QED
      BY <1>1, <3>1 DEF Ppus
  <2>3. Fits(q)
    BY <1>1, <2>2 DEF Fits
  <2>4. ~ Lcd!Selected(q) /\ ~ Lcd!Selected(ppu)
    BY <1>0, <1>1, <1>4, <2>2, SelectedShape
  <2> HIDE DEF q
  <2> HIDE DEF Lcd!DrawnLines, r
  <2>5. /\ ppu' \in Ppus /\ Fits(ppu') /\ ppu'.on = p.on
        /\ ppu'.line = Lcd!Selected(ppu') /\ Lcd!Selected(ppu') = Lcd!Selected(q)
    BY <1>2, <2>1, <2>2, <2>3, SelectedShape, RefreshedFields
  <2>6. raised' = FALSE
    <3>1. raised' = Lcd!Rises(q)
      BY <1>2, <2>1
    <3>2. Lcd!Rises(q) = FALSE
      BY <2>4 DEF Lcd!Rises
    <3> QED
      BY <3>1, <3>2
  <2>7. drawn' \in [Lcd!DrawnLines -> Nat] /\ moved' \subseteq Lcd!DrawnLines
    BY <1>0, <1>2, <2>1
  <2>8. Counted(ppu', drawn', moved')
    BY <1>4, <2>5 DEF Counted
  <2>9. LcdInv'
    BY <1>0, <1>2, <2>5, <2>6, <2>7, <2>8 DEF LcdInv, Lcd!TypeOK, Ppus
  <2> QED
    BY <1>1, <1>4, <2>4, <2>5, <2>6, <2>9
<1> QED
  BY <1>3, <1>4

(* A write that refreshes the latch tells its rise. *)
LEMMA RefreshStep ==
  ASSUME LcdInv, NEW p \in Ppus, Fits(p), p.line = ppu.line, ppu' = Lcd!Refreshed(p),
         Counted(p, drawn', moved'), drawn' \in [Lcd!DrawnLines -> Nat],
         moved' \subseteq Lcd!DrawnLines, oam' = oam, dmg' = dmg, raised' \in BOOLEAN,
         stale' \in BOOLEAN
  PROVE  /\ LcdInv' /\ ppu'.ly = p.ly /\ ppu'.on = p.on /\ ppu'.stat = p.stat
         /\ (raised' <=> Lcd!Rises(p)) /\ ~ stale =>
               (raised' <=> ~ Lcd!Selected(ppu) /\ Lcd!Selected(ppu'))
<1>1. /\ ppu' \in Ppus /\ Fits(ppu') /\ Counted(ppu', drawn', moved')
      /\ ppu'.line = Lcd!Selected(ppu') /\ Lcd!Selected(ppu') = Lcd!Selected(p)
      /\ ppu'.ly = p.ly /\ ppu'.on = p.on /\ ppu'.stat = p.stat
  <2> HIDE DEF Lcd!DrawnLines
  <2> QED
    BY SelectedShape, RefreshedFields
<1>2. oam \in OamContents /\ dmg \in BOOLEAN /\ (~ stale => ppu.line = Lcd!Selected(ppu))
  BY DEF LcdInv, Lcd!TypeOK
<1>3. LcdInv'
  BY <1>1, <1>2 DEF LcdInv, Lcd!TypeOK, Ppus
<1> QED
  BY <1>1, <1>2, <1>3 DEF Lcd!Rises

(* Before mode 3 a line's geometry may change: it has not been drawn yet. *)
LEMMA UndisturbedCounts ==
  ASSUME LcdInv, NEW q \in Ppus, Fits(q), q.on = ppu.on, q.ly = ppu.ly, q.dots = ppu.dots
  PROVE  Counted(q, drawn, moved \cup Lcd!Disturbed)
<1>1. /\ ppu \in Ppus /\ Fits(ppu) /\ Counted(ppu, drawn, moved) /\ OamContents # {}
  BY DEF LcdInv, Lcd!TypeOK, Ppus
<1>2. SUFFICES ASSUME ppu.on, NEW l \in Lcd!DrawnLines \ (moved \cup Lcd!Disturbed)
               PROVE  Through(q, l) <=> Through(ppu, l)
  BY <1>1 DEF Counted
<1>3. /\ l \in Nat /\ l < VisibleLines /\ ppu.dots \in Nat
  BY <1>1, Sizes DEF Lcd!DrawnLines, Ppus
<1>4. /\ Lcd!Mode3End(q, l) \in Nat /\ SearchDots < Lcd!Mode3End(q, l)
      /\ Lcd!Mode3End(ppu, l) \in Nat /\ SearchDots < Lcd!Mode3End(ppu, l)
  BY <1>1, <1>3, EndOfTransfer
<1>5. l = ppu.ly => ppu.dots < SearchDots
  BY <1>2, <1>3, Sizes DEF Lcd!Disturbed
<1> QED
  BY <1>3, <1>4, <1>5, Sizes DEF Through

LEMMA DisturbedLines == Lcd!TypeOK => Lcd!Disturbed \subseteq Lcd!DrawnLines
  BY Sizes DEF Lcd!TypeOK, Lcd!Disturbed, Lcd!DrawnLines

LEMMA WriteLcdcStep ==
  ASSUME LcdInv, NEW on \in BOOLEAN, NEW bg \in BOOLEAN, NEW win \in BOOLEAN,
         Lcd!WriteLcdc(on, bg, win)
  PROVE  /\ LcdInv' /\ ~ (ppu.ly > 0 /\ ppu'.ly = 0 /\ ppu.on /\ ppu'.on)
         /\ ~ stale => (raised' <=> ~ Lcd!Selected(ppu) /\ Lcd!Selected(ppu'))
<1> DEFINE g == [ppu.geo EXCEPT !.bg = bg, !.win = win]
           q == [ppu EXCEPT !.on = on, !.geo.bg = bg, !.geo.win = win]
           p == IF on = ppu.on THEN q ELSE [q EXCEPT !.ly = 0, !.dots = 0, !.penalty = 0]
<1>0. /\ ppu \in Ppus /\ Fits(ppu) /\ OamContents # {} /\ Lcd!TypeOK
      /\ drawn \in [Lcd!DrawnLines -> Nat] /\ moved \subseteq Lcd!DrawnLines
      /\ Lcd!Disturbed \subseteq Lcd!DrawnLines
  BY DisturbedLines DEF LcdInv, Lcd!TypeOK, Ppus
<1>1. /\ p.geo \in Geometries
      /\ ppu' = Lcd!Refreshed(p) /\ raised' = Lcd!Rises(p) /\ stale' = FALSE
      /\ IF on = ppu.on
         THEN moved' = moved \cup Lcd!Disturbed /\ drawn' = drawn
         ELSE moved' = {} /\ drawn' = [l \in Lcd!DrawnLines |-> 0]
      /\ oam' = oam /\ dmg' = dmg
  BY DEF Lcd!WriteLcdc
<1>2. q = [ppu EXCEPT !.on = on, !.geo = g]
  BY <1>0 DEF Ppus
<1> HIDE DEF g
<1>3. p \in Ppus /\ p.line = ppu.line /\ p.on = on
      /\ IF on = ppu.on THEN p.ly = ppu.ly /\ p.dots = ppu.dots /\ p.penalty = ppu.penalty
         ELSE p.ly = 0 /\ p.dots = 0 /\ p.penalty = 0
  <2> HIDE DEF q
  <2>1. 0 \in 0 .. TotalLines - 1 /\ 0 \in 0 .. LineDots - 1
    BY <1>0, Sizes DEF Ppus
  <2>2. CASE on = ppu.on
    <3>1. p = [ppu EXCEPT !.on = on, !.geo = g]
      BY <1>2, <2>2
    <3> HIDE DEF p
    <3>2. g \in Geometries
      BY <1>0, <1>1, <3>1 DEF Ppus
    <3> QED
      BY <1>0, <2>2, <3>1, <3>2 DEF Ppus
  <2>3. CASE on # ppu.on
    <3>1. p = [ppu EXCEPT !.on = on, !.geo = g, !.ly = 0, !.dots = 0, !.penalty = 0]
      BY <1>0, <1>2, <2>3 DEF Ppus
    <3> HIDE DEF p
    <3>2. g \in Geometries
      BY <1>0, <1>1, <3>1 DEF Ppus
    <3> QED
      BY <1>0, <2>1, <2>3, <3>1, <3>2 DEF Ppus
  <2> QED
    BY <2>2, <2>3
<1> HIDE DEF p
<1>4. Fits(p)
  BY <1>0, <1>3 DEF Fits
<1>5. Counted(p, drawn', moved')
  <2>1. CASE on = ppu.on
    BY <1>1, <1>3, <1>4, <2>1, UndisturbedCounts
  <2>2. CASE on # ppu.on
    <3>1. \A l \in Lcd!DrawnLines : ~ Through(p, l)
      BY <1>0, <1>3, <1>4, <2>2, EndOfTransfer, Sizes DEF Through
    <3>2. \A l \in Lcd!DrawnLines : drawn'[l] = 0
      BY <1>1, <2>2
    <3> QED
      BY <3>1, <3>2 DEF Counted
  <2> QED
    BY <2>1, <2>2
<1>6. drawn' \in [Lcd!DrawnLines -> Nat] /\ moved' \subseteq Lcd!DrawnLines
  BY <1>0, <1>1
<1>7. raised' \in BOOLEAN /\ (raised' <=> Lcd!Rises(p))
  <2>1. Lcd!Rises(p) \in BOOLEAN
    BY DEF Lcd!Rises
  <2> QED
    BY <1>1, <2>1
<1>8. /\ LcdInv' /\ ppu'.ly = p.ly /\ ppu'.on = p.on
      /\ ~ stale => (raised' <=> ~ Lcd!Selected(ppu) /\ Lcd!Selected(ppu'))
  BY <1>1, <1>3, <1>4, <1>5, <1>6, <1>7, RefreshStep
<1> QED
  BY <1>0, <1>3, <1>8 DEF Ppus

LEMMA GeometryStep ==
  ASSUME LcdInv, NEW g, Lcd!GeometryWritten(g)
  PROVE  LcdInv' /\ stale' /\ ppu'.ly = ppu.ly
<1>0. /\ ppu \in Ppus /\ Fits(ppu) /\ Lcd!Disturbed \subseteq Lcd!DrawnLines /\ Lcd!TypeOK
  BY DisturbedLines DEF LcdInv, Lcd!TypeOK, Ppus
<1>1. /\ g \in Geometries /\ ppu' = [ppu EXCEPT !.geo = g] /\ moved' = moved \cup Lcd!Disturbed
      /\ raised' = FALSE /\ stale' = TRUE /\ UNCHANGED <<oam, dmg, drawn>>
  BY DEF Lcd!GeometryWritten
<1>2. /\ ppu' \in Ppus /\ ppu'.on = ppu.on /\ ppu'.ly = ppu.ly /\ ppu'.dots = ppu.dots
      /\ ppu'.penalty = ppu.penalty
  BY <1>0, <1>1 DEF Ppus
<1>3. Fits(ppu')
  BY <1>0, <1>2 DEF Fits
<1>4. Counted(ppu', drawn, moved \cup Lcd!Disturbed)
  BY <1>2, <1>3, UndisturbedCounts
<1>5. Counted(ppu', drawn', moved')
  BY <1>1, <1>4
<1>6. moved' \subseteq Lcd!DrawnLines
  BY <1>0, <1>1 DEF Lcd!TypeOK
<1> QED
  BY <1>0, <1>1, <1>2, <1>3, <1>5, <1>6 DEF LcdInv, Lcd!TypeOK, Ppus

LEMMA LoadStep ==
  ASSUME LcdInv, Lcd!SaveAndLoad
  PROVE  LcdInv' /\ stale' /\ ppu'.ly = ppu.ly
<1> DEFINE p == [ppu EXCEPT !.penalty = 0]
           q == Lcd!Refreshed(p)
<1>0. /\ ppu \in Ppus /\ Lcd!Disturbed \subseteq Lcd!DrawnLines /\ Lcd!TypeOK
  BY DisturbedLines DEF LcdInv, Lcd!TypeOK, Ppus
<1>1. /\ ppu' = Lcd!Latched(q, oam) /\ moved' = moved \cup Lcd!Disturbed
      /\ raised' = FALSE /\ stale' = TRUE /\ UNCHANGED <<oam, dmg, drawn>>
  BY DEF Lcd!SaveAndLoad
<1>2. p \in Ppus /\ p.on = ppu.on /\ p.ly = ppu.ly /\ p.dots = ppu.dots
  BY <1>0 DEF Ppus
<1> HIDE DEF p
<1>3. q \in Ppus /\ q.on = p.on /\ q.ly = p.ly /\ q.dots = p.dots
  <2>1. q \in Ppus /\ q = [p EXCEPT !.line = Lcd!Selected(p)]
    BY <1>2, SelectedShape
  <2> HIDE DEF q
  <2> QED
    BY <1>2, <2>1 DEF Ppus
<1> HIDE DEF q
<1>4. /\ ppu' \in Ppus /\ Fits(ppu') /\ ppu'.on = ppu.on /\ ppu'.ly = ppu.ly
      /\ ppu'.dots = ppu.dots
  BY <1>0, <1>1, <1>2, <1>3, LatchedShape DEF Lcd!TypeOK
<1>5. Counted(ppu', drawn, moved \cup Lcd!Disturbed)
  BY <1>4, UndisturbedCounts
<1>6. Counted(ppu', drawn', moved')
  BY <1>1, <1>5
<1>7. moved' \subseteq Lcd!DrawnLines
  BY <1>0, <1>1 DEF Lcd!TypeOK
<1> QED
  BY <1>0, <1>1, <1>4, <1>6, <1>7 DEF LcdInv, Lcd!TypeOK, Ppus

(* STAT and LYC: the position stays, the latch is refreshed. *)
LEMMA SelectionStep ==
  ASSUME LcdInv, NEW p \in Ppus, p.on = ppu.on, p.geo = ppu.geo, p.ly = ppu.ly,
         p.dots = ppu.dots, p.penalty = ppu.penalty, p.line = ppu.line,
         ppu' = Lcd!Refreshed(p), raised' \in BOOLEAN, stale' = FALSE,
         UNCHANGED <<oam, dmg, drawn, moved>>
  PROVE  /\ LcdInv' /\ ppu'.ly = ppu.ly /\ ppu'.stat = p.stat
         /\ (raised' <=> Lcd!Rises(p)) /\ ~ stale =>
               (raised' <=> ~ Lcd!Selected(ppu) /\ Lcd!Selected(ppu'))
<1>1. \A l : Lcd!Mode3End(p, l) = Lcd!Mode3End(ppu, l)
  BY DEF Lcd!Mode3End, Lcd!WindowVisible
<1>2. Fits(p) /\ Counted(p, drawn, moved)
  BY <1>1 DEF LcdInv, Fits, Counted, Through
<1>3. /\ drawn' = drawn /\ moved' = moved /\ oam' = oam /\ dmg' = dmg
      /\ drawn \in [Lcd!DrawnLines -> Nat] /\ moved \subseteq Lcd!DrawnLines
  BY DEF LcdInv, Lcd!TypeOK
<1> QED
  BY <1>2, <1>3, RefreshStep

LEMMA WriteLycStep ==
  ASSUME LcdInv, NEW n \in 0 .. TotalLines - 1, Lcd!WriteLyc(n)
  PROVE  /\ LcdInv' /\ ppu'.ly = ppu.ly
         /\ ~ stale => (raised' <=> ~ Lcd!Selected(ppu) /\ Lcd!Selected(ppu'))
<1> DEFINE p == [ppu EXCEPT !.lyc = n]
<1>1. /\ ppu' = Lcd!Refreshed(p) /\ raised' = Lcd!Rises(p) /\ stale' = FALSE
      /\ UNCHANGED <<oam, dmg, drawn, moved>>
  BY DEF Lcd!WriteLyc, Lcd!history
<1>2. /\ p \in Ppus /\ p.on = ppu.on /\ p.geo = ppu.geo /\ p.ly = ppu.ly
      /\ p.dots = ppu.dots /\ p.penalty = ppu.penalty /\ p.line = ppu.line
  BY DEF LcdInv, Lcd!TypeOK, Ppus
<1> HIDE DEF p
<1>3. raised' \in BOOLEAN /\ (raised' <=> Lcd!Rises(p))
  <2>1. Lcd!Rises(p) \in BOOLEAN
    BY DEF Lcd!Rises
  <2> QED
    BY <1>1, <2>1
<1> QED
  BY <1>1, <1>2, <1>3, SelectionStep

LEMMA WriteStatStep ==
  ASSUME LcdInv, NEW sel \in Enables, Lcd!WriteStat(sel)
  PROVE  /\ LcdInv' /\ ppu'.ly = ppu.ly
         /\ ~ stale /\ ~ (Lcd!Spurious /\ ppu'.stat # ppu.stat) =>
              \/ raised' <=> ~ Lcd!Selected(ppu) /\ Lcd!Selected(ppu')
              \/ UNCHANGED <<ppu, oam, stale>>
<1> DEFINE p == [ppu EXCEPT !.stat = sel]
<1>1. /\ ppu' = Lcd!Refreshed(p) /\ raised' = (Lcd!Spurious \/ Lcd!Rises(p)) /\ stale' = FALSE
      /\ UNCHANGED <<oam, dmg, drawn, moved>>
  BY DEF Lcd!WriteStat, Lcd!history
<1>2. /\ p \in Ppus /\ p.on = ppu.on /\ p.geo = ppu.geo /\ p.ly = ppu.ly
      /\ p.dots = ppu.dots /\ p.penalty = ppu.penalty /\ p.line = ppu.line
      /\ p.stat = sel
  BY Sizes DEF LcdInv, Lcd!TypeOK, Ppus
<1>3. sel = ppu.stat => p = ppu
  BY DEF LcdInv, Lcd!TypeOK
<1>4. ppu \in Ppus /\ (~ stale => ppu.line = Lcd!Selected(ppu)) /\ stale \in BOOLEAN
  BY DEF LcdInv, Lcd!TypeOK, Ppus
<1> HIDE DEF p
<1>5. raised' \in BOOLEAN /\ (raised' <=> Lcd!Spurious \/ Lcd!Rises(p))
  <2>1. (Lcd!Spurious \/ Lcd!Rises(p)) \in BOOLEAN
    OBVIOUS
  <2> QED
    BY <1>1, <2>1
<1>6. /\ LcdInv' /\ ppu'.ly = ppu.ly /\ ppu'.stat = sel
      /\ (raised' <=> Lcd!Rises(p)) /\ ~ stale =>
            (raised' <=> ~ Lcd!Selected(ppu) /\ Lcd!Selected(ppu'))
  BY <1>1, <1>2, <1>5, SelectionStep
<1>7. ASSUME ~ stale, sel = ppu.stat PROVE UNCHANGED <<ppu, oam, stale>>
  <2>1. ppu' = [ppu EXCEPT !.line = Lcd!Selected(ppu)]
    BY <1>1, <1>3, <1>4, <1>7, SelectedShape
  <2>2. ppu' = [ppu EXCEPT !.line = ppu.line]
    BY <1>4, <1>7, <2>1
  <2>3. [ppu EXCEPT !.line = ppu.line] = ppu
    BY <1>4 DEF Ppus
  <2> QED
    BY <1>1, <1>4, <1>7, <2>2, <2>3
<1> QED
  BY <1>5, <1>6, <1>7

LEMMA WriteOamStep ==
  ASSUME LcdInv, NEW o \in OamContents, Lcd!WriteOam(o)
  PROVE  LcdInv' /\ ppu' = ppu /\ raised' = FALSE /\ stale' = stale
<1>1. /\ oam' = o /\ raised' = FALSE /\ ppu' = ppu
      /\ UNCHANGED <<dmg, stale, drawn, moved>>
  BY DEF Lcd!WriteOam, Lcd!history
<1>2. Fits(ppu') /\ Counted(ppu', drawn', moved') /\ (~ stale' => ppu'.line = Lcd!Selected(ppu'))
  BY <1>1 DEF LcdInv
<1> QED
  BY <1>1, <1>2 DEF LcdInv, Lcd!TypeOK

(* What a step of the display keeps and what it tells. *)
RiseTold ==
  ~ stale /\ ~ stale' /\ ~ (Lcd!Spurious /\ ppu'.stat # ppu.stat) =>
    (raised' <=> ~ Lcd!Selected(ppu) /\ Lcd!Selected(ppu'))

FrameTold ==
  ppu.ly > 0 /\ ppu'.ly = 0 /\ ppu.on /\ ppu'.on =>
    \A l \in Lcd!DrawnLines \ moved : drawn[l] = 1

LEMMA LcdStep ==
  ASSUME LcdInv, Lcd!Next
  PROVE  LcdInv' /\ FrameTold /\ (RiseTold \/ UNCHANGED <<ppu, oam, stale>>)
<1>0. \/ \E on, bg, win \in BOOLEAN : Lcd!WriteLcdc(on, bg, win)
      \/ \E g : Lcd!GeometryWritten(g)
      \/ \E sel \in Enables : Lcd!WriteStat(sel)
      \/ \E n \in 0 .. TotalLines - 1 : Lcd!WriteLyc(n)
      \/ \E o \in OamContents : Lcd!WriteOam(o)
      \/ Lcd!SaveAndLoad
      \/ \E c \in 1 .. LineDots : Lcd!Advance(c)
  BY DEF Lcd!Next, Lcd!Program, Lcd!WriteScx, Lcd!WriteWx, Lcd!WriteWy
<1>1. CASE \E on, bg, win \in BOOLEAN : Lcd!WriteLcdc(on, bg, win)
  BY <1>1, WriteLcdcStep DEF FrameTold, RiseTold
<1>2. CASE \E g : Lcd!GeometryWritten(g)
  <2>1. LcdInv' /\ stale' /\ ppu'.ly = ppu.ly
    BY <1>2, GeometryStep
  <2> QED
    BY <2>1 DEF FrameTold, RiseTold
<1>3. CASE \E sel \in Enables : Lcd!WriteStat(sel)
  <2>1. PICK sel \in Enables : Lcd!WriteStat(sel)
    BY <1>3
  <2> QED
    BY <2>1, WriteStatStep DEF FrameTold, RiseTold
<1>4. CASE \E n \in 0 .. TotalLines - 1 : Lcd!WriteLyc(n)
  BY <1>4, WriteLycStep DEF FrameTold, RiseTold
<1>5. CASE \E o \in OamContents : Lcd!WriteOam(o)
  <2>1. LcdInv' /\ ppu' = ppu /\ raised' = FALSE
    BY <1>5, WriteOamStep
  <2>2. Lcd!Selected(ppu') = Lcd!Selected(ppu)
    BY <2>1
  <2> QED
    BY <2>1, <2>2 DEF FrameTold, RiseTold
<1>6. CASE Lcd!SaveAndLoad
  BY <1>6, LoadStep DEF FrameTold, RiseTold
<1>7. CASE \E c \in 1 .. LineDots : Lcd!Advance(c)
  BY <1>7, AdvanceStep DEF FrameTold, RiseTold
<1> QED
  BY <1>0, <1>1, <1>2, <1>3, <1>4, <1>5, <1>6, <1>7

LEMMA LcdStutter == LcdInv /\ UNCHANGED Lcd!vars => LcdInv'
<1> SUFFICES ASSUME LcdInv, UNCHANGED Lcd!vars PROVE LcdInv'
  OBVIOUS
<1>1. /\ ppu' = ppu /\ oam' = oam /\ dmg' = dmg /\ raised' = raised /\ stale' = stale
      /\ drawn' = drawn /\ moved' = moved
  BY DEF Lcd!vars
<1>2. Fits(ppu') /\ Counted(ppu', drawn', moved') /\ (~ stale' => ppu'.line = Lcd!Selected(ppu'))
  BY <1>1 DEF LcdInv
<1> QED
  BY <1>1, <1>2 DEF LcdInv, Lcd!TypeOK

LEMMA DisplayInvariant == Lcd!Spec => [](LcdInv)
<1>1. LcdInv /\ [Lcd!Next]_(Lcd!vars) => LcdInv'
  BY LcdStep, LcdStutter
<1> QED
  BY LcdInit, <1>1, PTL DEF Lcd!Spec

LEMMA DisplayTells == Lcd!Spec => Lcd!RequestIsRise /\ Lcd!EveryLineDrawnOnce
<1>1. LcdInv /\ [Lcd!Next]_(Lcd!vars) =>
        [~ stale /\ ~ stale' /\ ~ (Lcd!Spurious /\ ppu'.stat # ppu.stat) =>
           (raised' <=> ~ Lcd!Selected(ppu) /\ Lcd!Selected(ppu'))]_<<ppu, oam, stale>>
  BY LcdStep DEF RiseTold, Lcd!vars
<1>2. LcdInv /\ [Lcd!Next]_(Lcd!vars) =>
        [ppu.ly > 0 /\ ppu'.ly = 0 /\ ppu.on /\ ppu'.on =>
           \A l \in Lcd!DrawnLines \ moved : drawn[l] = 1]_(Lcd!vars)
  BY LcdStep DEF FrameTold
<1> QED
  BY DisplayInvariant, <1>1, <1>2, PTL DEF Lcd!Spec, Lcd!RequestIsRise, Lcd!EveryLineDrawnOnce

LEMMA DisplayRuns == MCSpec => Lcd!Spec
<1>1. MCInit => Lcd!Init
  BY DEF MCInit
<1>2. [MCNext]_allVars => [Lcd!Next]_(Lcd!vars)
  BY DEF MCNext, allVars, CpuNext, DisplayNext, BusNext, ppuVars, Lcd!vars
<1> QED
  BY <1>1, <1>2, PTL DEF MCSpec, Lcd!Spec

(* The four sources of STAT share one line and only its rise is a request,   *)
(* across mode changes, LCD switches and writes to STAT and LYC: whatever    *)
(* writes leave the latch behind, the next refresh catches up (ppu/mod.rs,   *)
(* refresh_stat_interrupt_line).                                             *)
THEOREM StatInterrupts == MCSpec => RequestIsRise
  BY DisplayRuns, DisplayTells, PTL DEF RequestIsRise

(* A frame draws every visible line once, whatever the program writes, but   *)
(* for a line whose geometry changes while it is drawn (ppu/mod.rs, tick).   *)
THEOREM FramesDrawEveryLine == MCSpec => EveryLineDrawnOnce
  BY DisplayRuns, DisplayTells, PTL DEF EveryLineDrawnOnce

-----------------------------------------------------------------------------
(* Time in pieces: Ppu::tick, its twin, and a dot at a time. *)

(* Displays whose sprites are some line's, and how far a tick has come.       *)
Places == {p \in Ppus : Fits(p)}
Current(p) == p.line = Lcd!Selected(p)
Progress == [ppu : Places, left : Nat, stat : BOOLEAN, vblank : BOOLEAN, frame : BOOLEAN,
             drawn : SUBSET Lcd!DrawnLines]

LEMMA ChunkFits ==
  ASSUME NEW p \in Places, NEW left \in Nat \ {0}
  PROVE  /\ Lcd!Boundary(p) \in Nat \ {0}
         /\ Lcd!Chunk(p, left) \in Nat \ {0} /\ Lcd!Chunk(p, left) =< left
         /\ p.on => Lcd!Chunk(p, left) =< Lcd!Boundary(p)
<1> DEFINE b == CASE Lcd!Mode(p) = "search" -> SearchDots - p.dots
                  [] Lcd!Mode(p) = "transfer" -> Lcd!Mode3End(p, p.ly) - p.dots
                  [] OTHER -> LineDots - p.dots
<1>1. p.dots \in Nat /\ p.penalty \in Nat /\ p.geo.fine \in Nat /\ p.on \in BOOLEAN
  BY LcdAssumption DEF Places, Ppus, Lcd!PpuParameters, Lcd!DisplaySizes
<1>2. Lcd!Mode3End(p, p.ly) \in Int
  BY <1>1, Sizes DEF Lcd!Mode3End
<1>3. b \in Int
  <2>1. PICK e \in Int : e = Lcd!Mode3End(p, p.ly)
    BY <1>2
  <2>2. /\ Lcd!Mode(p) = "search" => b = SearchDots - p.dots
        /\ Lcd!Mode(p) = "transfer" => b = e - p.dots
        /\ Lcd!Mode(p) # "search" /\ Lcd!Mode(p) # "transfer" => b = LineDots - p.dots
    BY <2>1
  <2> HIDE DEF b
  <2> QED
    BY <1>1, <2>1, <2>2, Sizes
<1>4. Lcd!Boundary(p) = IF 1 >= b THEN 1 ELSE b
  BY DEF Lcd!Boundary, Lcd!AtLeast
<1> HIDE DEF b
<1>5. Lcd!Boundary(p) \in Nat \ {0}
  BY <1>3, <1>4
<1>6. Lcd!Chunk(p, left) = IF p.on THEN (IF left =< Lcd!Boundary(p) THEN left ELSE Lcd!Boundary(p))
                                   ELSE left
  BY DEF Lcd!Chunk, Lcd!AtMost
<1> QED
  BY <1>1, <1>5, <1>6

(* A pass of the loop, in either twin: the coincidence that changes first     *)
(* refreshes the latch, and nothing is left for the second refresh to raise.  *)
LEMMA PassShape ==
  ASSUME OamContents # {}, NEW p \in Places, NEW c \in Nat \ {0}, p.on => c =< Lcd!Boundary(p)
  PROVE  LET r == Lcd!Pass(p, c)
         IN /\ r.ppu \in Places /\ Current(r.ppu) /\ r.ppu.on = p.on
            /\ r.stat \in BOOLEAN /\ r.vblank \in BOOLEAN /\ r.frame \in BOOLEAN
            /\ r.drawn \in SUBSET Lcd!DrawnLines
            /\ Lcd!FastPass(p, c) = r
<1> DEFINE r == Lcd!Pass(p, c)
<1>0. p \in Ppus /\ Fits(p) /\ p.on \in BOOLEAN /\ p.ly \in 0 .. TotalLines - 1
  BY DEF Places, Ppus
<1>1. CASE p.on
  <2> DEFINE q == Lcd!Moved(p, c)
             done == IF Lcd!LineDone(p, c) THEN {p.ly} ELSE {}
             h == Lcd!Mode(p) # "hblank" /\ Lcd!Mode(q) = "hblank"
             v == q.ly # p.ly /\ q.ly = VisibleLines
             f == q.ly < p.ly
  <2>1. r = [ppu |-> Lcd!Refreshed(q), stat |-> Lcd!Rises(q), vblank |-> v, frame |-> f,
             drawn |-> done, hblank |-> h]
    BY <1>1 DEF Lcd!Pass
  <2>2. p.dots + c =< LineDots
    BY <1>0, <1>1, ChunkStays
  <2>3. q \in Ppus /\ Fits(q) /\ q.on = p.on
    BY <1>0, <2>2, MovedShape
  <2>4. done \in SUBSET Lcd!DrawnLines
    BY <1>0, <1>1, Sizes, ChunkStays DEF Lcd!DrawnLines
  <2>5. v \in BOOLEAN /\ f \in BOOLEAN
    OBVIOUS
  <2>6. /\ Lcd!Refreshed(q) \in Places /\ Current(Lcd!Refreshed(q)) /\ Lcd!Refreshed(q).on = p.on
        /\ Lcd!Selected(Lcd!Refreshed(q)) = Lcd!Selected(q)
        /\ Lcd!Refreshed(q).line = Lcd!Selected(q)
    <3> HIDE DEF q
    <3> QED
      BY <2>3, SelectedShape, RefreshedFields DEF Places, Current
  <2>7. Lcd!Rises(q) \in BOOLEAN /\ Lcd!Rises(Lcd!Refreshed(q)) = FALSE
    <3> HIDE DEF q
    <3> QED
      BY <2>6 DEF Lcd!Rises
  <2>8. Lcd!FastPass(p, c) = r
    <3> DEFINE changed == (p.ly = p.lyc) # (q.ly = q.lyc)
               fast == [r EXCEPT !.stat = Lcd!Rises(q) \/ Lcd!Rises(Lcd!Refreshed(q))]
    <3>1. Lcd!FastPass(p, c) = IF changed THEN fast ELSE r
      BY <1>1 DEF Lcd!FastPass
    <3>2. PICK s \in BOOLEAN : s = Lcd!Rises(q)
      BY <2>7
    <3>3. (s \/ Lcd!Rises(Lcd!Refreshed(q))) = s
      BY <2>7, <3>2, Zenon
    <3>4. fast = [r EXCEPT !.stat = s]
      BY <3>2, <3>3, Zenon
    <3>5. [r EXCEPT !.stat = s] = r
      <4>1. r = [ppu |-> Lcd!Refreshed(q), stat |-> s, vblank |-> v, frame |-> f,
                 drawn |-> done, hblank |-> h]
        BY <2>1, <3>2, Zenon
      <4> HIDE DEF r, q, done, h, v, f
      <4> QED
        BY <4>1
    <3> HIDE DEF r, fast, changed
    <3> QED
      BY <3>1, <3>4, <3>5
  <2> HIDE DEF q, done, h, v, f, r
  <2>9. /\ r.ppu = Lcd!Refreshed(q) /\ r.stat = Lcd!Rises(q) /\ r.vblank = v /\ r.frame = f
        /\ r.drawn = done
    BY <2>1
  <2> QED
    BY <2>4, <2>5, <2>6, <2>7, <2>8, <2>9 DEF r
<1>2. CASE ~ p.on
  <2> DEFINE q == [p EXCEPT !.ly = 0, !.dots = 0]
  <2>1. r = [ppu |-> Lcd!Refreshed(q), stat |-> Lcd!Rises(q), vblank |-> FALSE, frame |-> FALSE,
             drawn |-> {}, hblank |-> FALSE]
    BY <1>2 DEF Lcd!Pass
  <2>2. q \in Ppus /\ q.on = p.on /\ q.penalty = p.penalty
    <3>1. 0 \in 0 .. TotalLines - 1 /\ 0 \in 0 .. LineDots - 1
      BY <1>0, Sizes DEF Ppus
    <3> QED
      BY <1>0, <3>1 DEF Ppus
  <2>3. Fits(q)
    BY <1>0, <2>2 DEF Fits
  <2> HIDE DEF q
  <2>4. /\ Lcd!Refreshed(q) \in Places /\ Current(Lcd!Refreshed(q)) /\ Lcd!Refreshed(q).on = p.on
        /\ ~ Lcd!Selected(q)
    BY <1>2, <2>2, <2>3, SelectedShape, RefreshedFields DEF Places, Current
  <2>5. Lcd!Rises(q) = FALSE
    BY <2>4 DEF Lcd!Rises
  <2>6. Lcd!FastPass(p, c) = r
    BY <1>2 DEF Lcd!FastPass
  <2> HIDE DEF r
  <2>7. /\ r.ppu = Lcd!Refreshed(q) /\ r.stat = Lcd!Rises(q) /\ r.vblank = FALSE
        /\ r.frame = FALSE /\ r.drawn = {}
    BY <2>1
  <2> QED
    BY <2>4, <2>5, <2>6, <2>7 DEF r
<1> QED
  BY <1>0, <1>1, <1>2

(* A turn of either loop: it gets on, and both do the same.                   *)
LEMMA TurnShape ==
  ASSUME OamContents # {}, NEW r \in Progress
  PROVE  /\ Lcd!TickTurn(r) \in Progress
         /\ Lcd!FastTurn(r) = Lcd!TickTurn(r)
         /\ r.left = 0 => Lcd!TickTurn(r) = r
         /\ r.left # 0 => /\ Lcd!TickTurn(r).left = r.left - Lcd!Chunk(r.ppu, r.left)
                          /\ Lcd!TickTurn(r).left < r.left
                          /\ Current(Lcd!TickTurn(r).ppu)
<1> DEFINE p == r.ppu
           c == Lcd!Chunk(p, r.left)
           s == Lcd!Pass(p, c)
<1>1. CASE r.left = 0
  BY <1>1 DEF Lcd!TickTurn, Lcd!FastTurn, Lcd!Turn
<1>2. CASE r.left # 0
  <2>1. p \in Places /\ r.left \in Nat \ {0}
    BY <1>2 DEF Progress
  <2>2. c \in Nat \ {0} /\ c =< r.left /\ (p.on => c =< Lcd!Boundary(p))
    BY <2>1, ChunkFits
  <2> HIDE DEF c
  <2>3. /\ s.ppu \in Places /\ Current(s.ppu)
        /\ s.stat \in BOOLEAN /\ s.vblank \in BOOLEAN /\ s.frame \in BOOLEAN
        /\ s.drawn \in SUBSET Lcd!DrawnLines
        /\ Lcd!FastPass(p, c) = s
    BY <2>1, <2>2, PassShape
  <2>4. PICK ppu1, left1, stat1, vblank1, frame1, drawn1 :
          /\ ppu1 = s.ppu /\ left1 = r.left - c /\ stat1 = (r.stat \/ s.stat)
          /\ vblank1 = (r.vblank \/ s.vblank) /\ frame1 = (r.frame \/ s.frame)
          /\ drawn1 = IF s.drawn # {} THEN s.drawn ELSE r.drawn
    OBVIOUS
  <2>5. left1 \in Nat /\ left1 < r.left
    BY <2>1, <2>2, <2>4
  <2>6. stat1 \in BOOLEAN /\ vblank1 \in BOOLEAN /\ frame1 \in BOOLEAN
    BY <2>4, Zenon
  <2>7. drawn1 \in SUBSET Lcd!DrawnLines
    BY <2>3, <2>4 DEF Progress
  <2>8. Lcd!TickTurn(r) = [ppu |-> ppu1, left |-> left1, stat |-> stat1, vblank |-> vblank1,
                           frame |-> frame1, drawn |-> drawn1]
    BY <1>2, <2>4, Zenon DEF Lcd!TickTurn, Lcd!Turn, c
  <2>9. Lcd!FastTurn(r) = Lcd!TickTurn(r)
    BY <2>3, Zenon DEF Lcd!TickTurn, Lcd!FastTurn, c
  <2>10. Lcd!TickTurn(r) \in Progress
    BY <2>3, <2>4, <2>5, <2>6, <2>7, <2>8 DEF Progress
  <2>11. Lcd!TickTurn(r).left = left1 /\ Lcd!TickTurn(r).ppu = ppu1
    BY <2>8
  <2> QED
    BY <1>2, <2>3, <2>4, <2>5, <2>9, <2>10, <2>11 DEF c
<1> QED
  BY <1>1, <1>2

LEMMA StartShape ==
  ASSUME NEW p \in Places, NEW n \in Nat
  PROVE  Lcd!Start(p, n) \in Progress /\ Lcd!Start(p, n).left = n /\ Lcd!Start(p, n).ppu = p
  BY DEF Lcd!Start, Progress

(* The turns of tick and tick_fast.                                            *)
LEMMA TickRuns ==
  ASSUME OamContents # {}, NEW p \in Places, NEW n \in Nat
  PROVE  \E t \in [Nat -> Progress] :
           /\ t[0] = Lcd!Start(p, n)
           /\ \A i \in Nat : t[i + 1] = Lcd!TickTurn(t[i])
           /\ Lcd!Tick(p, n) = t[n] /\ Lcd!TickFast(p, n) = t[n]
<1> DEFINE step == [r \in Progress |-> Lcd!TickTurn(r)]
           s == Lcd!Start(p, n)
<1>1. step \in [Progress -> Progress] /\ s \in Progress
  BY TurnShape, StartShape
<1> HIDE DEF s
<1>2. \A r \in Progress : step[r] = Lcd!TickTurn(r) /\ step[r] = Lcd!FastTurn(r)
  BY TurnShape
<1> HIDE DEF step
<1>3. PICK t \in [Nat -> Progress] : t[0] = s /\ \A i \in Nat : t[i + 1] = step[t[i]]
  <2>1. StatesOf(Progress)
    BY LoopStates
  <2> QED
    BY <1>1, <2>1, Zenon DEF StatesOf
<1>4. \A i \in Nat : t[i + 1] = Lcd!TickTurn(t[i]) /\ t[i + 1] = Lcd!FastTurn(t[i])
  BY <1>2, <1>3
<1>5. \A i \in Nat \ {0} : t[i] = Lcd!TickTurn(t[i - 1]) /\ t[i] = Lcd!FastTurn(t[i - 1])
  <2> TAKE i \in Nat \ {0}
  <2>1. PICK j \in Nat : j = i - 1 /\ j + 1 = i
    OBVIOUS
  <2> QED
    BY <1>4, <2>1
<1>6. /\ t = [i \in Nat |-> IF i = 0 THEN s ELSE Lcd!TickTurn(t[i - 1])]
      /\ t = [i \in Nat |-> IF i = 0 THEN s ELSE Lcd!FastTurn(t[i - 1])]
  BY <1>3, <1>5
<1> DEFINE a == CHOOSE a : a = [i \in Nat |-> IF i = 0 THEN s ELSE Lcd!TickTurn(a[i - 1])]
           b == CHOOSE b : b = [i \in Nat |-> IF i = 0 THEN s ELSE Lcd!FastTurn(b[i - 1])]
<1>7. a = [i \in Nat |-> IF i = 0 THEN s ELSE Lcd!TickTurn(a[i - 1])]
  BY <1>6, Zenon
<1>8. b = [i \in Nat |-> IF i = 0 THEN s ELSE Lcd!FastTurn(b[i - 1])]
  BY <1>6, Zenon
<1>9. Lcd!Tick(p, n) = a[n] /\ Lcd!TickFast(p, n) = b[n]
  BY DEF Lcd!Tick, Lcd!TickFast, s
<1> HIDE DEF a, b
<1>10. a[0] = s /\ b[0] = s
  BY <1>7, <1>8
<1>11. \A i \in Nat : a[i + 1] = Lcd!TickTurn(a[i]) /\ b[i + 1] = Lcd!FastTurn(b[i])
  <2> TAKE i \in Nat
  <2>1. PICK j \in Nat : j = i + 1 /\ j # 0 /\ j - 1 = i
    OBVIOUS
  <2> QED
    BY <1>7, <1>8, <2>1, Zenon
<1> DEFINE A == {i \in Nat : a[i] = t[i] /\ b[i] = t[i]}
<1>12. 0 \in A
  BY <1>3, <1>10
<1>13. ASSUME NEW i \in Nat, i \in A PROVE i + 1 \in A
  <2>1. a[i] = t[i] /\ b[i] = t[i]
    BY <1>13
  <2>2. a[i + 1] = t[i + 1] /\ b[i + 1] = t[i + 1]
    BY <1>4, <1>11, <2>1, Zenon
  <2> QED
    BY <2>2
<1> HIDE DEF A
<1>14. n \in A
  BY <1>12, <1>13, Induction
<1> QED
  BY <1>3, <1>4, <1>9, <1>14 DEF A, s

(* After as many turns as there are dots nothing is left.                      *)
LEMMA TurnsSuffice ==
  ASSUME OamContents # {}, NEW n \in Nat, NEW t \in [Nat -> Progress], t[0].left = n,
         \A i \in Nat : t[i + 1] = Lcd!TickTurn(t[i])
  PROVE  t[n].left = 0
<1> DEFINE A == {i \in Nat : t[i].left = 0 \/ t[i].left =< n - i}
<1>1. 0 \in A
  OBVIOUS
<1>2. ASSUME NEW i \in Nat, i \in A PROVE i + 1 \in A
  <2>1. t[i] \in Progress /\ t[i + 1] \in Progress /\ t[i].left \in Nat /\ t[i + 1].left \in Nat
    BY SMTT(90) DEF Progress
  <2>2. t[i].left = 0 => t[i + 1].left = 0
    BY <2>1, TurnShape
  <2>3. t[i].left # 0 => t[i + 1].left < t[i].left
    BY <2>1, TurnShape
  <2> QED
    BY <1>2, <2>1, <2>2, <2>3
<1> HIDE DEF A
<1>3. n \in A
  BY <1>1, <1>2, Induction
<1>4. t[n].left = 0 \/ t[n].left =< 0
  BY <1>3 DEF A
<1> QED
  BY <1>4 DEF Progress

(* The middle of a chunk is quiet, and does not matter: going on by one dot    *)
(* from there is going one dot further at once.                                *)
LEMMA QuietChunk ==
  ASSUME OamContents # {}, NEW p \in Places, p.on, Current(p), NEW a \in Nat \ {0},
         a < Lcd!Boundary(p)
  PROVE  LET q == [p EXCEPT !.dots = p.dots + a]
         IN /\ Lcd!Moved(p, a) = q /\ Lcd!Moved(q, 1) = Lcd!Moved(p, a + 1)
            /\ q \in Places /\ Current(q) /\ q.on = p.on /\ q.ly = p.ly
            /\ Lcd!Mode(q) = Lcd!Mode(p)
            /\ Lcd!LineDone(q, 1) <=> Lcd!LineDone(p, a + 1)
            /\ ~ Lcd!LineDone(p, a)
            /\ p.dots + a < LineDots
<1> DEFINE e == Lcd!Mode3End(p, p.ly)
           q == [p EXCEPT !.dots = p.dots + a]
<1>1. /\ p.dots \in 0 .. LineDots - 1 /\ p.ly \in Nat /\ p.on \in BOOLEAN /\ p \in Ppus /\ Fits(p)
  BY Sizes DEF Places, Ppus
<1>2. e \in Nat /\ SearchDots < e /\ e < LineDots
  BY <1>1, EndOfTransfer
<1>3. Lcd!Mode(p) = IF p.ly >= VisibleLines THEN "vblank"
                    ELSE IF p.dots < SearchDots THEN "search"
                    ELSE IF p.dots < e THEN "transfer" ELSE "hblank"
  BY DEF Lcd!Mode, Lcd!ModeFor
<1>4. Lcd!Boundary(p) = LET b == CASE Lcd!Mode(p) = "search" -> SearchDots - p.dots
                                   [] Lcd!Mode(p) = "transfer" -> e - p.dots
                                   [] OTHER -> LineDots - p.dots
                        IN IF 1 >= b THEN 1 ELSE b
  BY DEF Lcd!Boundary, Lcd!AtLeast
<1> HIDE DEF e
<1>5. /\ p.dots + a < LineDots
      /\ p.ly < VisibleLines /\ p.dots < SearchDots => p.dots + a < SearchDots
      /\ p.ly < VisibleLines /\ p.dots < e => p.dots + a < e
  <2>1. CASE Lcd!Mode(p) = "search"
    BY <1>1, <1>2, <1>3, <1>4, <2>1, Sizes
  <2>2. CASE Lcd!Mode(p) = "transfer"
    BY <1>1, <1>2, <1>3, <1>4, <2>2, Sizes
  <2>3. CASE Lcd!Mode(p) \in {"hblank", "vblank"}
    BY <1>1, <1>2, <1>3, <1>4, <2>3, Sizes
  <2> QED
    BY <1>3, <2>1, <2>2, <2>3
<1>6. p.dots + a \in 0 .. LineDots - 1
  BY <1>1, <1>5, Sizes
<1>7. Lcd!Moved(p, a) = q
  BY <1>5 DEF Lcd!Moved
<1> HIDE DEF q
<1>8. /\ q \in Ppus /\ q.dots = p.dots + a /\ q.on = p.on /\ q.geo = p.geo /\ q.ly = p.ly
      /\ q.lyc = p.lyc /\ q.stat = p.stat /\ q.line = p.line /\ q.penalty = p.penalty
  BY <1>1, <1>6 DEF Ppus, q
<1>9. q \in Places
  BY <1>1, <1>8 DEF Places, Fits
<1>10. Lcd!Mode3End(q, q.ly) = e
  BY <1>8 DEF Lcd!Mode3End, Lcd!WindowVisible, e
<1>11. Lcd!Mode(q) = Lcd!Mode(p)
  <2>1. Lcd!Mode(q) = IF p.ly >= VisibleLines THEN "vblank"
                      ELSE IF p.dots + a < SearchDots THEN "search"
                      ELSE IF p.dots + a < e THEN "transfer" ELSE "hblank"
    BY <1>8, <1>10 DEF Lcd!Mode, Lcd!ModeFor
  <2> QED
    BY <1>1, <1>2, <1>3, <1>5, <2>1, Sizes
<1>12. Current(q)
  BY <1>8, <1>11 DEF Current, Lcd!Selected
<1>13. (Lcd!LineDone(q, 1) <=> Lcd!LineDone(p, a + 1)) /\ ~ Lcd!LineDone(p, a)
  <2>1. /\ Lcd!LineDone(q, 1) <=> Lcd!Mode(q) = "transfer" /\ q.dots + 1 >= e
        /\ Lcd!LineDone(p, a + 1) <=> Lcd!Mode(p) = "transfer" /\ p.dots + (a + 1) >= e
        /\ Lcd!LineDone(p, a) <=> Lcd!Mode(p) = "transfer" /\ p.dots + a >= e
    BY <1>10 DEF Lcd!LineDone, e
  <2>2. Lcd!Mode(p) = "transfer" => p.dots + a < e
    BY <1>1, <1>2, <1>3, <1>5, Sizes
  <2> QED
    BY <1>1, <1>2, <1>8, <1>11, <2>1, <2>2
<1>14. Lcd!Moved(q, 1) = Lcd!Moved(p, a + 1)
  <2> DEFINE d == p.dots + (a + 1)
             ly == IF p.ly + 1 >= TotalLines THEN 0 ELSE p.ly + 1
             pen == IF p.ly + 1 = VisibleLines THEN 0 ELSE p.penalty
  <2>1. q.dots + 1 = d
    BY <1>1, <1>8
  <2>2. Lcd!Moved(p, a + 1) = IF d < LineDots THEN [p EXCEPT !.dots = d]
                              ELSE [p EXCEPT !.dots = d - LineDots, !.ly = ly, !.penalty = pen]
    BY DEF Lcd!Moved
  <2>3. Lcd!Moved(q, 1) = IF d < LineDots THEN [q EXCEPT !.dots = d]
                          ELSE [q EXCEPT !.dots = d - LineDots, !.ly = ly, !.penalty = pen]
    BY <1>8, <2>1 DEF Lcd!Moved
  <2> HIDE DEF d, ly, pen
  <2>4. q = [p EXCEPT !.dots = p.dots + a]
    BY DEF q
  <2>5. [q EXCEPT !.dots = d] = [p EXCEPT !.dots = d]
    BY <1>1, <2>4 DEF Ppus
  <2>6. [q EXCEPT !.dots = d - LineDots, !.ly = ly, !.penalty = pen]
        = [p EXCEPT !.dots = d - LineDots, !.ly = ly, !.penalty = pen]
    BY <1>1, <2>4 DEF Ppus
  <2> QED
    BY <2>2, <2>3, <2>5, <2>6
<1> QED
  BY <1>5, <1>7, <1>8, <1>9, <1>11, <1>12, <1>13, <1>14 DEF q

LEMMA RefreshedCurrent ==
  ASSUME NEW p \in Ppus, Current(p)
  PROVE  Lcd!Refreshed(p) = p /\ Lcd!Rises(p) = FALSE
<1>1. PICK s \in BOOLEAN : s = Lcd!Selected(p)
  BY SelectedShape
<1>2. p.line = s
  BY <1>1 DEF Current
<1>3. [p EXCEPT !.line = s] = p
  BY <1>2 DEF Ppus
<1> QED
  BY <1>1, <1>2, <1>3 DEF Lcd!Refreshed, Lcd!Rises

LEMMA QuietPass ==
  ASSUME OamContents # {}, NEW p \in Places, p.on => Current(p), NEW a \in Nat \ {0},
         p.on => a < Lcd!Boundary(p)
  PROVE  LET s == Lcd!Pass(p, a)
             u == Lcd!Pass(s.ppu, 1)
             v == Lcd!Pass(p, a + 1)
         IN /\ s.ppu \in Places /\ (s.stat <=> FALSE) /\ (s.vblank <=> FALSE) /\ (s.frame <=> FALSE)
            /\ s.drawn = {}
            /\ u.ppu = v.ppu /\ (u.stat <=> v.stat) /\ (u.vblank <=> v.vblank)
            /\ (u.frame <=> v.frame) /\ u.drawn = v.drawn
<1> DEFINE s == Lcd!Pass(p, a)
           u == Lcd!Pass(s.ppu, 1)
           v == Lcd!Pass(p, a + 1)
<1>0. p \in Ppus /\ p.on \in BOOLEAN /\ a + 1 \in Nat \ {0}
  BY DEF Places, Ppus
<1>1. CASE p.on
  <2> DEFINE q == [p EXCEPT !.dots = p.dots + a]
             m == Lcd!Moved(p, a + 1)
  <2>1. /\ Lcd!Moved(p, a) = q /\ Lcd!Moved(q, 1) = m
        /\ q \in Places /\ Current(q) /\ q.on = p.on /\ q.ly = p.ly
        /\ Lcd!Mode(q) = Lcd!Mode(p)
        /\ Lcd!LineDone(q, 1) <=> Lcd!LineDone(p, a + 1)
        /\ ~ Lcd!LineDone(p, a)
    BY <1>1, QuietChunk, ZenonT(120)
  <2> HIDE DEF q, m
  <2>2. Lcd!Refreshed(q) = q /\ Lcd!Rises(q) = FALSE
    BY <2>1, RefreshedCurrent DEF Places
  <2>3. s.ppu = q /\ (s.stat <=> FALSE) /\ (s.vblank <=> FALSE) /\ (s.frame <=> FALSE) /\ s.drawn = {}
    <3>1. ~ (p.ly < p.ly)
      BY <1>0 DEF Ppus
    <3>2. s = [ppu |-> Lcd!Refreshed(q), stat |-> Lcd!Rises(q),
               vblank |-> (q.ly # p.ly /\ q.ly = VisibleLines), frame |-> q.ly < p.ly,
               drawn |-> IF Lcd!LineDone(p, a) THEN {p.ly} ELSE {},
               hblank |-> (Lcd!Mode(p) # "hblank" /\ Lcd!Mode(q) = "hblank")]
      BY <1>1, <2>1 DEF Lcd!Pass
    <3> HIDE DEF s
    <3> QED
      BY <2>1, <2>2, <3>1, <3>2
  <2>4. u = [ppu |-> Lcd!Refreshed(m), stat |-> Lcd!Rises(m),
             vblank |-> (m.ly # p.ly /\ m.ly = VisibleLines), frame |-> m.ly < p.ly,
             drawn |-> IF Lcd!LineDone(q, 1) THEN {p.ly} ELSE {},
             hblank |-> (Lcd!Mode(p) # "hblank" /\ Lcd!Mode(m) = "hblank")]
    <3>1. u = Lcd!Pass(q, 1)
      BY <2>3
    <3>2. q.on
      BY <1>1, <2>1
    <3> HIDE DEF u
    <3> QED
      BY <2>1, <3>1, <3>2 DEF Lcd!Pass
  <2>5. v = [ppu |-> Lcd!Refreshed(m), stat |-> Lcd!Rises(m),
             vblank |-> (m.ly # p.ly /\ m.ly = VisibleLines), frame |-> m.ly < p.ly,
             drawn |-> IF Lcd!LineDone(p, a + 1) THEN {p.ly} ELSE {},
             hblank |-> (Lcd!Mode(p) # "hblank" /\ Lcd!Mode(m) = "hblank")]
    BY <1>1, <2>1 DEF Lcd!Pass, m
  <2> HIDE DEF u, v, s
  <2> QED
    BY <2>1, <2>3, <2>4, <2>5, SMTT(90) DEF u, v, s
<1>2. CASE ~ p.on
  <2> DEFINE q == [p EXCEPT !.ly = 0, !.dots = 0]
             z == Lcd!Refreshed(q)
  <2>1. \A c : Lcd!Pass(p, c) = [ppu |-> z, stat |-> Lcd!Rises(q), vblank |-> FALSE, frame |-> FALSE,
                                 drawn |-> {}, hblank |-> FALSE]
    BY <1>2 DEF Lcd!Pass
  <2>2. q \in Ppus /\ q.on = p.on /\ q.penalty = p.penalty /\ q.ly = 0 /\ q.dots = 0
    <3>1. 0 \in 0 .. TotalLines - 1 /\ 0 \in 0 .. LineDots - 1
      BY <1>0, Sizes DEF Ppus
    <3> QED
      BY <1>0, <3>1 DEF Ppus
  <2>3. z \in Places /\ Current(z) /\ z.on = p.on /\ Lcd!Rises(q) = FALSE
    <3>1. Fits(q)
      BY <2>2 DEF Fits, Places
    <3> HIDE DEF q
    <3>2. ~ Lcd!Selected(q)
      BY <1>2, <2>2, SelectedShape
    <3> QED
      BY <2>2, <3>1, <3>2, SelectedShape, RefreshedFields DEF Places, Current, Lcd!Rises
  <2>4. z.ly = 0 /\ z.dots = 0
    <3> HIDE DEF q
    <3>1. z = [q EXCEPT !.line = Lcd!Selected(q)]
      BY DEF Lcd!Refreshed
    <3> HIDE DEF z
    <3> QED
      BY <2>2, <3>1 DEF Ppus
  <2> HIDE DEF q, z
  <2>5. [z EXCEPT !.ly = 0, !.dots = 0] = z
    BY <2>3, <2>4 DEF Places, Ppus
  <2>6. Lcd!Refreshed(z) = z /\ Lcd!Rises(z) = FALSE
    BY <2>3, RefreshedCurrent DEF Places
  <2>7. Lcd!Pass(z, 1) = [ppu |-> z, stat |-> FALSE, vblank |-> FALSE, frame |-> FALSE,
                          drawn |-> {}, hblank |-> FALSE]
    BY <1>2, <2>3, <2>5, <2>6 DEF Lcd!Pass
  <2>8. /\ s = [ppu |-> z, stat |-> FALSE, vblank |-> FALSE, frame |-> FALSE,
                drawn |-> {}, hblank |-> FALSE]
        /\ v = s
    BY <2>1, <2>3
  <2>9. u = s
    BY <2>7, <2>8
  <2> HIDE DEF u, v, s
  <2> QED
    BY <2>3, <2>8, <2>9 DEF u, v, s
<1> QED
  BY <1>0, <1>1, <1>2

(* One dot more of a chunk that is run a dot at a time.                        *)
LEMMA OneMoreDot ==
  ASSUME OamContents # {}, NEW r \in Progress, r.ppu.on => Current(r.ppu), NEW a \in Nat \ {0},
         a < Lcd!Chunk(r.ppu, r.left), r.left # 0
  PROVE  Lcd!DotTurn(Lcd!Turn(r, Lcd!Pass(r.ppu, a), a))
           = Lcd!Turn(r, Lcd!Pass(r.ppu, a + 1), a + 1)
<1> DEFINE p == r.ppu
           s == Lcd!Pass(p, a)
           u == Lcd!Pass(s.ppu, 1)
           v == Lcd!Pass(p, a + 1)
           x == Lcd!Turn(r, s, a)
<1>1. p \in Places /\ r.left \in Nat \ {0}
  BY DEF Progress
<1>2. a < r.left /\ (p.on => a < Lcd!Boundary(p))
  <2>1. PICK c \in Nat, b \in Nat : /\ c = Lcd!Chunk(p, r.left) /\ b = Lcd!Boundary(p)
                                    /\ c =< r.left /\ (p.on => c =< b)
    BY <1>1, ChunkFits
  <2> QED
    BY <1>1, <2>1
<1>3. /\ (s.stat <=> FALSE) /\ (s.vblank <=> FALSE) /\ (s.frame <=> FALSE) /\ s.drawn = {}
      /\ u.ppu = v.ppu /\ (u.stat <=> v.stat) /\ (u.vblank <=> v.vblank)
      /\ (u.frame <=> v.frame) /\ u.drawn = v.drawn
  BY <1>1, <1>2, QuietPass
<1>4. x = [ppu |-> s.ppu, left |-> r.left - a, stat |-> r.stat \/ s.stat,
           vblank |-> r.vblank \/ s.vblank, frame |-> r.frame \/ s.frame,
           drawn |-> IF s.drawn # {} THEN s.drawn ELSE r.drawn]
  BY <1>1, Zenon DEF Lcd!Turn
<1> HIDE DEF s, u, v, x
<1>5. /\ x.ppu = s.ppu /\ x.left = r.left - a /\ x.drawn = r.drawn
      /\ (x.stat <=> r.stat) /\ (x.vblank <=> r.vblank) /\ (x.frame <=> r.frame)
  BY <1>3, <1>4
<1>6. x.left # 0 /\ x.left - 1 = r.left - (a + 1)
  BY <1>1, <1>2, <1>5
<1>7. u = Lcd!Pass(x.ppu, 1)
  BY <1>5 DEF u
<1>8. Lcd!DotTurn(x) = [ppu |-> u.ppu, left |-> x.left - 1, stat |-> x.stat \/ u.stat,
                        vblank |-> x.vblank \/ u.vblank, frame |-> x.frame \/ u.frame,
                        drawn |-> IF u.drawn # {} THEN u.drawn ELSE x.drawn]
  BY <1>6, <1>7, Zenon DEF Lcd!DotTurn, Lcd!Turn
<1>9. Lcd!Turn(r, v, a + 1) = [ppu |-> v.ppu, left |-> r.left - (a + 1), stat |-> r.stat \/ v.stat,
                        vblank |-> r.vblank \/ v.vblank, frame |-> r.frame \/ v.frame,
                        drawn |-> IF v.drawn # {} THEN v.drawn ELSE r.drawn]
  BY <1>1, Zenon DEF Lcd!Turn
<1>10. /\ (x.stat \/ u.stat) = (r.stat \/ v.stat)
       /\ (x.vblank \/ u.vblank) = (r.vblank \/ v.vblank)
       /\ (x.frame \/ u.frame) = (r.frame \/ v.frame)
  BY <1>3, <1>5, Zenon
<1>11. Lcd!DotTurn(x) = Lcd!Turn(r, v, a + 1)
  BY <1>3, <1>5, <1>6, <1>8, <1>9, <1>10
<1> QED
  BY <1>11 DEF x, v, s

LEMMA DotShape ==
  ASSUME OamContents # {}, NEW r \in Progress
  PROVE  Lcd!DotTurn(r) \in Progress
<1> DEFINE p == r.ppu
           s == Lcd!Pass(p, 1)
<1>1. CASE r.left = 0
  BY <1>1 DEF Lcd!DotTurn, Lcd!Turn
<1>2. CASE r.left # 0
  <2>1. p \in Places /\ r.left \in Nat \ {0} /\ r.left - 1 \in Nat
    BY <1>2 DEF Progress
  <2>2. p.on => 1 =< Lcd!Boundary(p)
    BY <2>1, ChunkFits
  <2>3. /\ s.ppu \in Places /\ s.stat \in BOOLEAN /\ s.vblank \in BOOLEAN /\ s.frame \in BOOLEAN
        /\ s.drawn \in SUBSET Lcd!DrawnLines
    BY <2>1, <2>2, PassShape
  <2>4. PICK left1, stat1, vblank1, frame1, drawn1 :
          /\ left1 = r.left - 1 /\ stat1 = (r.stat \/ s.stat)
          /\ vblank1 = (r.vblank \/ s.vblank) /\ frame1 = (r.frame \/ s.frame)
          /\ drawn1 = IF s.drawn # {} THEN s.drawn ELSE r.drawn
    OBVIOUS
  <2>5. stat1 \in BOOLEAN /\ vblank1 \in BOOLEAN /\ frame1 \in BOOLEAN
    BY <2>4, Zenon
  <2>6. drawn1 \in SUBSET Lcd!DrawnLines
    BY <2>3, <2>4 DEF Progress
  <2>7. Lcd!DotTurn(r) = [ppu |-> s.ppu, left |-> left1, stat |-> stat1, vblank |-> vblank1,
                          frame |-> frame1, drawn |-> drawn1]
    BY <1>2, <2>4, Zenon DEF Lcd!DotTurn, Lcd!Turn
  <2> HIDE DEF s
  <2> QED
    BY <2>1, <2>3, <2>4, <2>5, <2>6, <2>7 DEF Progress
<1> QED
  BY <1>1, <1>2

LEMMA DotRuns ==
  ASSUME OamContents # {}, NEW p \in Places, NEW n \in Nat
  PROVE  \E d \in [Nat -> Progress] :
           /\ d[0] = Lcd!Start(p, n)
           /\ \A i \in Nat : d[i + 1] = Lcd!DotTurn(d[i])
           /\ Lcd!DotByDot(p, n) = d[n]
<1> DEFINE step == [r \in Progress |-> Lcd!DotTurn(r)]
           s == Lcd!Start(p, n)
<1>1. step \in [Progress -> Progress] /\ s \in Progress
  BY DotShape, StartShape
<1> HIDE DEF s
<1>2. \A r \in Progress : step[r] = Lcd!DotTurn(r)
  OBVIOUS
<1> HIDE DEF step
<1>3. PICK t \in [Nat -> Progress] : t[0] = s /\ \A i \in Nat : t[i + 1] = step[t[i]]
  <2>1. StatesOf(Progress)
    BY LoopStates
  <2> QED
    BY <1>1, <2>1, Zenon DEF StatesOf
<1>4. \A i \in Nat : t[i + 1] = Lcd!DotTurn(t[i])
  BY <1>2, <1>3
<1>5. \A i \in Nat \ {0} : t[i] = Lcd!DotTurn(t[i - 1])
  <2> TAKE i \in Nat \ {0}
  <2>1. PICK j \in Nat : j = i - 1 /\ j + 1 = i
    OBVIOUS
  <2> QED
    BY <1>4, <2>1
<1>6. t = [i \in Nat |-> IF i = 0 THEN s ELSE Lcd!DotTurn(t[i - 1])]
  BY <1>3, <1>5
<1> DEFINE a == CHOOSE a : a = [i \in Nat |-> IF i = 0 THEN s ELSE Lcd!DotTurn(a[i - 1])]
<1>7. a = [i \in Nat |-> IF i = 0 THEN s ELSE Lcd!DotTurn(a[i - 1])]
  BY <1>6, Zenon
<1>8. Lcd!DotByDot(p, n) = a[n]
  BY DEF Lcd!DotByDot, s
<1> HIDE DEF a
<1>9. a[0] = s /\ \A i \in Nat : a[i + 1] = Lcd!DotTurn(a[i])
  <2>1. a[0] = s
    BY <1>7
  <2>2. ASSUME NEW i \in Nat PROVE a[i + 1] = Lcd!DotTurn(a[i])
    <3>1. PICK j \in Nat : j = i + 1 /\ j # 0 /\ j - 1 = i
      OBVIOUS
    <3> QED
      BY <1>7, <3>1, Zenon
  <2> QED
    BY <2>1, <2>2
<1> DEFINE A == {i \in Nat : a[i] = t[i]}
<1>10. 0 \in A
  BY <1>3, <1>9
<1>11. ASSUME NEW i \in Nat, i \in A PROVE i + 1 \in A
  <2>1. a[i] = t[i]
    BY <1>11
  <2>2. a[i + 1] = t[i + 1]
    BY <1>4, <1>9, <2>1, Zenon
  <2> QED
    BY <2>2
<1> HIDE DEF A
<1>12. n \in A
  BY <1>10, <1>11, Induction
<1> QED
  BY <1>3, <1>4, <1>8, <1>12 DEF A, s

(* A chunk a dot at a time.                                                     *)
LEMMA DotsOfChunk ==
  ASSUME OamContents # {}, NEW d \in [Nat -> Progress],
         \A i \in Nat : d[i + 1] = Lcd!DotTurn(d[i]),
         NEW j \in Nat, d[j].left # 0, d[j].ppu.on => Current(d[j].ppu)
  PROVE  LET c == Lcd!Chunk(d[j].ppu, d[j].left) IN d[j + c] = Lcd!TickTurn(d[j])
<1> DEFINE r == d[j]
           c == Lcd!Chunk(r.ppu, r.left)
           after(i) == Lcd!Turn(r, Lcd!Pass(r.ppu, i), i)
           A == {i \in Nat : i < c => d[j + (i + 1)] = after(i + 1)}
<1>1. r \in Progress /\ r.ppu \in Places /\ r.left \in Nat \ {0}
  BY DEF Progress
<1>2. c \in Nat \ {0}
  BY <1>1, ChunkFits
<1>3. 0 \in A
  <2>1. d[j + 1] = after(1)
    BY Zenon DEF Lcd!DotTurn
  <2> QED
    BY <2>1
<1>4. ASSUME NEW i \in Nat, i \in A PROVE i + 1 \in A
  <2> SUFFICES ASSUME i + 1 < c PROVE d[j + (i + 2)] = after(i + 2)
    BY <1>2
  <2>1. PICK a \in Nat \ {0} : a = i + 1 /\ a + 1 = i + 2
    OBVIOUS
  <2>2. d[j + a] = after(a)
    BY <1>2, <1>4, <2>1
  <2>3. Lcd!DotTurn(after(a)) = after(a + 1)
    BY <1>1, <2>1, OneMoreDot
  <2>4. d[(j + a) + 1] = Lcd!DotTurn(d[j + a]) /\ (j + a) + 1 = j + (a + 1)
    BY <2>1
  <2> HIDE DEF after
  <2>5. d[j + (a + 1)] = after(a + 1)
    BY <2>2, <2>3, <2>4, Zenon
  <2> QED
    BY <2>1, <2>5
<1> HIDE DEF A
<1>5. PICK i \in Nat : c = i + 1
  BY <1>2
<1>6. i \in A
  BY <1>3, <1>4, Induction
<1>7. d[j + c] = after(c)
  BY <1>5, <1>6 DEF A
<1> QED
  BY <1>7 DEF Lcd!TickTurn

(* Time may be cut anywhere.                                                    *)
LEMMA CutsAgree ==
  ASSUME OamContents # {}, NEW p \in Places, NEW n \in Nat
  PROVE  /\ Lcd!Tick(p, n) = Lcd!TickFast(p, n)
         /\ Current(p) => Lcd!Tick(p, n) = Lcd!DotByDot(p, n)
<1>1. PICK t \in [Nat -> Progress] :
        /\ t[0] = Lcd!Start(p, n)
        /\ \A i \in Nat : t[i + 1] = Lcd!TickTurn(t[i])
        /\ Lcd!Tick(p, n) = t[n] /\ Lcd!TickFast(p, n) = t[n]
  BY TickRuns
<1>2. PICK d \in [Nat -> Progress] :
        /\ d[0] = Lcd!Start(p, n)
        /\ \A i \in Nat : d[i + 1] = Lcd!DotTurn(d[i])
        /\ Lcd!DotByDot(p, n) = d[n]
  BY DotRuns
<1>3. t[0].left = n /\ t[0].ppu = p /\ t[n].left = 0
  <2>1. t[0].left = n /\ t[0].ppu = p
    BY <1>1, StartShape
  <2> QED
    BY <1>1, <2>1, TurnsSuffice
<1>4. ASSUME Current(p) PROVE t[n] = d[n]
  <2> DEFINE A == {i \in Nat : /\ t[i].left =< n /\ t[i] = d[n - t[i].left]
                               /\ t[i].ppu.on => Current(t[i].ppu)}
  <2>1. 0 \in A
    BY <1>1, <1>2, <1>3, <1>4
  <2>2. ASSUME NEW i \in Nat, i \in A PROVE i + 1 \in A
    <3>1. /\ t[i] \in Progress /\ t[i].left \in Nat /\ t[i].left =< n
          /\ t[i] = d[n - t[i].left] /\ (t[i].ppu.on => Current(t[i].ppu))
          /\ t[i + 1] = Lcd!TickTurn(t[i])
      BY <1>1, <2>2 DEF Progress
    <3>2. CASE t[i].left = 0
      <4>1. t[i + 1] = t[i]
        BY <3>1, <3>2, TurnShape
      <4> QED
        BY <3>1, <4>1
    <3>3. CASE t[i].left # 0
      <4>1. PICK j \in Nat : j = n - t[i].left
        BY <3>1
      <4>2. t[i].ppu \in Places
        BY <3>1 DEF Progress
      <4>3. PICK c \in Nat : c = Lcd!Chunk(t[i].ppu, t[i].left) /\ c =< t[i].left
        BY <3>1, <3>3, <4>2, ChunkFits
      <4>4. d[j].left # 0 /\ (d[j].ppu.on => Current(d[j].ppu)) /\ d[j] = t[i]
        BY <3>1, <3>3, <4>1
      <4>5. d[j + c] = Lcd!TickTurn(t[i])
        BY <1>2, <4>3, <4>4, DotsOfChunk
      <4>6. /\ t[i + 1].left = t[i].left - c /\ Current(t[i + 1].ppu)
        BY <3>1, <3>3, <4>3, TurnShape
      <4>7. n - t[i + 1].left = j + c /\ t[i + 1].left =< n
        BY <3>1, <4>1, <4>3, <4>6
      <4> QED
        BY <3>1, <4>5, <4>6, <4>7
    <3> QED
      BY <3>2, <3>3
  <2> HIDE DEF A
  <2>3. n \in A
    BY <2>1, <2>2, Induction
  <2>4. t[n] = d[n - t[n].left]
    BY <2>3 DEF A
  <2> QED
    BY <1>3, <2>4
<1> QED
  BY <1>1, <1>2, <1>4

-----------------------------------------------------------------------------
(* Display q is where display p is e dots later: on the same line, with the    *)
(* sprites it had or those found as the line began, or on the next.            *)
NextLine(l) == IF l + 1 >= TotalLines THEN 0 ELSE l + 1

Along(p, q, e) ==
  /\ q \in Places /\ q.on = p.on /\ q.geo = p.geo /\ q.lyc = p.lyc
  /\ p.on => \/ /\ q.ly = p.ly /\ q.dots = p.dots + e
                /\ q.penalty = p.penalty \/ p.dots = 0
             \/ q.ly = NextLine(p.ly) /\ q.dots + LineDots = p.dots + e
  /\ ~ p.on => q.ly = 0

LEMMA LatchedAlong ==
  ASSUME NEW p \in Places, NEW q \in Places, NEW e \in Nat, NEW o \in OamContents, Along(p, q, e),
         Lcd!AtLineStart(q)
  PROVE  Along(p, Lcd!Latched(q, o), e)
<1> DEFINE l == Lcd!Latched(q, o)
<1>1. /\ l \in Places /\ l.on = q.on /\ l.geo = q.geo /\ l.ly = q.ly /\ l.dots = q.dots
      /\ l.lyc = q.lyc
  BY LatchedShape DEF Places
<1>2. q.dots = 0 /\ p.dots \in Nat
  BY Sizes DEF Lcd!AtLineStart, Places, Ppus
<1> HIDE DEF l
<1> QED
  BY <1>1, <1>2 DEF Along, l

LEMMA PassAlong ==
  ASSUME OamContents # {}, NEW p \in Places, NEW q \in Places, NEW e \in Nat, Along(p, q, e),
         NEW c \in Nat \ {0}, q.on => c =< Lcd!Boundary(q), e + c =< SearchDots
  PROVE  Along(p, Lcd!Pass(q, c).ppu, e + c)
<1> DEFINE u == Lcd!Pass(q, c).ppu
<1>0. /\ q \in Ppus /\ Fits(q) /\ q.on = p.on /\ q.on \in BOOLEAN
      /\ p.dots \in 0 .. LineDots - 1 /\ p.ly \in 0 .. TotalLines - 1
      /\ q.dots \in 0 .. LineDots - 1 /\ q.ly \in 0 .. TotalLines - 1
  BY DEF Along, Places, Ppus
<1>1. u \in Places /\ u.on = q.on
  BY PassShape
<1>2. CASE q.on
  <2> DEFINE m == Lcd!Moved(q, c)
  <2>1. q.dots + c =< LineDots
    BY <1>0, <1>2, ChunkStays
  <2>2. /\ m \in Ppus
        /\ m.on = q.on /\ m.geo = q.geo /\ m.lyc = q.lyc
        /\ \/ /\ m.dots = q.dots + c /\ m.ly = q.ly /\ m.penalty = q.penalty
              /\ q.dots + c < LineDots
           \/ /\ q.dots + c = LineDots /\ m.dots = 0
              /\ \/ q.ly + 1 < TotalLines /\ m.ly = q.ly + 1
                 \/ q.ly + 1 = TotalLines /\ m.ly = 0
              /\ m.penalty \in {0, q.penalty}
    BY <1>0, <2>1, MovedShape
  <2>3. u = [m EXCEPT !.line = Lcd!Selected(m)]
    BY <1>2 DEF Lcd!Pass, Lcd!Refreshed
  <2> HIDE DEF m, u
  <2>4. /\ u.geo = q.geo /\ u.lyc = q.lyc /\ u.ly = m.ly /\ u.dots = m.dots
        /\ u.penalty = m.penalty
    BY <2>2, <2>3 DEF Ppus
  <2>5. SearchDots < LineDots /\ LineDots \in Nat /\ SearchDots \in Nat /\ TotalLines \in Nat
    <3>1. SearchDots < Lcd!Mode3End(q, 0) /\ Lcd!Mode3End(q, 0) < LineDots /\ Lcd!Mode3End(q, 0) \in Nat
      BY <1>0, EndOfTransfer
    <3> QED
      BY <3>1, Sizes
  <2>6. CASE q.ly = p.ly /\ q.dots = p.dots + e /\ (q.penalty = p.penalty \/ p.dots = 0)
    <3>1. \/ u.ly = p.ly /\ u.dots = p.dots + (e + c) /\ (u.penalty = p.penalty \/ p.dots = 0)
          \/ u.ly = NextLine(p.ly) /\ u.dots + LineDots = p.dots + (e + c)
      <4>1. CASE m.dots = q.dots + c /\ m.ly = q.ly /\ m.penalty = q.penalty
        <5>1. u.ly = p.ly /\ u.dots = p.dots + (e + c)
          BY <1>0, <2>4, <2>6, <4>1
        <5>2. u.penalty = p.penalty \/ p.dots = 0
          BY <2>4, <2>6, <4>1
        <5> QED
          BY <5>1, <5>2
      <4>2. CASE /\ q.dots + c = LineDots /\ m.dots = 0
                 /\ (q.ly + 1 < TotalLines /\ m.ly = q.ly + 1) \/ (q.ly + 1 = TotalLines /\ m.ly = 0)
        <5>1. u.dots + LineDots = p.dots + (e + c)
          BY <1>0, <2>4, <2>5, <2>6, <4>2
        <5>2. u.ly = NextLine(p.ly)
          BY <1>0, <2>4, <2>5, <2>6, <4>2 DEF NextLine
        <5> QED
          BY <5>1, <5>2
      <4> QED
        BY <2>2, <4>1, <4>2
    <3> QED
      BY <1>1, <1>2, <2>4, <3>1 DEF Along, u
  <2>7. CASE q.ly = NextLine(p.ly) /\ q.dots + LineDots = p.dots + e
    <3>1. q.dots + c < LineDots
      BY <1>0, <2>5, <2>7
    <3>2. u.ly = NextLine(p.ly) /\ u.dots + LineDots = p.dots + (e + c)
      BY <1>0, <2>2, <2>4, <2>5, <2>7, <3>1
    <3> QED
      BY <1>1, <1>2, <2>4, <3>2 DEF Along, u
  <2> QED
    BY <1>0, <1>2, <2>6, <2>7 DEF Along
<1>3. CASE ~ q.on
  <2> DEFINE m == [q EXCEPT !.ly = 0, !.dots = 0]
  <2>1. u = [m EXCEPT !.line = Lcd!Selected(m)]
    BY <1>3 DEF Lcd!Pass, Lcd!Refreshed
  <2>2. u.ly = 0 /\ u.geo = q.geo /\ u.lyc = q.lyc
    <3> DEFINE s == Lcd!Selected(m)
    <3>1. u = [m EXCEPT !.line = s]
      BY <2>1
    <3> HIDE DEF s, u
    <3> QED
      BY <1>0, <3>1 DEF Ppus
  <2> HIDE DEF u
  <2> QED
    BY <1>1, <1>3, <2>2 DEF Along, u
<1> QED
  BY <1>0, <1>2, <1>3

(* A turn of the machine's clock.                                               *)
LEMMA ClockTurnShape ==
  ASSUME NEW o \in OamContents, NEW p \in Places, NEW n \in Nat, n =< SearchDots,
         NEW r \in Progress, r.left =< n, Along(p, r.ppu, n - r.left)
  PROVE  LET x == Lcd!ClockTurn(r, o)
         IN /\ x \in Progress /\ x.left =< r.left /\ (r.left # 0 => x.left < r.left)
            /\ Along(p, x.ppu, n - x.left)
<1> DEFINE x == Lcd!ClockTurn(r, o)
           q == IF Lcd!AtLineStart(r.ppu) THEN Lcd!Latched(r.ppu, o) ELSE r.ppu
           c == Lcd!Chunk(q, r.left)
           s == Lcd!Pass(q, c)
<1>1. CASE r.left = 0
  <2>1. x = r
    BY <1>1 DEF Lcd!ClockTurn, Lcd!Turn
  <2> QED
    BY <1>1, <2>1
<1>2. CASE r.left # 0
  <2>1. r.ppu \in Places /\ r.left \in Nat \ {0} /\ n - r.left \in Nat
    BY <1>2 DEF Progress
  <2>2. PICK e \in Nat : e = n - r.left
    BY <2>1
  <2>3. q \in Places /\ Along(p, q, e)
    <3>1. CASE Lcd!AtLineStart(r.ppu)
      BY <2>1, <2>2, <3>1, LatchedAlong DEF Along
    <3>2. CASE ~ Lcd!AtLineStart(r.ppu)
      BY <2>1, <2>2, <3>2
    <3> QED
      BY <3>1, <3>2
  <2> HIDE DEF q
  <2>4. c \in Nat \ {0} /\ c =< r.left /\ (q.on => c =< Lcd!Boundary(q))
    BY <2>1, <2>3, ChunkFits
  <2> HIDE DEF c
  <2>5. /\ s.ppu \in Places /\ s.stat \in BOOLEAN /\ s.vblank \in BOOLEAN /\ s.frame \in BOOLEAN
        /\ s.drawn \in SUBSET Lcd!DrawnLines
    BY <2>3, <2>4, PassShape
  <2>6. Along(p, s.ppu, e + c)
    <3>1. e + c =< SearchDots
      BY <2>1, <2>2, <2>4, Sizes
    <3> QED
      BY <2>3, <2>4, <3>1, PassAlong
  <2>7. PICK left1, stat1, vblank1, frame1, drawn1 :
          /\ left1 = r.left - c /\ stat1 = (r.stat \/ s.stat)
          /\ vblank1 = (r.vblank \/ s.vblank) /\ frame1 = (r.frame \/ s.frame)
          /\ drawn1 = IF s.drawn # {} THEN s.drawn ELSE r.drawn
    OBVIOUS
  <2>8. stat1 \in BOOLEAN /\ vblank1 \in BOOLEAN /\ frame1 \in BOOLEAN
    BY <2>7, Zenon
  <2>9. drawn1 \in SUBSET Lcd!DrawnLines
    BY <2>5, <2>7 DEF Progress
  <2>10. left1 \in Nat /\ left1 < r.left /\ n - left1 = e + c
    BY <2>1, <2>2, <2>4, <2>7
  <2>11. x = [ppu |-> s.ppu, left |-> left1, stat |-> stat1, vblank |-> vblank1,
              frame |-> frame1, drawn |-> drawn1]
    BY <1>2, <2>7, Zenon DEF Lcd!ClockTurn, Lcd!Turn, c, q
  <2> HIDE DEF s, x
  <2>12. x \in Progress /\ x.left = left1 /\ x.ppu = s.ppu
    BY <2>5, <2>8, <2>9, <2>10, <2>11 DEF Progress
  <2> QED
    BY <2>1, <2>6, <2>10, <2>12 DEF x
<1> QED
  BY <1>1, <1>2

(* How far ahead a prediction looks.                                           *)
Looks == 0 .. SearchDots

LEMMA ClockedAlong ==
  ASSUME NEW o \in OamContents, NEW p \in Places, ~ p.on => p.ly = 0, NEW n \in Looks
  PROVE  Along(p, Lcd!Clocked(p, o, n), n)
<1> DEFINE s == Lcd!Start(p, n)
           Reached == {r \in Progress : r.left =< n /\ Along(p, r.ppu, n - r.left)}
           step == [r \in Reached |-> Lcd!ClockTurn(r, o)]
<1>0. n \in Nat /\ n =< SearchDots
  BY Sizes DEF Looks
<1>1. s \in Reached
  <2>1. p.dots \in Nat /\ p.ly \in Nat
    BY Sizes DEF Places, Ppus
  <2>2. Along(p, p, 0)
    BY <2>1 DEF Along
  <2>3. s \in Progress /\ s.left = n /\ s.ppu = p
    BY <1>0, StartShape
  <2> QED
    BY <1>0, <2>2, <2>3
<1>2. step \in [Reached -> Reached]
  <2>1. ASSUME NEW r \in Reached PROVE Lcd!ClockTurn(r, o) \in Reached
    <3>1. /\ Lcd!ClockTurn(r, o) \in Progress /\ Lcd!ClockTurn(r, o).left =< r.left
          /\ Along(p, Lcd!ClockTurn(r, o).ppu, n - Lcd!ClockTurn(r, o).left)
          /\ r.left =< n /\ r.left \in Nat /\ Lcd!ClockTurn(r, o).left \in Nat
      BY <1>0, ClockTurnShape DEF Progress
    <3> QED
      BY <1>0, <3>1
  <2> HIDE DEF Reached
  <2> QED
    BY <2>1
<1>3. \A r \in Reached : step[r] = Lcd!ClockTurn(r, o)
  OBVIOUS
<1> HIDE DEF s, step, Reached
<1>4. PICK t \in [Nat -> Reached] : t[0] = s /\ \A i \in Nat : t[i + 1] = step[t[i]]
  <2>1. StatesOf(Reached)
    BY LoopStates
  <2> QED
    BY <1>1, <1>2, <2>1, Zenon DEF StatesOf
<1>5. \A i \in Nat : t[i] \in Reached /\ t[i + 1] = Lcd!ClockTurn(t[i], o)
  BY <1>3, <1>4
<1>6. \A i \in Nat \ {0} : t[i] = Lcd!ClockTurn(t[i - 1], o)
  <2> TAKE i \in Nat \ {0}
  <2>1. PICK j \in Nat : j = i - 1 /\ j + 1 = i
    OBVIOUS
  <2> QED
    BY <1>5, <2>1
<1>7. t = [i \in Nat |-> IF i = 0 THEN s ELSE Lcd!ClockTurn(t[i - 1], o)]
  BY <1>4, <1>6
<1> DEFINE a == CHOOSE a : a = [i \in Nat |-> IF i = 0 THEN s ELSE Lcd!ClockTurn(a[i - 1], o)]
<1>8. a = [i \in Nat |-> IF i = 0 THEN s ELSE Lcd!ClockTurn(a[i - 1], o)]
  BY <1>7, Zenon
<1>9. Lcd!Clocked(p, o, n) = a[n].ppu
  BY DEF Lcd!Clocked, s
<1> HIDE DEF a
<1>10. a[0] = s /\ \A i \in Nat : a[i + 1] = Lcd!ClockTurn(a[i], o)
  <2>1. a[0] = s
    BY <1>8
  <2>2. ASSUME NEW i \in Nat PROVE a[i + 1] = Lcd!ClockTurn(a[i], o)
    <3>1. PICK j \in Nat : j = i + 1 /\ j # 0 /\ j - 1 = i
      OBVIOUS
    <3> QED
      BY <1>8, <3>1, Zenon
  <2> QED
    BY <2>1, <2>2
<1> DEFINE A == {i \in Nat : a[i] = t[i] /\ (t[i].left = 0 \/ t[i].left =< n - i)}
<1>11. 0 \in A
  BY <1>0, <1>1, <1>4, <1>10 DEF Reached
<1>12. ASSUME NEW i \in Nat, i \in A PROVE i + 1 \in A
  <2>1. a[i] = t[i] /\ (t[i].left = 0 \/ t[i].left =< n - i)
    BY <1>12
  <2>2. a[i + 1] = t[i + 1]
    BY <1>5, <1>10, <2>1, Zenon
  <2>3. /\ t[i] \in Progress /\ t[i].left =< n /\ Along(p, t[i].ppu, n - t[i].left)
        /\ t[i + 1] \in Progress /\ t[i].left \in Nat /\ t[i + 1].left \in Nat
    <3>1. t[i] \in Reached /\ t[i + 1] \in Reached
      BY <1>5
    <3>2. \A r \in Progress : r.left \in Nat
      BY DEF Progress
    <3> QED
      BY <3>1, <3>2 DEF Reached
  <2>4. t[i + 1].left =< t[i].left /\ (t[i].left # 0 => t[i + 1].left < t[i].left)
    BY <1>0, <1>5, <2>3, ClockTurnShape
  <2> QED
    BY <1>0, <2>1, <2>2, <2>3, <2>4
<1> HIDE DEF A
<1>13. n \in A
  BY <1>0, <1>11, <1>12, Induction
<1>14. a[n] = t[n] /\ t[n].left = 0 /\ Along(p, t[n].ppu, n)
  <2>1. a[n] = t[n] /\ (t[n].left = 0 \/ t[n].left =< n - n)
    BY <1>13 DEF A
  <2>2. t[n].left \in Nat /\ Along(p, t[n].ppu, n - t[n].left)
    BY <1>0, <1>5 DEF Progress, Reached
  <2>3. t[n].left = 0 /\ n - t[n].left = n
    BY <1>0, <2>1, <2>2
  <2> QED
    BY <2>1, <2>2, <2>3
<1> QED
  BY <1>9, <1>14

(* What polls STAT or LY is told what the display will show.                    *)
LEMMA PredictedIsShown ==
  ASSUME NEW o \in OamContents, NEW p \in Places, ~ p.on => p.ly = 0, NEW n \in Looks
  PROVE  Lcd!Predicted(p, n) = Lcd!Readable(Lcd!Clocked(p, o, n))
<1> DEFINE q == Lcd!Clocked(p, o, n)
           at == Lcd!PositionAfter(p, n)
<1>0. n \in Nat /\ n =< SearchDots
  BY Sizes DEF Looks
<1>1. Along(p, q, n)
  BY ClockedAlong
<1> HIDE DEF q
<1>2. /\ q \in Ppus /\ Fits(q) /\ p \in Ppus /\ Fits(p) /\ OamContents # {}
      /\ q.on = p.on /\ p.on \in BOOLEAN /\ q.geo = p.geo /\ q.lyc = p.lyc
      /\ p.dots \in 0 .. LineDots - 1 /\ p.ly \in 0 .. TotalLines - 1
      /\ q.dots \in 0 .. LineDots - 1 /\ q.ly \in 0 .. TotalLines - 1
  BY <1>1 DEF Along, Places, Ppus
<1>3. SearchDots < LineDots /\ LineDots \in Nat \ {0} /\ SearchDots \in Nat /\ TotalLines \in Nat \ {0}
  <2>1. SearchDots < Lcd!Mode3End(q, 0) /\ Lcd!Mode3End(q, 0) < LineDots /\ Lcd!Mode3End(q, 0) \in Nat
    BY <1>2, EndOfTransfer
  <2> QED
    BY <2>1, Sizes
<1>4. at.ly = q.ly /\ Lcd!ModeFor(p, at.ly, at.dots) = Lcd!Mode(q)
  <2>1. CASE ~ p.on
    BY <1>1, <1>2, <2>1 DEF Along, Lcd!PositionAfter, Lcd!ModeFor, Lcd!Mode
  <2>2. CASE p.on
    <3>1. PICK D \in Nat \ {0}, T \in Nat \ {0} : D = LineDots /\ T = TotalLines
      BY <1>3
    <3>2. PICK w \in Nat : w = p.dots + n
      BY <1>0, <1>2, <1>3
    <3>3. at = [ly |-> (p.ly + w \div D) % T, dots |-> w % D]
      BY <2>2, <3>1, <3>2 DEF Lcd!PositionAfter
    <3>4. at.ly = q.ly /\ at.dots = q.dots
      <4>1. CASE q.ly = p.ly /\ q.dots = p.dots + n
        <5>1. w = D * 0 + q.dots /\ q.dots \in 0 .. D - 1 /\ w \in Int /\ 0 \in Int
          BY <1>2, <3>1, <3>2, <4>1
        <5>2. w \div D = 0 /\ w % D = q.dots
          BY <5>1, OnlyDivision
        <5>3. p.ly % T = p.ly
          BY <1>2, <3>1, SmallDivision
        <5>4. p.ly + 0 = p.ly
          BY <1>2
        <5> QED
          BY <3>3, <4>1, <5>2, <5>3, <5>4
      <4>2. CASE q.ly = NextLine(p.ly) /\ q.dots + LineDots = p.dots + n
        <5>1. w = D * 1 + q.dots /\ q.dots \in 0 .. D - 1 /\ w \in Int /\ 1 \in Int
          BY <1>2, <3>1, <3>2, <4>2
        <5>2. w \div D = 1 /\ w % D = q.dots
          BY <5>1, OnlyDivision
        <5>3. (p.ly + 1) % T = q.ly
          <6>1. PICK l \in 0 .. T - 1 : l = p.ly
            BY <1>2, <3>1
          <6>2. CASE l + 1 < T
            <7>1. q.ly = l + 1 /\ l + 1 \in 0 .. T - 1
              BY <3>1, <4>2, <6>1, <6>2 DEF NextLine
            <7> QED
              BY <6>1, <7>1, SmallDivision
          <6>3. CASE ~ (l + 1 < T)
            <7>1. q.ly = 0 /\ l + 1 = T * 1 + 0 /\ 0 \in 0 .. T - 1 /\ l + 1 \in Int /\ 1 \in Int
              BY <3>1, <4>2, <6>1, <6>3 DEF NextLine
            <7>2. (l + 1) \div T = 1 /\ (l + 1) % T = 0
              BY <7>1, OnlyDivision
            <7> QED
              BY <6>1, <7>1, <7>2
          <6> QED
            BY <6>2, <6>3
        <5> QED
          BY <3>3, <5>2, <5>3
      <4> QED
        BY <1>1, <2>2, <4>1, <4>2 DEF Along
    <3>5. Lcd!ModeFor(p, q.ly, q.dots) = Lcd!Mode(q)
      <4>1. CASE q.penalty = p.penalty
        <5>1. Lcd!Mode3End(p, q.ly) = Lcd!Mode3End(q, q.ly)
          BY <1>2, <4>1 DEF Lcd!Mode3End, Lcd!WindowVisible
        <5> QED
          BY <1>2, <5>1 DEF Lcd!ModeFor, Lcd!Mode
      <4>2. CASE q.penalty # p.penalty
        <5>1. q.dots =< SearchDots
          BY <1>0, <1>1, <1>2, <1>3, <2>2, <4>2 DEF Along
        <5>2. q.ly \in Nat
          BY <1>2
        <5>3. /\ Lcd!Mode3End(p, q.ly) \in Nat /\ SearchDots < Lcd!Mode3End(p, q.ly)
              /\ Lcd!Mode3End(q, q.ly) \in Nat /\ SearchDots < Lcd!Mode3End(q, q.ly)
          BY <1>2, <5>2, EndOfTransfer
        <5> QED
          BY <1>2, <1>3, <5>1, <5>3 DEF Lcd!ModeFor, Lcd!Mode
      <4> QED
        BY <4>1, <4>2
    <3> QED
      BY <3>4, <3>5
  <2> QED
    BY <1>2, <2>1, <2>2
<1>5. Lcd!Predicted(p, n) = [ly |-> at.ly, lyc |-> at.ly = p.lyc,
                             mode |-> Lcd!ModeFor(p, at.ly, at.dots)]
  BY DEF Lcd!Predicted
<1>6. Lcd!Readable(q) = [ly |-> q.ly, lyc |-> q.ly = q.lyc, mode |-> Lcd!Mode(q)]
  BY DEF Lcd!Readable
<1> HIDE DEF at
<1> QED
  BY <1>2, <1>4, <1>5, <1>6 DEF q

(* A display that is off stands at the top of the picture.                      *)
OffAtTop == ~ ppu.on => ppu.ly = 0

LEMMA RefreshedStands ==
  ASSUME NEW p \in Ppus
  PROVE  Lcd!Refreshed(p).ly = p.ly /\ Lcd!Refreshed(p).on = p.on
<1>1. PICK s : s = Lcd!Selected(p)
  OBVIOUS
<1>2. Lcd!Refreshed(p) = [p EXCEPT !.line = s]
  BY <1>1 DEF Lcd!Refreshed
<1> QED
  BY <1>2 DEF Ppus

LEMMA OffAtTopStep == LcdInv /\ OffAtTop /\ Lcd!Next => OffAtTop'
<1> SUFFICES ASSUME LcdInv, OffAtTop, Lcd!Next PROVE OffAtTop'
  OBVIOUS
<1>0. ppu \in Ppus /\ Fits(ppu) /\ oam \in OamContents /\ OamContents # {}
  BY DEF LcdInv, Lcd!TypeOK, Ppus
<1>1. ASSUME NEW on \in BOOLEAN, NEW bg \in BOOLEAN, NEW win \in BOOLEAN, Lcd!WriteLcdc(on, bg, win)
      PROVE  OffAtTop'
  <2> DEFINE q == [ppu EXCEPT !.on = on, !.geo.bg = bg, !.geo.win = win]
             p == IF on = ppu.on THEN q ELSE [q EXCEPT !.ly = 0, !.dots = 0, !.penalty = 0]
  <2>1. p.geo \in Geometries /\ ppu' = Lcd!Refreshed(p)
    BY <1>1 DEF Lcd!WriteLcdc
  <2>2. q.on = on /\ q.ly = ppu.ly /\ q.dots = ppu.dots
    BY <1>0 DEF Ppus
  <2>3. (on = ppu.on => p.ly = ppu.ly /\ p.on = ppu.on) /\ (on # ppu.on => p.ly = 0)
    BY <1>0, <2>2 DEF Ppus
  <2>4. ppu'.ly = p.ly /\ ppu'.on = p.on
    <3>1. PICK s : s = Lcd!Selected(p)
      OBVIOUS
    <3>2. ppu' = [p EXCEPT !.line = s]
      BY <2>1, <3>1 DEF Lcd!Refreshed
    <3> QED
      BY <1>0, <3>2 DEF Ppus
  <2> HIDE DEF p, q
  <2> QED
    BY <2>3, <2>4 DEF OffAtTop
<1>2. ASSUME NEW g, Lcd!GeometryWritten(g) PROVE OffAtTop'
  <2>1. ppu'.ly = ppu.ly /\ ppu'.on = ppu.on
    BY <1>0, <1>2 DEF Lcd!GeometryWritten, Ppus
  <2> QED
    BY <2>1 DEF OffAtTop
<1>3. ASSUME NEW sel \in Enables, Lcd!WriteStat(sel) PROVE OffAtTop'
  <2>1. PICK p \in Ppus : p = [ppu EXCEPT !.stat = sel]
    BY <1>0, Sizes DEF Ppus
  <2>2. p.ly = ppu.ly /\ p.on = ppu.on
    BY <1>0, <2>1 DEF Ppus
  <2>3. ppu' = Lcd!Refreshed(p)
    BY <1>3, <2>1 DEF Lcd!WriteStat
  <2> QED
    BY <2>2, <2>3, RefreshedStands DEF OffAtTop
<1>4. ASSUME NEW l \in 0 .. TotalLines - 1, Lcd!WriteLyc(l) PROVE OffAtTop'
  <2>1. PICK p \in Ppus : p = [ppu EXCEPT !.lyc = l]
    BY <1>0 DEF Ppus
  <2>2. p.ly = ppu.ly /\ p.on = ppu.on
    BY <1>0, <2>1 DEF Ppus
  <2>3. ppu' = Lcd!Refreshed(p)
    BY <1>4, <2>1 DEF Lcd!WriteLyc
  <2> QED
    BY <2>2, <2>3, RefreshedStands DEF OffAtTop
<1>5. ASSUME NEW o \in OamContents, Lcd!WriteOam(o) PROVE OffAtTop'
  BY <1>5 DEF Lcd!WriteOam, OffAtTop
<1>6. ASSUME Lcd!SaveAndLoad PROVE OffAtTop'
  <2>1. PICK p \in Ppus : p = [ppu EXCEPT !.penalty = 0]
    BY <1>0 DEF Ppus
  <2>2. p.ly = ppu.ly /\ p.on = ppu.on
    BY <1>0, <2>1 DEF Ppus
  <2>3. PICK r \in Ppus : r = Lcd!Refreshed(p)
    BY SelectedShape
  <2>4. ppu' = Lcd!Latched(r, oam)
    BY <1>6, <2>1, <2>3 DEF Lcd!SaveAndLoad
  <2>5. ppu'.ly = r.ly /\ ppu'.on = r.on
    BY <1>0, <2>4, LatchedShape
  <2> QED
    BY <2>2, <2>3, <2>5, RefreshedStands DEF OffAtTop
<1>7. ASSUME NEW c \in 1 .. LineDots, Lcd!Advance(c) PROVE OffAtTop'
  <2> DEFINE p == IF Lcd!AtLineStart(ppu) THEN Lcd!Latched(ppu, oam) ELSE ppu
  <2>1. p \in Ppus /\ Fits(p) /\ p.on = ppu.on
    BY <1>0, LatchedShape
  <2>2. ppu' = Lcd!Pass(p, c).ppu
    BY <1>7 DEF Lcd!Advance
  <2> HIDE DEF p
  <2>3. CASE ~ p.on
    <3>1. PICK q \in Ppus : q = [p EXCEPT !.ly = 0, !.dots = 0]
      <4>1. 0 \in 0 .. TotalLines - 1 /\ 0 \in 0 .. LineDots - 1
        BY <2>1, Sizes DEF Ppus
      <4> QED
        BY <2>1, <4>1 DEF Ppus
    <3>2. q.ly = 0
      BY <2>1, <3>1 DEF Ppus
    <3>3. ppu' = Lcd!Refreshed(q)
      BY <2>2, <2>3, <3>1 DEF Lcd!Pass
    <3> QED
      BY <3>2, <3>3, RefreshedStands DEF OffAtTop
  <2>4. CASE p.on
    <3>1. c \in Nat \ {0} /\ p \in Places
      BY <2>1, Sizes DEF Places
    <3>2. c =< Lcd!Boundary(p)
      <4>1. c =< Lcd!Boundary(ppu)
        BY <1>7, <2>1, <2>4 DEF Lcd!Advance
      <4>2. CASE Lcd!AtLineStart(ppu)
        <5>1. p = Lcd!Latched(ppu, oam)
          BY <4>2 DEF p
        <5> QED
          BY <1>0, <4>1, <4>2, <5>1, LatchedAtStart
      <4>3. CASE ~ Lcd!AtLineStart(ppu)
        BY <4>1, <4>3 DEF p
      <4> QED
        BY <4>2, <4>3
    <3>3. ppu'.on = p.on
      BY <1>0, <2>2, <3>1, <3>2, PassShape
    <3> QED
      BY <2>4, <3>3 DEF OffAtTop
  <2> QED
    BY <2>3, <2>4
<1> QED
  BY <1>1, <1>2, <1>3, <1>4, <1>5, <1>6, <1>7, Zenon
     DEF Lcd!Next, Lcd!Program, Lcd!WriteScx, Lcd!WriteWx, Lcd!WriteWy

LEMMA DisplayOff == Lcd!Spec => []OffAtTop
<1>1. Lcd!Init => OffAtTop
  BY DEF Lcd!Init, Lcd!PowerOn, OffAtTop
<1>2. LcdInv /\ OffAtTop /\ [Lcd!Next]_(Lcd!vars) => OffAtTop'
  <2>1. OffAtTop /\ UNCHANGED Lcd!vars => OffAtTop'
    BY DEF OffAtTop, Lcd!vars
  <2> QED
    BY OffAtTopStep, <2>1
<1> QED
  BY DisplayInvariant, <1>1, <1>2, PTL DEF Lcd!Spec

(* Both twins of Ppu::tick end in the same display with the same interrupts,   *)
(* however the time is cut, for every state of the display a program can reach *)
(* and every length of time; and a load that polls STAT or LY is told what the *)
(* display will show at its last cycle (ppu/mod.rs, tick, tick_fast and        *)
(* predict_state_after_cycles).                                                *)
THEOREM TimeIsCutAnywhere == MCSpec => []TicksAgree
<1>1. LcdInv /\ OffAtTop => TicksAgree
  <2> SUFFICES ASSUME LcdInv, OffAtTop PROVE Lcd!TicksAgree /\ Lcd!PredictionHolds
    BY DEF TicksAgree
  <2>1. ppu \in Places /\ oam \in OamContents /\ OamContents # {} /\ (~ stale => Current(ppu))
    BY DEF LcdInv, Lcd!TypeOK, Places, Ppus, Current
  <2>2. Lcd!TicksAgree
    <3>1. Ticks \subseteq Nat
      BY LcdAssumption DEF Lcd!PpuParameters
    <3>2. \A n \in Ticks : /\ Lcd!Tick(ppu, n) = Lcd!TickFast(ppu, n)
                           /\ Current(ppu) => Lcd!Tick(ppu, n) = Lcd!DotByDot(ppu, n)
      BY <2>1, <3>1, CutsAgree
    <3> QED
      BY <2>1, <3>2 DEF Lcd!TicksAgree
  <2>3. Lcd!PredictionHolds
    <3>1. \A n \in 0 .. MaxAhead : n \in Looks
      BY LcdAssumption, Sizes DEF Lcd!PpuParameters, Looks
    <3>2. \A n \in Looks : Lcd!Predicted(ppu, n) = Lcd!Readable(Lcd!Clocked(ppu, oam, n))
      BY <2>1, PredictedIsShown DEF OffAtTop
    <3> QED
      BY <3>1, <3>2 DEF Lcd!PredictionHolds
  <2> QED
    BY <2>2, <2>3
<1> QED
  BY DisplayRuns, DisplayInvariant, DisplayOff, <1>1, PTL

-----------------------------------------------------------------------------
(* The bus. *)

BusBytes == 0 .. 255
Ends == {"low", "high"}
PaletteNames == {"bg", "obj"}
FlatAddresses == Bus!Windows \cup Bus!Oam \cup Bus!High \cup Bus!Mirrored
Kinds == {"rom", "vram", "wram"}

Palettes == [index : 0 .. PaletteSize - 1, auto : BOOLEAN,
             ram : [0 .. PaletteSize - 1 -> BusBytes]]

MemoryImages ==
  [flat : [FlatAddresses -> BusBytes], vram : [0 .. 1 -> BusBytes],
   wram : [0 .. SwitchedBanks -> [Ends -> BusBytes]],
   vbk : 0 .. 1, svbk : 0 .. SwitchedBanks, palettes : [PaletteNames -> Palettes]]

Contents == [Bus!CellNames -> BusBytes \cup Nat]

BusTypes ==
  /\ mem \in MemoryImages
  /\ cart \in [colour : {"no", "yes", "only"}, bank : BusBytes, ram : BusBytes]
  /\ io \in [Bus!Peripherals -> BusBytes]
  /\ stored \in Contents
  /\ cgb \in BOOLEAN
  /\ dma \in [active : BOOLEAN, source : Bus!Rom \cup Bus!Memories]
  /\ trace \in Seq([of : Kinds, to : Nat])

(* What each place of memory m holds is what was last stored in its cell.    *)
Keeps(m, s) ==
  /\ s[<<"VBK">>] = m.vbk /\ s[<<"SVBK">>] = Bus!ActiveWramBank(m)
  /\ \A b \in 0 .. 1 : m.vram[b] = s[<<"vram", b>>]
  /\ \A b \in 0 .. SwitchedBanks, o \in Ends : m.wram[b][o] = s[<<"wram", b, o>>]
  /\ m.flat["FE00"] = s[<<"FE00">>] /\ m.flat["FF80"] = s[<<"FF80">>]
  /\ \A k \in PaletteNames, i \in 0 .. PaletteSize - 1 : m.palettes[k].ram[i] = s[<<k, i>>]

Shows(m) == \A a \in Bus!Windows : m.flat[a] = Bus!ReadRam(m, a)

BusInv ==
  /\ BusTypes
  /\ Keeps(mem, stored) /\ cart.ram = stored[<<"A000">>]
  /\ Shows(mem)
  /\ Bus!TraceExplainsBanks
  /\ ~ cgb => mem.vbk = 0 /\ mem.svbk = 1

LEMMA BusSizes ==
  /\ SwitchedBanks \in Nat \ {0} /\ PaletteSize \in Nat \ {0}
  /\ Data \subseteq BusBytes /\ Carts \subseteq {"no", "yes", "only"}
  BY BusAssumption DEF Bus!BusParameters, BusBytes

(* The names of the cells, one kind at a time. *)
LEMMA Names ==
  /\ <<"VBK">> \in Bus!CellNames /\ <<"SVBK">> \in Bus!CellNames
  /\ <<"A000">> \in Bus!CellNames /\ <<"FE00">> \in Bus!CellNames /\ <<"FF80">> \in Bus!CellNames
  /\ \A b \in 0 .. 1 : <<"vram", b>> \in Bus!CellNames
  /\ \A b \in 0 .. SwitchedBanks, o \in Ends : <<"wram", b, o>> \in Bus!CellNames
  /\ \A k \in PaletteNames, i \in 0 .. PaletteSize - 1 : <<k, i>> \in Bus!CellNames
  BY DEF Bus!CellNames, Bus!CartRam, Bus!Oam, Bus!High, Ends, PaletteNames

LEMMA StoreVram ==
  ASSUME NEW m \in MemoryImages, NEW s \in Contents, Keeps(m, s), Shows(m), NEW v \in BusBytes
  PROVE  LET n == Bus!WriteRam(m, "8000", v)
         IN /\ n \in MemoryImages /\ Shows(n) /\ n.vbk = m.vbk /\ n.svbk = m.svbk
            /\ [s EXCEPT ![<<"vram", m.vbk>>] = v] \in Contents
            /\ Keeps(n, [s EXCEPT ![<<"vram", m.vbk>>] = v])
<1> DEFINE n == [m EXCEPT !.vram[m.vbk] = v, !.flat["8000"] = v]
           t == [s EXCEPT ![<<"vram", m.vbk>>] = v]
<1>1. Bus!WriteRam(m, "8000", v) = n
  BY DEF Bus!WriteRam, Bus!Vram
<1>2. n \in MemoryImages
  BY DEF MemoryImages, FlatAddresses, Bus!Windows, Bus!Vram
<1>3. n.vbk = m.vbk /\ n.svbk = m.svbk /\ n.wram = m.wram /\ n.palettes = m.palettes
      /\ n.vram = [m.vram EXCEPT ![m.vbk] = v] /\ n.flat = [m.flat EXCEPT !["8000"] = v]
  BY DEF MemoryImages
<1>4. t \in Contents
  BY DEF Contents
<1>5. Shows(n)
  <2> SUFFICES ASSUME NEW a \in Bus!Windows PROVE n.flat[a] = Bus!ReadRam(n, a)
    BY DEF Shows
  <2>1. m.flat[a] = Bus!ReadRam(m, a)
    BY DEF Shows
  <2> HIDE DEF n
  <2> QED
    BY <1>2, <1>3, <2>1 DEF Bus!ReadRam, Bus!Vram, Bus!Wram, Bus!Windows, MemoryImages, FlatAddresses,
       Bus!Bank, Bus!ActiveWramBank
<1>6. Keeps(n, t)
  <2> HIDE DEF n
  <2>1. \A c \in Bus!CellNames : c # <<"vram", m.vbk>> => t[c] = s[c]
    BY DEF Contents
  <2>2. t[<<"vram", m.vbk>>] = v
    BY Names DEF Contents, MemoryImages
  <2> HIDE DEF t
  <2> QED
    BY <1>2, <1>3, <2>1, <2>2, Names, SMTT(90) DEF Keeps, Bus!ActiveWramBank, MemoryImages, FlatAddresses, Bus!Windows, Bus!Vram,
       PaletteNames, Bus!Oam, Bus!High
<1> HIDE DEF n, t
<1> QED
  BY <1>1, <1>2, <1>3, <1>4, <1>5, <1>6 DEF t

(* A store to work RAM shows in its window, its echo, and nowhere else.      *)
LEMMA StoreWram ==
  ASSUME NEW m \in MemoryImages, NEW s \in Contents, Keeps(m, s), Shows(m), NEW v \in BusBytes,
         NEW a \in Bus!Wram
  PROVE  LET n == Bus!WriteRam(m, a, v)
             t == [s EXCEPT ![<<"wram", Bus!Bank(m, a), Bus!Offset(a)>>] = v]
         IN /\ n \in MemoryImages /\ Shows(n) /\ n.vbk = m.vbk /\ n.svbk = m.svbk
            /\ t \in Contents /\ Keeps(n, t)
<1> DEFINE bank == Bus!Bank(m, a)
           end == Bus!Offset(a)
           shown == {b \in Bus!Wram : Bus!Echoed(b) = Bus!Echoed(a)}
           seen == [b \in DOMAIN m.flat |-> IF b \in shown THEN v ELSE m.flat[b]]
           n == [m EXCEPT !.wram[bank][end] = v, !.flat = seen]
           t == [s EXCEPT ![<<"wram", bank, end>>] = v]
<1>1. Bus!WriteRam(m, a, v) = n
  BY DEF Bus!WriteRam, Bus!Vram, Bus!Wram, Bus!WriteWram
<1>2. bank \in 0 .. SwitchedBanks /\ end \in Ends
  BY BusSizes DEF MemoryImages, Bus!Bank, Bus!ActiveWramBank, Bus!Offset, Ends
<1>3. seen \in [FlatAddresses -> BusBytes]
  BY DEF MemoryImages
<1> HIDE DEF seen, bank, end
<1>4. n \in MemoryImages
  BY <1>2, <1>3 DEF MemoryImages
<1>5. n.vbk = m.vbk /\ n.svbk = m.svbk /\ n.vram = m.vram /\ n.palettes = m.palettes /\ n.flat = seen
      /\ n.wram = [m.wram EXCEPT ![bank][end] = v]
  BY DEF MemoryImages
<1>6. \A b \in 0 .. SwitchedBanks, o \in Ends :
        n.wram[b][o] = IF b = bank /\ o = end THEN v ELSE m.wram[b][o]
  BY <1>2, <1>5 DEF MemoryImages
<1> HIDE DEF n
<1>7. t \in Contents
  BY DEF Contents
<1>8. Shows(n)
  <2> SUFFICES ASSUME NEW b \in Bus!Windows PROVE n.flat[b] = Bus!ReadRam(n, b)
    BY DEF Shows
  <2>1. m.flat[b] = Bus!ReadRam(m, b) /\ b \in DOMAIN m.flat
    BY DEF Shows, MemoryImages, FlatAddresses
  <2>2. CASE b \in Bus!Vram
    BY <2>1, <2>2, <1>5 DEF Bus!ReadRam, Bus!Vram, Bus!Wram, seen
  <2>3. CASE b \in Bus!Wram
    <3>1. /\ Bus!Bank(n, b) = Bus!Bank(m, b) /\ Bus!Bank(m, b) \in 0 .. SwitchedBanks
          /\ Bus!Offset(b) \in Ends
      BY <1>5, BusSizes DEF Bus!Bank, Bus!ActiveWramBank, MemoryImages, Bus!Offset, Ends
    <3>2. Bus!ReadRam(n, b) = n.wram[Bus!Bank(m, b)][Bus!Offset(b)]
          /\ Bus!ReadRam(m, b) = m.wram[Bus!Bank(m, b)][Bus!Offset(b)]
      BY <2>3, <3>1 DEF Bus!ReadRam, Bus!Vram, Bus!Wram
    <3>3. (Bus!Bank(m, b) = bank /\ Bus!Offset(b) = end) <=> b \in shown
      BY <2>3, BusSizes DEF bank, end, Bus!Bank, Bus!ActiveWramBank, MemoryImages, Bus!Offset, Bus!Wram,
         Bus!Echoed
    <3> QED
      BY <2>1, <3>1, <3>2, <3>3, <1>5, <1>6 DEF seen
  <2> QED
    BY <2>2, <2>3 DEF Bus!Windows
<1>9. Keeps(n, t)
  <2>1. \A c \in Bus!CellNames : c # <<"wram", bank, end>> => t[c] = s[c]
    BY DEF Contents
  <2>2. t[<<"wram", bank, end>>] = v
    BY <1>2, Names DEF Contents
  <2>3. n.flat["FE00"] = m.flat["FE00"] /\ n.flat["FF80"] = m.flat["FF80"]
    BY <1>5 DEF seen, MemoryImages, FlatAddresses, Bus!Wram, Bus!Oam, Bus!High
  <2> HIDE DEF t
  <2>4. Bus!ActiveWramBank(n) = Bus!ActiveWramBank(m)
    BY <1>5 DEF Bus!ActiveWramBank
  <2>5. \A b \in 0 .. SwitchedBanks, o \in Ends : n.wram[b][o] = t[<<"wram", b, o>>]
    <3> SUFFICES ASSUME NEW b \in 0 .. SwitchedBanks, NEW o \in Ends
                 PROVE n.wram[b][o] = t[<<"wram", b, o>>]
      BY ZenonT(120)
    <3>1. m.wram[b][o] = s[<<"wram", b, o>>]
      BY DEF Keeps
    <3>2. CASE b = bank /\ o = end
      BY <3>2, <2>2, <1>6
    <3>3. CASE ~ (b = bank /\ o = end)
      BY <3>1, <3>3, <2>1, <1>6, Names
    <3> QED
      BY <3>2, <3>3
  <2>6. /\ \A b \in 0 .. 1 : t[<<"vram", b>>] = s[<<"vram", b>>]
        /\ \A k \in PaletteNames, i \in 0 .. PaletteSize - 1 : t[<<k, i>>] = s[<<k, i>>]
        /\ t[<<"VBK">>] = s[<<"VBK">>] /\ t[<<"SVBK">>] = s[<<"SVBK">>]
        /\ t[<<"FE00">>] = s[<<"FE00">>] /\ t[<<"FF80">>] = s[<<"FF80">>]
    BY <2>1, Names
  <2> QED
    BY <1>5, <2>3, <2>4, <2>5, <2>6 DEF Keeps
<1> HIDE DEF t
<1> QED
  BY <1>1, <1>4, <1>5, <1>7, <1>8, <1>9 DEF t, n, bank, end

(* A store to OAM, high RAM or a mirror shows in the flat image alone.       *)
LEMMA StoreFlat ==
  ASSUME NEW m \in MemoryImages, NEW s \in Contents, Keeps(m, s), Shows(m), NEW v \in BusBytes,
         NEW a \in Bus!Oam \cup Bus!High \cup Bus!Mirrored
  PROVE  LET n == Bus!WriteRam(m, a, v)
         IN /\ n \in MemoryImages /\ Shows(n) /\ n.vbk = m.vbk /\ n.svbk = m.svbk
            /\ a \in Bus!Oam \cup Bus!High =>
                 [s EXCEPT ![<<a>>] = v] \in Contents /\ Keeps(n, [s EXCEPT ![<<a>>] = v])
            /\ a \in Bus!Mirrored => Keeps(n, s)
<1> DEFINE n == [m EXCEPT !.flat[a] = v]
           t == [s EXCEPT ![<<a>>] = v]
<1>1. Bus!WriteRam(m, a, v) = n
  BY DEF Bus!WriteRam, Bus!Vram, Bus!Wram, Bus!Oam, Bus!High, Bus!Mirrored
<1>2. n \in MemoryImages
  BY DEF MemoryImages, FlatAddresses
<1>3. n.vbk = m.vbk /\ n.svbk = m.svbk /\ n.vram = m.vram /\ n.palettes = m.palettes
      /\ n.wram = m.wram /\ n.flat = [m.flat EXCEPT ![a] = v] /\ m.flat \in [FlatAddresses -> BusBytes]
      /\ a \in FlatAddresses
  BY DEF MemoryImages, FlatAddresses
<1> HIDE DEF n
<1>4. \A b \in Bus!Windows : Bus!ReadRam(n, b) = Bus!ReadRam(m, b)
  BY <1>3 DEF Bus!ReadRam, Bus!Windows, Bus!Vram, Bus!Wram, Bus!Bank, Bus!ActiveWramBank
<1>5. Shows(n)
  BY <1>3, <1>4 DEF Shows, Bus!Windows, Bus!Vram, Bus!Wram, Bus!Oam, Bus!High, Bus!Mirrored, FlatAddresses
<1>6. a \in Bus!Mirrored => Keeps(n, s)
  BY <1>3 DEF Keeps, Bus!Mirrored, FlatAddresses, Bus!Oam, Bus!High, Bus!ActiveWramBank
<1>7. a \in Bus!Oam \cup Bus!High => t \in Contents /\ Keeps(n, t)
  <2> SUFFICES ASSUME a \in Bus!Oam \cup Bus!High PROVE t \in Contents /\ Keeps(n, t)
    OBVIOUS
  <2>1. <<a>> \in Bus!CellNames /\ a \in {"FE00", "FF80"}
    BY Names DEF Bus!Oam, Bus!High
  <2>2. t \in Contents /\ t[<<a>>] = v /\ \A c \in Bus!CellNames : c # <<a>> => t[c] = s[c]
    BY <2>1 DEF Contents
  <2> HIDE DEF t
  <2>3. /\ \A b \in 0 .. 1 : t[<<"vram", b>>] = s[<<"vram", b>>]
        /\ \A b \in 0 .. SwitchedBanks, o \in Ends : t[<<"wram", b, o>>] = s[<<"wram", b, o>>]
        /\ \A k \in PaletteNames, i \in 0 .. PaletteSize - 1 : t[<<k, i>>] = s[<<k, i>>]
    BY <2>2, Names
  <2>4. t[<<"VBK">>] = s[<<"VBK">>] /\ t[<<"SVBK">>] = s[<<"SVBK">>]
    BY <2>1, <2>2, Names
  <2>5. n.flat["FE00"] = t[<<"FE00">>] /\ n.flat["FF80"] = t[<<"FF80">>]
    BY <1>3, <2>1, <2>2, Names DEF Keeps, FlatAddresses, Bus!Oam, Bus!High
  <2> QED
    BY <1>3, <2>2, <2>3, <2>4, <2>5 DEF Keeps, Bus!ActiveWramBank
<1> HIDE DEF t
<1> QED
  BY <1>1, <1>2, <1>3, <1>5, <1>6, <1>7 DEF t, n

(* A switch of the video bank refreshes the window behind it.                *)
LEMMA SwitchVbk ==
  ASSUME NEW m \in MemoryImages, NEW s \in Contents, Keeps(m, s), Shows(m), NEW v \in Nat
  PROVE  LET n == Bus!SetVbk(m, v)
             t == [s EXCEPT ![<<"VBK">>] = v % 2]
         IN /\ n \in MemoryImages /\ Shows(n) /\ n.vbk = v % 2 /\ n.svbk = m.svbk
            /\ t \in Contents /\ Keeps(n, t)
<1> DEFINE u == [m EXCEPT !.vbk = v % 2]
           n == [u EXCEPT !.flat["8000"] = u.vram[u.vbk]]
           t == [s EXCEPT ![<<"VBK">>] = v % 2]
<1>1. Bus!SetVbk(m, v) = n
  BY DEF Bus!SetVbk, Bus!RefreshVramWindow
<1>2. v % 2 \in 0 .. 1
  OBVIOUS
<1>3. u \in MemoryImages /\ u.vbk = v % 2 /\ u.svbk = m.svbk /\ u.vram = m.vram
      /\ u.wram = m.wram /\ u.palettes = m.palettes /\ u.flat = m.flat
  BY <1>2 DEF MemoryImages
<1> HIDE DEF u
<1>4. /\ n \in MemoryImages
      /\ n.vbk = u.vbk /\ n.svbk = m.svbk /\ n.vram = m.vram
      /\ n.wram = m.wram /\ n.palettes = m.palettes
      /\ n.flat = [m.flat EXCEPT !["8000"] = m.vram[v % 2]]
  BY <1>3 DEF MemoryImages, FlatAddresses, Bus!Windows, Bus!Vram
<1> HIDE DEF n
<1>5. m.flat \in [FlatAddresses -> BusBytes]
  BY DEF MemoryImages
<1>6. Shows(n)
  BY <1>3, <1>4, <1>5 DEF Shows, Bus!ReadRam, Bus!Vram, Bus!Wram, Bus!Windows, FlatAddresses,
     Bus!Bank, Bus!ActiveWramBank
<1>7. t \in Contents /\ t[<<"VBK">>] = v % 2 /\ \A c \in Bus!CellNames : c # <<"VBK">> => t[c] = s[c]
  BY <1>2, Names DEF Contents, BusBytes
<1> HIDE DEF t
<1>8. /\ \A b \in 0 .. 1 : t[<<"vram", b>>] = s[<<"vram", b>>]
      /\ \A b \in 0 .. SwitchedBanks, o \in Ends : t[<<"wram", b, o>>] = s[<<"wram", b, o>>]
      /\ \A k \in PaletteNames, i \in 0 .. PaletteSize - 1 : t[<<k, i>>] = s[<<k, i>>]
      /\ t[<<"SVBK">>] = s[<<"SVBK">>]
      /\ t[<<"FE00">>] = s[<<"FE00">>] /\ t[<<"FF80">>] = s[<<"FF80">>]
  BY <1>7, Names
<1>9. n.flat["FE00"] = m.flat["FE00"] /\ n.flat["FF80"] = m.flat["FF80"]
  BY <1>4, <1>5 DEF FlatAddresses, Bus!Oam, Bus!High
<1>10. Keeps(n, t)
  BY <1>3, <1>4, <1>7, <1>8, <1>9 DEF Keeps, Bus!ActiveWramBank
<1> QED
  BY <1>1, <1>3, <1>4, <1>6, <1>7, <1>10 DEF t

(* So does one of the work RAM bank, where bank 0 stands for bank 1.         *)
LEMMA SwitchSvbk ==
  ASSUME NEW m \in MemoryImages, NEW s \in Contents, Keeps(m, s), Shows(m),
         NEW v \in 0 .. SwitchedBanks
  PROVE  LET n == Bus!SetSvbk(m, v)
             t == [s EXCEPT ![<<"SVBK">>] = IF v = 0 THEN 1 ELSE v]
         IN /\ n \in MemoryImages /\ Shows(n) /\ n.vbk = m.vbk /\ n.svbk = v
            /\ t \in Contents /\ Keeps(n, t)
<1> DEFINE u == [m EXCEPT !.svbk = v % (SwitchedBanks + 1)]
           shown == [b \in DOMAIN u.flat |-> IF b \in Bus!Wram THEN Bus!ReadRam(u, b) ELSE u.flat[b]]
           n == [u EXCEPT !.flat = shown]
           t == [s EXCEPT ![<<"SVBK">>] = IF v = 0 THEN 1 ELSE v]
<1>1. Bus!SetSvbk(m, v) = n
  BY DEF Bus!SetSvbk, Bus!RefreshWramWindow
<1>2. v % (SwitchedBanks + 1) = v
  BY BusSizes
<1>3. u \in MemoryImages /\ u.vbk = m.vbk /\ u.svbk = v /\ u.vram = m.vram
      /\ u.wram = m.wram /\ u.palettes = m.palettes /\ u.flat = m.flat
  BY <1>2 DEF MemoryImages
<1> HIDE DEF u
<1>4. \A b \in Bus!Wram : Bus!Bank(u, b) \in 0 .. SwitchedBanks /\ Bus!Offset(b) \in Ends
  BY <1>3, BusSizes DEF Bus!Bank, Bus!ActiveWramBank, Bus!Offset, Ends
<1>5. \A b \in Bus!Wram : Bus!ReadRam(u, b) \in BusBytes
  BY <1>3, <1>4, ZenonT(120), ZenonT(120) DEF Bus!ReadRam, Bus!Vram, Bus!Wram, MemoryImages
<1>6. shown \in [FlatAddresses -> BusBytes]
  BY <1>3, <1>5 DEF MemoryImages
<1>7. \A b \in FlatAddresses : shown[b] = IF b \in Bus!Wram THEN Bus!ReadRam(u, b) ELSE m.flat[b]
  BY <1>3 DEF MemoryImages
<1> HIDE DEF shown
<1>8. /\ n \in MemoryImages
      /\ n.vbk = m.vbk /\ n.svbk = v /\ n.vram = m.vram
      /\ n.wram = m.wram /\ n.palettes = m.palettes /\ n.flat = shown
  BY <1>3, <1>6 DEF MemoryImages
<1> HIDE DEF n
<1>9. \A b \in Bus!Windows : b \in FlatAddresses /\ Bus!ReadRam(n, b) = Bus!ReadRam(u, b)
  BY <1>3, <1>8 DEF Bus!ReadRam, Bus!Windows, Bus!Vram, Bus!Wram, Bus!Bank, Bus!ActiveWramBank,
     FlatAddresses
<1>10. Shows(n)
  <2>1. m.flat["8000"] = Bus!ReadRam(n, "8000")
    BY <1>8 DEF Shows, Bus!ReadRam, Bus!Windows, Bus!Vram
  <2> QED
    BY <1>7, <1>8, <1>9, <2>1 DEF Shows, Bus!Windows, Bus!Vram, Bus!Wram
<1>11. t \in Contents /\ t[<<"SVBK">>] = (IF v = 0 THEN 1 ELSE v)
       /\ \A c \in Bus!CellNames : c # <<"SVBK">> => t[c] = s[c]
  BY BusSizes, Names DEF Contents
<1> HIDE DEF t
<1>12. /\ \A b \in 0 .. 1 : t[<<"vram", b>>] = s[<<"vram", b>>]
       /\ \A b \in 0 .. SwitchedBanks, o \in Ends : t[<<"wram", b, o>>] = s[<<"wram", b, o>>]
       /\ \A k \in PaletteNames, i \in 0 .. PaletteSize - 1 : t[<<k, i>>] = s[<<k, i>>]
       /\ t[<<"VBK">>] = s[<<"VBK">>]
       /\ t[<<"FE00">>] = s[<<"FE00">>] /\ t[<<"FF80">>] = s[<<"FF80">>]
  BY <1>11, Names
<1>13. n.flat["FE00"] = m.flat["FE00"] /\ n.flat["FF80"] = m.flat["FF80"]
  BY <1>7, <1>8 DEF FlatAddresses, Bus!Oam, Bus!High, Bus!Wram
<1>14. Keeps(n, t)
  BY <1>8, <1>11, <1>12, <1>13 DEF Keeps, Bus!ActiveWramBank
<1> QED
  BY <1>1, <1>8, <1>10, <1>11, <1>14 DEF t

(* The palettes lie beside the rest of memory. *)
LEMMA OtherPalettes ==
  ASSUME NEW m \in MemoryImages, NEW k \in PaletteNames, NEW p \in Palettes
  PROVE  LET n == [m EXCEPT !.palettes[k] = p]
         IN /\ n \in MemoryImages /\ n.vbk = m.vbk /\ n.svbk = m.svbk /\ n.vram = m.vram
            /\ n.wram = m.wram /\ n.flat = m.flat
            /\ \A j \in PaletteNames : n.palettes[j] = IF j = k THEN p ELSE m.palettes[j]
            /\ Shows(m) => Shows(n)
<1> DEFINE n == [m EXCEPT !.palettes[k] = p]
<1>1. /\ n \in MemoryImages /\ n.vbk = m.vbk /\ n.svbk = m.svbk /\ n.vram = m.vram
      /\ n.wram = m.wram /\ n.flat = m.flat
      /\ \A j \in PaletteNames : n.palettes[j] = IF j = k THEN p ELSE m.palettes[j]
  BY DEF MemoryImages
<1> HIDE DEF n
<1>2. Shows(m) => Shows(n)
  BY <1>1 DEF Shows, Bus!ReadRam, Bus!Bank, Bus!ActiveWramBank
<1> QED
  BY <1>1, <1>2 DEF n

LEMMA IndexKeeps ==
  ASSUME NEW p \in Palettes, NEW i \in 0 .. PaletteSize - 1, NEW auto \in BOOLEAN
  PROVE  Bus!SetIndex(p, i, auto) \in Palettes /\ Bus!SetIndex(p, i, auto).ram = p.ram
<1>1. i % PaletteSize \in 0 .. PaletteSize - 1
  BY BusSizes
<1> QED
  BY <1>1 DEF Palettes, Bus!SetIndex

(* The index moves on behind a store, refused or not.                        *)
LEMMA PaletteStore ==
  ASSUME NEW p \in Palettes, NEW v \in BusBytes, NEW blocked \in BOOLEAN
  PROVE  LET q == Bus!WritePalette(p, v, blocked)
         IN /\ q \in Palettes /\ p.index \in 0 .. PaletteSize - 1
            /\ \A i \in 0 .. PaletteSize - 1 :
                 q.ram[i] = IF i = p.index /\ ~ blocked THEN v ELSE p.ram[i]
<1> DEFINE w == IF blocked THEN p.ram[p.index] ELSE v
           next == IF p.auto THEN (p.index + 1) % PaletteSize ELSE p.index
           q == [p EXCEPT !.ram[p.index] = w, !.index = next]
<1>1. Bus!WritePalette(p, v, blocked) = q
  BY DEF Bus!WritePalette
<1>2. p.index \in 0 .. PaletteSize - 1 /\ p.ram \in [0 .. PaletteSize - 1 -> BusBytes] /\ p.auto \in BOOLEAN
  BY DEF Palettes
<1>3. next \in 0 .. PaletteSize - 1
  BY <1>2, BusSizes
<1>4. w \in BusBytes
  BY <1>2
<1> HIDE DEF next
<1>5. \A i \in 0 .. PaletteSize - 1 :
        (IF i = p.index THEN w ELSE p.ram[i]) = IF i = p.index /\ ~ blocked THEN v ELSE p.ram[i]
  OBVIOUS
<1> HIDE DEF w
<1>6. q \in Palettes /\ \A i \in 0 .. PaletteSize - 1 : q.ram[i] = IF i = p.index THEN w ELSE p.ram[i]
  BY <1>2, <1>3, <1>4 DEF Palettes
<1> QED
  BY <1>1, <1>2, <1>5, <1>6

(* What the observers are told: nothing new, a switch, or a new step.        *)
LEMMA BanksAre ==
  ASSUME mem \in MemoryImages, cart.bank \in BusBytes
  PROVE  /\ Bus!Banks["rom"] = cart.bank /\ Bus!Banks["vram"] = mem.vbk
         /\ Bus!Banks["wram"] = Bus!ActiveWramBank(mem)
         /\ DOMAIN Bus!Banks = Kinds
  BY DEF Bus!Banks, Kinds

LEMMA NothingTold ==
  ASSUME Bus!TraceExplainsBanks, UNCHANGED <<trace, since>>, Bus!Banks' = Bus!Banks
  PROVE  Bus!TraceExplainsBanks'
  BY DEF Bus!TraceExplainsBanks, Bus!LastTold

LEMMA NewStep ==
  ASSUME trace' = <<>>, since' = Bus!Banks'
  PROVE  Bus!TraceExplainsBanks'
  BY DEF Bus!TraceExplainsBanks

LEMMA SwitchTold ==
  ASSUME Bus!TraceExplainsBanks, trace \in Seq([of : Kinds, to : Nat]), DOMAIN Bus!Banks = Kinds,
         NEW k \in Kinds, NEW b \in Nat, UNCHANGED since,
         trace' = Append(trace, [of |-> k, to |-> b]),
         Bus!Banks' = [Bus!Banks EXCEPT ![k] = b]
  PROVE  Bus!TraceExplainsBanks' /\ trace' \in Seq([of : Kinds, to : Nat])
<1> DEFINE e == [of |-> k, to |-> b]
<1>1. e \in [of : Kinds, to : Nat] /\ e.of = k /\ e.to = b
  OBVIOUS
<1> HIDE DEF e
<1>2. /\ trace' \in Seq([of : Kinds, to : Nat]) /\ Len(trace') = Len(trace) + 1
      /\ \A i \in 1 .. Len(trace) : trace'[i] = trace[i]
      /\ trace'[Len(trace) + 1] = e /\ Len(trace) \in Nat
      /\ DOMAIN trace = 1 .. Len(trace) /\ DOMAIN trace' = 1 .. Len(trace')
  <2>1. trace' = Append(trace, e)
    BY DEF e
  <2> QED
    BY <1>1, <2>1
<1>3. DOMAIN Bus!Banks' = Kinds
  OBVIOUS
<1>4. SUFFICES ASSUME NEW kind \in Kinds
               PROVE \/ \E i \in DOMAIN trace' : Bus!LastTold(kind, i)' /\ trace'[i].to = Bus!Banks'[kind]
                     \/ (\A i \in DOMAIN trace' : trace'[i].of # kind) /\ Bus!Banks'[kind] = since'[kind]
  BY <1>2, <1>3 DEF Bus!TraceExplainsBanks
<1>5. CASE kind = k
  <2>1. Bus!Banks'[kind] = b
    BY <1>5
  <2>2. PICK n \in Nat : n = Len(trace) + 1
    BY <1>2
  <2>3. Bus!LastTold(kind, n)'
    BY <1>1, <1>2, <1>5, <2>2 DEF Bus!LastTold
  <2>4. n \in DOMAIN trace' /\ trace'[n] = e
    BY <1>2, <2>2
  <2> QED
    BY <1>1, <2>1, <2>3, <2>4
<1>6. CASE kind # k
  <2>1. Bus!Banks'[kind] = Bus!Banks[kind]
    BY <1>6
  <2>2. CASE \E i \in DOMAIN trace : Bus!LastTold(kind, i) /\ trace[i].to = Bus!Banks[kind]
    <3>1. PICK i \in DOMAIN trace : Bus!LastTold(kind, i) /\ trace[i].to = Bus!Banks[kind]
      BY <2>2
    <3>2. Bus!LastTold(kind, i)'
      BY <1>1, <1>2, <1>6, <3>1 DEF Bus!LastTold
    <3> QED
      BY <1>2, <2>1, <3>1, <3>2
  <2>3. CASE (\A i \in DOMAIN trace : trace[i].of # kind) /\ Bus!Banks[kind] = since[kind]
    BY <1>1, <1>2, <1>6, <2>1, <2>3
  <2> QED
    BY <2>2, <2>3 DEF Bus!TraceExplainsBanks
<1> QED
  BY <1>5, <1>6

-----------------------------------------------------------------------------
(* A new machine, whatever its cartridge and the mode asked for.             *)
LEMMA BootedKeeps ==
  ASSUME NEW colour, NEW forced
  PROVE  LET m == Bus!Booted(colour, forced)
         IN /\ m \in MemoryImages /\ Shows(m) /\ m.vbk = 0 /\ m.svbk = 1
            /\ Bus!Cells(m) \in Contents /\ Keeps(m, Bus!Cells(m))
            /\ Bus!Cells(m)[<<"A000">>] = 0
<1> DEFINE m == Bus!Booted(colour, forced)
           plain == [k \in PaletteNames |->
             [index |-> 0, auto |-> FALSE,
              ram |-> [i \in 0 .. PaletteSize - 1 |-> IF k = "bg" THEN 255 ELSE 0]]]
           filled == [k \in PaletteNames |->
             [index |-> 0, auto |-> FALSE, ram |-> [i \in 0 .. PaletteSize - 1 |-> (i % 2) + 1]]]
           pals == IF Bus!Colour(colour, forced) /\ colour = "no" THEN filled ELSE plain
<1>1. plain \in [PaletteNames -> Palettes]
  BY BusSizes DEF Palettes, BusBytes, PaletteNames
<1>2. filled \in [PaletteNames -> Palettes]
  <2>1. \A i \in 0 .. PaletteSize - 1 : (i % 2) + 1 \in BusBytes
    BY BusSizes DEF BusBytes
  <2> QED
    BY <2>1, BusSizes DEF Palettes
<1>3. /\ Bus!PowerOn.palettes = plain
      /\ Bus!Compatible(Bus!PowerOn).palettes = filled
  BY DEF Bus!PowerOn, Bus!Compatible, PaletteNames, Bus!Open
<1>4. m.palettes = pals /\ pals \in [PaletteNames -> Palettes]
  BY <1>1, <1>2, <1>3 DEF Bus!Booted
<1>5. /\ m.flat = [a \in FlatAddresses |-> 0] /\ m.vram = [b \in 0 .. 1 |-> 0]
      /\ m.wram = [b \in 0 .. SwitchedBanks |-> [o \in Ends |-> 0]]
      /\ m.vbk = 0 /\ m.svbk = 1
      /\ m = [flat |-> m.flat, vram |-> m.vram, wram |-> m.wram, vbk |-> m.vbk, svbk |-> m.svbk,
              palettes |-> m.palettes]
  BY DEF Bus!Booted, Bus!PowerOn, Bus!Compatible, FlatAddresses, Ends
<1> HIDE DEF m, pals
<1>6. m \in MemoryImages
  BY <1>4, <1>5, BusSizes, SMTT(90) DEF MemoryImages, BusBytes
<1>7. Shows(m)
  BY <1>5, BusSizes DEF Shows, Bus!ReadRam, Bus!Windows, Bus!Vram, Bus!Wram, Bus!Bank, Bus!ActiveWramBank,
     Bus!Offset, FlatAddresses, Ends
<1>8. /\ Bus!Cells(m)[<<"VBK">>] = 0 /\ Bus!Cells(m)[<<"SVBK">>] = 1 /\ Bus!Cells(m)[<<"A000">>] = 0
      /\ Bus!Cells(m)[<<"FE00">>] = 0 /\ Bus!Cells(m)[<<"FF80">>] = 0
  BY Names DEF Bus!Cells
<1>9. /\ \A b \in 0 .. 1 : Bus!Cells(m)[<<"vram", b>>] = 0
      /\ \A b \in 0 .. SwitchedBanks, o \in Ends : Bus!Cells(m)[<<"wram", b, o>>] = 0
  BY Names DEF Bus!Cells
<1>10. \A k \in PaletteNames, i \in 0 .. PaletteSize - 1 : Bus!Cells(m)[<<k, i>>] = m.palettes[k].ram[i]
  BY Names DEF Bus!Cells, PaletteNames
<1>11. Keeps(m, Bus!Cells(m))
  BY <1>5, <1>8, <1>9, <1>10 DEF Keeps, Bus!ActiveWramBank, FlatAddresses, Bus!Oam, Bus!High
<1>12. Bus!Cells(m) \in Contents
  <2> SUFFICES ASSUME NEW c \in Bus!CellNames PROVE Bus!Cells(m)[c] \in BusBytes \cup Nat
    BY DEF Contents, Bus!Cells
  <2>1. CASE c[1] \in PaletteNames /\ c[1] # "SVBK"
    <3>1. c \in PaletteNames \X (0 .. PaletteSize - 1)
      BY <2>1 DEF Bus!CellNames, PaletteNames, Bus!CartRam, Bus!Oam, Bus!High
    <3>2. PICK k \in PaletteNames, i \in 0 .. PaletteSize - 1 : c = <<k, i>>
      BY <3>1
    <3>3. m.palettes[k].ram[i] \in BusBytes
      BY <1>6, ZenonT(120), ZenonT(120) DEF MemoryImages, Palettes
    <3> QED
      BY <3>2, <3>3, <1>10
  <2>2. CASE ~ (c[1] \in PaletteNames /\ c[1] # "SVBK")
    BY <2>2 DEF Bus!Cells, PaletteNames
  <2> QED
    BY <2>1, <2>2
<1> QED
  BY <1>5, <1>6, <1>7, <1>8, <1>11, <1>12 DEF m

LEMMA InitBusInv == MCInit => BusInv
<1> SUFFICES ASSUME MCInit PROVE BusInv
  OBVIOUS
<1>1. Bus!Init
  BY DEF MCInit
<1>2. PICK colour \in Carts, forced \in {"none", "dmg", "cgb"} :
        /\ cgb = Bus!Colour(colour, forced)
        /\ cart = [colour |-> colour, bank |-> 1, ram |-> 0]
        /\ mem = Bus!Booted(colour, forced)
  BY <1>1 DEF Bus!Init
<1>3. mem \in MemoryImages /\ Shows(mem) /\ mem.vbk = 0 /\ mem.svbk = 1
      /\ stored \in Contents /\ Keeps(mem, stored) /\ stored[<<"A000">>] = 0
  BY <1>1, <1>2, BootedKeeps DEF Bus!Init
<1>4. Bus!TraceExplainsBanks
  BY <1>1 DEF Bus!Init, Bus!TraceExplainsBanks
<1>5. cgb \in BOOLEAN
  BY <1>2 DEF Bus!Colour
<1>6. io \in [Bus!Peripherals -> BusBytes]
  BY <1>1 DEF Bus!Init, Bus!PostBoot, BusBytes
<1>7. BusTypes
  <2>1. cart \in [colour : {"no", "yes", "only"}, bank : BusBytes, ram : BusBytes]
    BY <1>2, BusSizes DEF BusBytes
  <2>2. dma \in [active : BOOLEAN, source : Bus!Rom \cup Bus!Memories] /\ trace = <<>>
    BY <1>1 DEF Bus!Init, Bus!Rom
  <2> QED
    BY <1>3, <1>5, <1>6, <2>1, <2>2 DEF BusTypes
<1> QED
  BY <1>2, <1>3, <1>4, <1>7 DEF BusInv

(* The cell that an address means is the place memory has for it.            *)
LEMMA CellMeans ==
  ASSUME BusInv, NEW a \in Bus!Memories
  PROVE  Bus!CellOf(a) = IF a \in Bus!Vram THEN <<"vram", mem.vbk>>
                         ELSE IF a \in Bus!Wram THEN <<"wram", Bus!Bank(mem, a), Bus!Offset(a)>>
                         ELSE <<a>>
<1>1. stored[<<"VBK">>] = mem.vbk /\ stored[<<"SVBK">>] = Bus!ActiveWramBank(mem)
  BY DEF BusInv, Keeps
<1>2. CASE a \in Bus!Vram
  BY <1>1, <1>2 DEF Bus!CellOf, Bus!Vram
<1>3. CASE a \in Bus!Wram
  BY <1>1, <1>3 DEF Bus!CellOf, Bus!Vram, Bus!Wram, Bus!Bank, Bus!Offset, Bus!Echoed
<1>4. CASE a \notin Bus!Vram \cup Bus!Wram
  BY <1>4 DEF Bus!CellOf, Bus!Vram, Bus!Wram
<1> QED
  BY <1>2, <1>3, <1>4

LEMMA PlacesAreBytes ==
  ASSUME BusInv, NEW a \in Bus!Rom \cup Bus!Memories
  PROVE  Bus!ReadForDma(a) \in BusBytes
<1> USE DEF BusInv, BusTypes
<1>1. CASE a \in Bus!Rom \cup Bus!CartRam
  BY <1>1 DEF Bus!ReadForDma
<1>2. CASE a \in Bus!Vram
  BY <1>2 DEF Bus!ReadForDma, Bus!ReadRam, Bus!Rom, Bus!CartRam, Bus!Vram, MemoryImages
<1>3. CASE a \in Bus!Wram
  <2>1. Bus!Bank(mem, a) \in 0 .. SwitchedBanks /\ Bus!Offset(a) \in Ends
    BY BusSizes DEF Bus!Bank, Bus!ActiveWramBank, MemoryImages, Bus!Offset, Ends
  <2>2. mem.wram[Bus!Bank(mem, a)][Bus!Offset(a)] \in BusBytes
    BY <2>1, ZenonT(120), ZenonT(120) DEF MemoryImages
  <2> QED
    BY <1>3, <2>2 DEF Bus!ReadForDma, Bus!ReadRam, Bus!Rom, Bus!CartRam, Bus!Vram, Bus!Wram
<1>4. CASE a \in Bus!Oam \cup Bus!High
  BY <1>4 DEF Bus!ReadForDma, Bus!ReadRam, Bus!Rom, Bus!CartRam, Bus!Vram, Bus!Wram, Bus!Oam, Bus!High,
     MemoryImages, FlatAddresses
<1> QED
  BY <1>1, <1>2, <1>3, <1>4 DEF Bus!Memories, Bus!Windows

(* The banks told to observers do not see what is stored. *)
LEMMA SameBanks ==
  ASSUME mem'.vbk = mem.vbk, mem'.svbk = mem.svbk, cart'.bank = cart.bank
  PROVE  Bus!Banks' = Bus!Banks
  BY DEF Bus!Banks, Bus!ActiveWramBank

(* A byte stored by the program or by a transfer: one cell changes.          *)
LEMMA ByteStored ==
  ASSUME BusInv, NEW a \in Bus!Memories \ Bus!CartRam, NEW v \in BusBytes,
         mem' = Bus!WriteRam(mem, a, v), stored' = [stored EXCEPT ![Bus!CellOf(a)] = v],
         UNCHANGED <<cart, io, cgb, trace, since>>,
         dma' \in [active : BOOLEAN, source : Bus!Rom \cup Bus!Memories]
  PROVE  BusInv'
<1>1. /\ mem \in MemoryImages /\ stored \in Contents /\ Keeps(mem, stored) /\ Shows(mem)
      /\ a \in Bus!Vram \cup Bus!Wram \cup Bus!Oam \cup Bus!High
  BY DEF BusInv, BusTypes, Bus!Memories, Bus!Windows
<1>2. /\ mem' \in MemoryImages /\ Shows(mem') /\ mem'.vbk = mem.vbk /\ mem'.svbk = mem.svbk
      /\ stored' \in Contents /\ Keeps(mem', stored')
  <2>1. CASE a \in Bus!Vram
    <3>1. a = "8000" /\ Bus!CellOf(a) = <<"vram", mem.vbk>>
      BY <2>1, CellMeans DEF Bus!Vram
    <3> QED
      BY <1>1, <3>1, StoreVram
  <2>2. CASE a \in Bus!Wram
    <3>1. Bus!CellOf(a) = <<"wram", Bus!Bank(mem, a), Bus!Offset(a)>>
      BY <2>2, CellMeans DEF Bus!Vram, Bus!Wram
    <3> QED
      BY <1>1, <2>2, <3>1, StoreWram
  <2>3. CASE a \in Bus!Oam \cup Bus!High
    <3>1. Bus!CellOf(a) = <<a>>
      BY <2>3, CellMeans DEF Bus!Vram, Bus!Wram, Bus!Oam, Bus!High
    <3> QED
      BY <1>1, <2>3, <3>1, StoreFlat, ZenonT(120)
  <2> QED
    BY <1>1, <2>1, <2>2, <2>3
<1>3. stored'[<<"A000">>] = stored[<<"A000">>]
  <2>1. Bus!CellOf(a) # <<"A000">>
    BY CellMeans DEF Bus!CartRam
  <2> QED
    BY <1>1, <2>1, Names DEF Contents
<1>4. Bus!TraceExplainsBanks'
  BY <1>2, NothingTold, SameBanks DEF BusInv
<1>5. BusTypes'
  BY <1>2 DEF BusInv, BusTypes
<1> QED
  BY <1>2, <1>3, <1>4, <1>5 DEF BusInv

(* A step in which neither memory nor what is told of it changes.            *)
LEMMA MemoryUntouched ==
  ASSUME BusInv, UNCHANGED <<mem, stored, cgb>>, cart'.ram = cart.ram,
         cart' \in [colour : {"no", "yes", "only"}, bank : BusBytes, ram : BusBytes],
         io' \in [Bus!Peripherals -> BusBytes],
         dma' \in [active : BOOLEAN, source : Bus!Rom \cup Bus!Memories],
         Bus!TraceExplainsBanks', trace' \in Seq([of : Kinds, to : Nat])
  PROVE  BusInv'
  BY DEF BusInv, BusTypes

LEMMA MemoryWritten ==
  ASSUME BusInv, NEW a \in Bus!Memories, NEW v \in Data, Bus!WriteMemory(a, v),
         UNCHANGED <<cgb, since>>
  PROVE  BusInv'
<1>1. v \in BusBytes
  BY BusSizes
<1>2. CASE a \in Bus!CartRam
  <2>1. a = "A000" /\ Bus!CellOf(a) = <<"A000">>
    BY <1>2, CellMeans DEF Bus!CartRam, Bus!Vram, Bus!Wram
  <2>2. cart' = [cart EXCEPT !.ram = v] /\ UNCHANGED <<mem, io, dma, trace>>
        /\ stored' = [stored EXCEPT ![<<"A000">>] = v]
    BY <1>2, <2>1 DEF Bus!WriteMemory, Bus!StoredAt
  <2>3. /\ stored \in Contents /\ stored' \in Contents /\ stored'[<<"A000">>] = v
        /\ \A c \in Bus!CellNames : c # <<"A000">> => stored'[c] = stored[c]
    BY <1>1, <2>2, Names DEF BusInv, BusTypes, Contents
  <2>4. Keeps(mem', stored')
    <3>1. /\ \A b \in 0 .. 1 : stored'[<<"vram", b>>] = stored[<<"vram", b>>]
          /\ \A b \in 0 .. SwitchedBanks, o \in Ends :
               stored'[<<"wram", b, o>>] = stored[<<"wram", b, o>>]
          /\ \A k \in PaletteNames, i \in 0 .. PaletteSize - 1 : stored'[<<k, i>>] = stored[<<k, i>>]
          /\ stored'[<<"VBK">>] = stored[<<"VBK">>] /\ stored'[<<"SVBK">>] = stored[<<"SVBK">>]
          /\ stored'[<<"FE00">>] = stored[<<"FE00">>] /\ stored'[<<"FF80">>] = stored[<<"FF80">>]
      BY <2>3, Names
    <3>2. mem' = mem /\ Keeps(mem, stored)
      BY <2>2 DEF BusInv
    <3> QED
      BY <3>1, <3>2 DEF Keeps
  <2>5. cart' \in [colour : {"no", "yes", "only"}, bank : BusBytes, ram : BusBytes]
        /\ cart'.ram = v /\ cart'.bank = cart.bank
    BY <1>1, <2>2 DEF BusInv, BusTypes
  <2>6. Bus!TraceExplainsBanks'
    BY <2>2, <2>5, NothingTold, SameBanks DEF BusInv
  <2> QED
    BY <2>2, <2>3, <2>4, <2>5, <2>6 DEF BusInv, BusTypes
<1>3. CASE a \notin Bus!CartRam
  BY <1>1, <1>3, ByteStored DEF Bus!WriteMemory, Bus!StoredAt, BusInv, BusTypes
<1> QED
  BY <1>2, <1>3

LEMMA MapperWritten ==
  ASSUME BusInv, NEW v \in Data, Bus!WriteMapper(v), UNCHANGED <<cgb, since>>
  PROVE  BusInv'
<1>1. v \in BusBytes /\ v \in Nat /\ cart' = [cart EXCEPT !.bank = v]
  BY BusSizes DEF Bus!WriteMapper, BusBytes
<1>2. /\ cart' \in [colour : {"no", "yes", "only"}, bank : BusBytes, ram : BusBytes]
      /\ cart'.ram = cart.ram /\ cart'.bank = v
  BY <1>1 DEF BusInv, BusTypes
<1>3. Bus!TraceExplainsBanks' /\ trace' \in Seq([of : Kinds, to : Nat])
  <2>1. CASE v = cart.bank
    BY <1>2, <2>1, NothingTold, SameBanks DEF Bus!WriteMapper, BusInv, BusTypes
  <2>2. CASE v # cart.bank
    <3>1. Bus!Banks' = [Bus!Banks EXCEPT !["rom"] = v]
      BY <1>2 DEF Bus!Banks, Bus!WriteMapper, Bus!ActiveWramBank
    <3>2. trace' = Append(trace, [of |-> "rom", to |-> v])
      BY <2>2 DEF Bus!WriteMapper, Bus!Noted
    <3>3. DOMAIN Bus!Banks = Kinds /\ "rom" \in Kinds
      BY DEF Bus!Banks, Kinds
    <3>4. Bus!TraceExplainsBanks /\ trace \in Seq([of : Kinds, to : Nat])
      BY DEF BusInv, BusTypes
    <3> QED
      BY <1>1, <3>1, <3>2, <3>3, <3>4, SwitchTold
  <2> QED
    BY <2>1, <2>2
<1> QED
  BY <1>2, <1>3, MemoryUntouched DEF Bus!WriteMapper, BusInv, BusTypes

LEMMA BankWritten ==
  ASSUME BusInv, NEW a \in Bus!BankRegisters, NEW v \in 0 .. SwitchedBanks, Bus!WriteBank(a, v),
         UNCHANGED <<cgb, since>>
  PROVE  BusInv'
<1> DEFINE kind == IF a = "FF4F" THEN "vram" ELSE "wram"
           bank == IF a = "FF4F" THEN v % 2 ELSE IF v = 0 THEN 1 ELSE v
<1>1. /\ mem \in MemoryImages /\ stored \in Contents /\ Keeps(mem, stored) /\ Shows(mem)
      /\ Bus!TraceExplainsBanks /\ trace \in Seq([of : Kinds, to : Nat])
  BY DEF BusInv, BusTypes
<1>2. cgb /\ UNCHANGED <<cart, io, dma>>
  BY DEF Bus!WriteBank
<1>3. /\ mem' \in MemoryImages /\ Shows(mem') /\ stored' \in Contents /\ Keeps(mem', stored')
      /\ Bus!Banks' = [Bus!Banks EXCEPT ![kind] = bank]
      /\ trace' = Append(trace, [of |-> kind, to |-> bank])
      /\ stored'[<<"A000">>] = stored[<<"A000">>]
  <2>1. CASE a = "FF4F"
    <3>1. mem' = Bus!SetVbk(mem, v) /\ stored' = [stored EXCEPT ![<<"VBK">>] = v % 2]
          /\ trace' = Append(trace, [of |-> "vram", to |-> mem'.vbk])
      BY <2>1 DEF Bus!WriteBank, Bus!StoredAt, Bus!Noted
    <3>2. /\ mem' \in MemoryImages /\ Shows(mem') /\ stored' \in Contents /\ Keeps(mem', stored')
          /\ mem'.vbk = v % 2 /\ mem'.svbk = mem.svbk
      <4>1. v \in Nat
        BY BusSizes
      <4> QED
        BY <1>1, <3>1, <4>1, SwitchVbk
    <3>3. Bus!Banks' = [Bus!Banks EXCEPT !["vram"] = v % 2]
      BY <1>2, <3>2 DEF Bus!Banks, Bus!ActiveWramBank
    <3>4. stored'[<<"A000">>] = stored[<<"A000">>]
      BY <1>1, <3>1, Names DEF Contents
    <3> QED
      BY <2>1, <3>1, <3>2, <3>3, <3>4
  <2>2. CASE a = "FF70"
    <3>1. mem' = Bus!SetSvbk(mem, v) /\ stored' = [stored EXCEPT ![<<"SVBK">>] = IF v = 0 THEN 1 ELSE v]
          /\ trace' = Append(trace, [of |-> "wram", to |-> Bus!ActiveWramBank(mem')])
      BY <2>2 DEF Bus!WriteBank, Bus!StoredAt, Bus!Noted
    <3>2. /\ mem' \in MemoryImages /\ Shows(mem') /\ stored' \in Contents /\ Keeps(mem', stored')
          /\ mem'.vbk = mem.vbk /\ mem'.svbk = v
      BY <1>1, <3>1, SwitchSvbk
    <3>3. Bus!ActiveWramBank(mem') = IF v = 0 THEN 1 ELSE v
      BY <3>2 DEF Bus!ActiveWramBank
    <3>4. Bus!Banks' = [Bus!Banks EXCEPT !["wram"] = IF v = 0 THEN 1 ELSE v]
      BY <1>2, <3>2, <3>3 DEF Bus!Banks
    <3>5. stored'[<<"A000">>] = stored[<<"A000">>]
      BY <1>1, <3>1, Names DEF Contents
    <3> QED
      BY <2>2, <3>1, <3>2, <3>3, <3>4, <3>5
  <2> QED
    BY <2>1, <2>2 DEF Bus!BankRegisters
<1>4. kind \in Kinds /\ bank \in Nat /\ DOMAIN Bus!Banks = Kinds
  BY BusSizes DEF Kinds, Bus!Banks
<1> HIDE DEF kind, bank
<1>5. Bus!TraceExplainsBanks' /\ trace' \in Seq([of : Kinds, to : Nat])
  BY <1>1, <1>3, <1>4, SwitchTold
<1> QED
  BY <1>2, <1>3, <1>5 DEF BusInv, BusTypes

LEMMA PaletteIndexWritten ==
  ASSUME BusInv, NEW a \in Bus!PaletteRegisters, NEW i \in 0 .. PaletteSize - 1,
         NEW auto \in BOOLEAN, Bus!WritePaletteIndex(a, i, auto), UNCHANGED <<cgb, since>>
  PROVE  BusInv'
<1> DEFINE k == Bus!PaletteOf(a)
           p == Bus!SetIndex(mem.palettes[k], i, auto)
<1>1. mem \in MemoryImages /\ Keeps(mem, stored) /\ Shows(mem)
  BY DEF BusInv, BusTypes
<1>2. k \in PaletteNames /\ mem.palettes[k] \in Palettes
  BY <1>1 DEF Bus!PaletteOf, PaletteNames, MemoryImages
<1>3. p \in Palettes /\ p.ram = mem.palettes[k].ram
  BY <1>2, IndexKeeps
<1>4. /\ cgb /\ UNCHANGED <<cart, io, dma, trace, stored>>
      /\ mem' = [mem EXCEPT !.palettes[k] = p]
  BY DEF Bus!WritePaletteIndex
<1> HIDE DEF k, p
<1>5. /\ mem' \in MemoryImages /\ Shows(mem')
      /\ mem'.vbk = mem.vbk /\ mem'.svbk = mem.svbk /\ mem'.vram = mem.vram
      /\ mem'.wram = mem.wram /\ mem'.flat = mem.flat
      /\ \A j \in PaletteNames : mem'.palettes[j] = IF j = k THEN p ELSE mem.palettes[j]
  BY <1>1, <1>2, <1>3, <1>4, OtherPalettes
<1>6. Keeps(mem', stored)
  BY <1>1, <1>3, <1>5 DEF Keeps, Bus!ActiveWramBank
<1>7. Bus!TraceExplainsBanks'
  BY <1>4, <1>5, NothingTold, SameBanks DEF BusInv
<1> QED
  BY <1>4, <1>5, <1>6, <1>7 DEF BusInv, BusTypes

LEMMA PaletteDataWritten ==
  ASSUME BusInv, NEW a \in Bus!PaletteRegisters, NEW v \in Data, Bus!WritePaletteData(a, v),
         UNCHANGED <<cgb, since>>
  PROVE  BusInv'
<1> DEFINE k == Bus!PaletteOf(a)
           i == mem.palettes[k].index
           p == Bus!WritePalette(mem.palettes[k], v, Bus!PaletteBlocked)
<1>1. mem \in MemoryImages /\ stored \in Contents /\ Keeps(mem, stored) /\ Shows(mem)
  BY DEF BusInv, BusTypes
<1>2. k \in PaletteNames /\ mem.palettes[k] \in Palettes
  BY <1>1 DEF Bus!PaletteOf, PaletteNames, MemoryImages
<1>3. v \in BusBytes /\ Bus!PaletteBlocked \in BOOLEAN
  BY BusSizes DEF BusInv, BusTypes, Bus!PaletteBlocked
<1>4. /\ p \in Palettes /\ i \in 0 .. PaletteSize - 1
      /\ \A j \in 0 .. PaletteSize - 1 :
           p.ram[j] = IF j = i /\ ~ Bus!PaletteBlocked THEN v ELSE mem.palettes[k].ram[j]
  BY <1>2, <1>3, PaletteStore
<1>5. /\ cgb /\ UNCHANGED <<cart, io, dma, trace>>
      /\ mem' = [mem EXCEPT !.palettes[k] = p]
      /\ stored' = IF Bus!PaletteBlocked THEN stored ELSE [stored EXCEPT ![<<k, i>>] = v]
  BY DEF Bus!WritePaletteData, Bus!StoredAt
<1> HIDE DEF k, p, i
<1>6. /\ mem' \in MemoryImages /\ Shows(mem')
      /\ mem'.vbk = mem.vbk /\ mem'.svbk = mem.svbk /\ mem'.vram = mem.vram
      /\ mem'.wram = mem.wram /\ mem'.flat = mem.flat
      /\ \A j \in PaletteNames : mem'.palettes[j] = IF j = k THEN p ELSE mem.palettes[j]
  BY <1>1, <1>2, <1>4, <1>5, OtherPalettes
<1>7. <<k, i>> \in Bus!CellNames
  BY <1>2, <1>4, Names
<1>8. /\ stored' \in Contents
      /\ \A c \in Bus!CellNames :
           stored'[c] = IF c = <<k, i>> /\ ~ Bus!PaletteBlocked THEN v ELSE stored[c]
  BY <1>1, <1>3, <1>5, <1>7 DEF Contents
<1>9. /\ \A b \in 0 .. 1 : stored'[<<"vram", b>>] = stored[<<"vram", b>>]
      /\ \A b \in 0 .. SwitchedBanks, o \in Ends :
           stored'[<<"wram", b, o>>] = stored[<<"wram", b, o>>]
      /\ stored'[<<"VBK">>] = stored[<<"VBK">>] /\ stored'[<<"SVBK">>] = stored[<<"SVBK">>]
      /\ stored'[<<"FE00">>] = stored[<<"FE00">>] /\ stored'[<<"FF80">>] = stored[<<"FF80">>]
      /\ stored'[<<"A000">>] = stored[<<"A000">>]
  BY <1>2, <1>8, Names DEF PaletteNames
<1>10. \A l \in PaletteNames, j \in 0 .. PaletteSize - 1 : mem'.palettes[l].ram[j] = stored'[<<l, j>>]
  <2> SUFFICES ASSUME NEW l \in PaletteNames, NEW j \in 0 .. PaletteSize - 1
               PROVE mem'.palettes[l].ram[j] = stored'[<<l, j>>]
    BY ZenonT(120)
  <2>1. mem.palettes[l].ram[j] = stored[<<l, j>>] /\ <<l, j>> \in Bus!CellNames
    BY <1>1, Names DEF Keeps
  <2>2. <<l, j>> = <<k, i>> <=> l = k /\ j = i
    OBVIOUS
  <2> QED
    BY <1>4, <1>6, <1>8, <2>1, <2>2
<1>11. Keeps(mem', stored')
  BY <1>1, <1>6, <1>9, <1>10 DEF Keeps, Bus!ActiveWramBank
<1>12. Bus!TraceExplainsBanks'
  BY <1>5, <1>6, NothingTold, SameBanks DEF BusInv
<1> QED
  BY <1>5, <1>6, <1>8, <1>9, <1>11, <1>12 DEF BusInv, BusTypes

LEMMA DeviceWritten ==
  ASSUME BusInv, NEW a \in Bus!Peripherals, NEW v \in Data, Bus!WriteDevice(a, v),
         UNCHANGED <<cgb, since>>
  PROVE  BusInv'
<1>1. /\ mem \in MemoryImages /\ stored \in Contents /\ Keeps(mem, stored) /\ Shows(mem)
      /\ io \in [Bus!Peripherals -> BusBytes] /\ v \in BusBytes /\ UNCHANGED <<cart, dma, trace, stored>>
  BY BusSizes DEF BusInv, BusTypes, Bus!WriteDevice
<1>2. io' \in [Bus!Peripherals -> BusBytes]
  <2>1. v % 32 \in BusBytes /\ 0 \in BusBytes
    BY <1>1 DEF BusBytes
  <2> QED
    BY <1>1, <2>1 DEF Bus!WriteDevice
<1>3. /\ mem' \in MemoryImages /\ Shows(mem') /\ Keeps(mem', stored)
      /\ mem'.vbk = mem.vbk /\ mem'.svbk = mem.svbk
  <2>1. CASE a \in Bus!Mirrored
    BY <1>1, <2>1, StoreFlat DEF Bus!WriteDevice
  <2>2. CASE a \notin Bus!Mirrored
    BY <1>1, <2>2 DEF Bus!WriteDevice
  <2> QED
    BY <2>1, <2>2
<1>4. Bus!TraceExplainsBanks'
  BY <1>1, <1>3, NothingTold, SameBanks DEF BusInv
<1> QED
  BY <1>1, <1>2, <1>3, <1>4 DEF BusInv, BusTypes

LEMMA BusWritten ==
  ASSUME BusInv, NEW a, Bus!Write(a)
  PROVE  BusInv'
<1>1. UNCHANGED <<reach, cgb, display, since>>
  BY DEF Bus!Write
<1>2. CASE UNCHANGED <<cart, mem, io, dma, trace, stored>>
  BY <1>1, <1>2, NothingTold, MemoryUntouched, SameBanks DEF BusInv, BusTypes
<1>3. CASE a \in Bus!Memories /\ \E v \in Data : Bus!WriteMemory(a, v)
  BY <1>1, <1>3, MemoryWritten
<1>4. CASE a \in Bus!Rom /\ \E v \in Data : Bus!WriteMapper(v)
  BY <1>1, <1>4, MapperWritten
<1>5. CASE a \in Bus!BankRegisters /\ \E v \in 0 .. SwitchedBanks : Bus!WriteBank(a, v)
  BY <1>1, <1>5, BankWritten
<1>6. CASE /\ a \in {"FF68", "FF6A"}
           /\ \E i \in 0 .. PaletteSize - 1, auto \in BOOLEAN : Bus!WritePaletteIndex(a, i, auto)
  BY <1>1, <1>6, PaletteIndexWritten DEF Bus!PaletteRegisters
<1>7. CASE a \in {"FF69", "FF6B"} /\ \E v \in Data : Bus!WritePaletteData(a, v)
  BY <1>1, <1>7, PaletteDataWritten DEF Bus!PaletteRegisters
<1>8. CASE a \in Bus!Peripherals /\ \E v \in Data : Bus!WriteDevice(a, v)
  BY <1>1, <1>8, DeviceWritten
<1>9. CASE a = "FF46" /\ \E source \in (Bus!Rom \cup Bus!Memories) \cap (reach \cup {"E000"}) :
                           Bus!StartDma(source)
  <2>1. PICK source \in Bus!Rom \cup Bus!Memories : Bus!StartDma(source)
    BY <1>9
  <2>2. /\ dma' \in [active : BOOLEAN, source : Bus!Rom \cup Bus!Memories]
        /\ UNCHANGED <<cart, mem, io, trace, stored>>
    BY <2>1 DEF Bus!StartDma
  <2>3. Bus!TraceExplainsBanks'
    BY <1>1, <2>2, NothingTold, SameBanks DEF BusInv
  <2> QED
    BY <1>1, <2>2, <2>3, MemoryUntouched DEF BusInv, BusTypes
<1> QED
  BY <1>2, <1>3, <1>4, <1>5, <1>6, <1>7, <1>8, <1>9 DEF Bus!Write

(* The transfers store what memory holds, in OAM and in the selected bank.   *)
LEMMA TransferWritten ==
  ASSUME BusInv, Bus!DmaByte \/ \E a \in reach \cap (Bus!Rom \cup Bus!Memories) : Bus!HdmaByte(a)
  PROVE  BusInv'
<1>1. CASE Bus!DmaByte
  <2>1. Bus!ReadForDma(dma.source) \in BusBytes
    BY PlacesAreBytes DEF BusInv, BusTypes
  <2>2. "FE00" \in Bus!Memories \ Bus!CartRam /\ Bus!CellOf("FE00") = <<"FE00">>
    BY CellMeans DEF Bus!Memories, Bus!Oam, Bus!CartRam, Bus!Vram, Bus!Wram
  <2>3. dma' \in [active : BOOLEAN, source : Bus!Rom \cup Bus!Memories]
    BY <1>1 DEF Bus!DmaByte, BusInv, BusTypes
  <2> QED
    BY <1>1, <2>1, <2>2, <2>3, ByteStored DEF Bus!DmaByte, Bus!StoredAt, Bus!Untouched
<1>2. CASE \E a \in reach \cap (Bus!Rom \cup Bus!Memories) : Bus!HdmaByte(a)
  <2>1. PICK a \in Bus!Rom \cup Bus!Memories : Bus!HdmaByte(a)
    BY <1>2
  <2>2. Bus!ReadForDma(a) \in BusBytes
    BY PlacesAreBytes
  <2>3. "8000" \in Bus!Memories \ Bus!CartRam
    BY DEF Bus!Memories, Bus!Windows, Bus!Vram, Bus!CartRam
  <2> QED
    BY <2>1, <2>2, <2>3, ByteStored
       DEF Bus!HdmaByte, Bus!StoredAt, Bus!Untouched, BusInv, BusTypes
<1> QED
  BY <1>1, <1>2

(* A state saved brings its mirrors up to date and nothing else.             *)
LEMMA StateLoaded ==
  ASSUME BusInv, NEW flaws, Bus!SaveAndLoad(flaws)
  PROVE  BusInv'
<1> DEFINE seen == [a \in DOMAIN mem.flat |-> IF a \in Bus!Mirrored THEN io[a] ELSE mem.flat[a]]
<1>1. /\ cgb' = cgb /\ cart' = cart /\ io' = io /\ dma' = dma /\ stored' = stored
      /\ mem' = [mem EXCEPT !.flat = seen] /\ trace' = <<>> /\ since' = Bus!Banks'
  BY DEF Bus!SaveAndLoad, Bus!Restored, Bus!Captured, Bus!Synced, Bus!Quiet
<1>2. mem \in MemoryImages /\ Keeps(mem, stored) /\ Shows(mem)
  BY DEF BusInv, BusTypes
<1>3. /\ seen \in [FlatAddresses -> BusBytes]
      /\ \A a \in FlatAddresses \ Bus!Mirrored : seen[a] = mem.flat[a]
  BY <1>2 DEF MemoryImages, BusInv, BusTypes, Bus!Peripherals
<1> HIDE DEF seen
<1>4. /\ mem' \in MemoryImages /\ mem'.vbk = mem.vbk /\ mem'.svbk = mem.svbk
      /\ mem'.vram = mem.vram /\ mem'.wram = mem.wram /\ mem'.palettes = mem.palettes
      /\ mem'.flat = seen
  BY <1>1, <1>2, <1>3 DEF MemoryImages
<1>5. Shows(mem')
  BY <1>2, <1>3, <1>4 DEF Shows, Bus!ReadRam, Bus!Windows, Bus!Vram, Bus!Wram, Bus!Mirrored, FlatAddresses,
     Bus!Bank, Bus!ActiveWramBank
<1>6. Keeps(mem', stored)
  BY <1>2, <1>3, <1>4 DEF Keeps, Bus!ActiveWramBank, Bus!Mirrored, FlatAddresses, Bus!Oam, Bus!High
<1>7. Bus!TraceExplainsBanks' /\ trace' \in Seq([of : Kinds, to : Nat])
  BY <1>1, NewStep
<1> QED
  BY <1>1, <1>4, <1>5, <1>6, <1>7 DEF BusInv, BusTypes

LEMMA RomLoaded ==
  ASSUME BusInv, NEW colour \in Carts, NEW forced, Bus!LoadRom(colour, forced)
  PROVE  BusInv'
<1>1. /\ mem' \in MemoryImages /\ Shows(mem') /\ mem'.vbk = 0 /\ mem'.svbk = 1
      /\ stored' \in Contents /\ Keeps(mem', stored') /\ stored'[<<"A000">>] = 0
  BY BootedKeeps DEF Bus!LoadRom
<1>2. cgb' \in BOOLEAN
  BY DEF Bus!LoadRom, Bus!Colour
<1>3. io' \in [Bus!Peripherals -> BusBytes]
  BY DEF Bus!LoadRom, Bus!PostBoot, BusBytes
<1>4. cart' \in [colour : {"no", "yes", "only"}, bank : BusBytes, ram : BusBytes] /\ cart'.ram = 0
  BY BusSizes DEF Bus!LoadRom, BusBytes
<1>5. dma' \in [active : BOOLEAN, source : Bus!Rom \cup Bus!Memories]
  BY DEF Bus!LoadRom, Bus!Rom
<1>6. Bus!TraceExplainsBanks' /\ trace' \in Seq([of : Kinds, to : Nat])
  BY NewStep DEF Bus!LoadRom, Bus!Quiet
<1> QED
  BY <1>1, <1>2, <1>3, <1>4, <1>5, <1>6 DEF BusInv, BusTypes

LEMMA BusStep == BusInv /\ [Bus!Next]_(Bus!vars) => BusInv'
<1> SUFFICES ASSUME BusInv, [Bus!Next]_(Bus!vars) PROVE BusInv'
  OBVIOUS
<1>1. CASE Bus!FinishStep
  <2>1. Bus!TraceExplainsBanks' /\ trace' \in Seq([of : Kinds, to : Nat])
    BY <1>1, NewStep DEF Bus!FinishStep, Bus!Quiet
  <2> QED
    BY <1>1, <2>1, MemoryUntouched DEF Bus!FinishStep, BusInv, BusTypes
<1>2. CASE UNCHANGED Bus!vars
  BY <1>2, NothingTold, MemoryUntouched, SameBanks DEF Bus!vars, BusInv, BusTypes
<1> QED
  BY <1>1, <1>2, BusWritten, TransferWritten, StateLoaded, RomLoaded DEF Bus!Next

(* What a read lets through, and what the gates report. *)
LEMMA BusTells == BusInv => Bus!MemoryIsOne
<1> SUFFICES ASSUME BusInv PROVE Bus!MemoryIsOne
  OBVIOUS
<1>1. Keeps(mem, stored) /\ Shows(mem) /\ mem \in MemoryImages /\ cart.ram = stored[<<"A000">>]
  BY DEF BusInv, BusTypes
<1>2. ASSUME NEW a \in Bus!Memories, Bus!Lets(a) PROVE Bus!Peek(a) = stored[Bus!CellOf(a)]
  <2>1. CASE a \in Bus!CartRam
    <3>1. Bus!CellOf(a) = <<"A000">> /\ a \notin Bus!Rom
      BY <2>1, CellMeans DEF Bus!CartRam, Bus!Vram, Bus!Wram, Bus!Rom
    <3> QED
      BY <1>1, <1>2, <2>1, <3>1 DEF Bus!Peek
  <2>2. CASE a \notin Bus!CartRam
    <3>1. Bus!Peek(a) = Bus!ReadRam(mem, a)
      BY <1>2, <2>2 DEF Bus!Peek, Bus!Rom, Bus!BankRegisters, Bus!PaletteRegisters, Bus!Peripherals,
         Bus!Memories, Bus!Windows, Bus!Vram, Bus!Wram, Bus!CartRam, Bus!Oam, Bus!High, Bus!Mirrored, Bus!Stored
    <3>2. CASE a \in Bus!Vram
      BY <1>1, <3>1, <3>2, CellMeans DEF Bus!ReadRam, Keeps, MemoryImages
    <3>3. CASE a \in Bus!Wram
      <4>1. Bus!Bank(mem, a) \in 0 .. SwitchedBanks /\ Bus!Offset(a) \in Ends
        BY <1>1, BusSizes DEF Bus!Bank, Bus!ActiveWramBank, MemoryImages, Bus!Offset, Ends
      <4>2. Bus!ReadRam(mem, a) = mem.wram[Bus!Bank(mem, a)][Bus!Offset(a)]
            /\ Bus!CellOf(a) = <<"wram", Bus!Bank(mem, a), Bus!Offset(a)>>
        BY <3>3, CellMeans DEF Bus!ReadRam, Bus!Vram, Bus!Wram
      <4> QED
        BY <1>1, <3>1, <4>1, <4>2 DEF Keeps
    <3>4. CASE a \in Bus!Oam \cup Bus!High
      BY <1>1, <3>1, <3>4, CellMeans DEF Bus!ReadRam, Keeps, Bus!Vram, Bus!Wram, Bus!Oam, Bus!High
    <3> QED
      BY <2>2, <3>2, <3>3, <3>4 DEF Bus!Memories, Bus!Windows
  <2> QED
    BY <2>1, <2>2
<1>3. Bus!ReadsWhatWasStored
  BY <1>1, <1>2 DEF Bus!ReadsWhatWasStored, Keeps, PaletteNames
<1>4. Bus!FlatIsBanked /\ Bus!TraceExplainsBanks
  BY <1>1 DEF Bus!FlatIsBanked, Shows, BusInv
<1>5. \A a \in Bus!Memories \cup Bus!Rom : (Bus!ReportsOf(a) = {}) = Bus!Lets(a)
  <2> SUFFICES ASSUME NEW a \in Bus!Memories \cup Bus!Rom
               PROVE (Bus!ReportsOf(a) = {}) <=> Bus!Lets(a)
    BY DEF Bus!Lets
  <2> QED
    BY DEF Bus!ReportsOf, Bus!Lets
<1>6. ~ cgb => mem.vbk = 0 /\ Bus!ActiveWramBank(mem) = 1
  BY DEF BusInv, Bus!ActiveWramBank
<1> QED
  BY <1>3, <1>4, <1>5, <1>6 DEF Bus!MemoryIsOne

(* Whoever is let through reads what was last stored in the cell meant, past *)
(* echoes, bank switches, transfers, palettes behind moving indices, loads   *)
(* and new ROMs, for every number of banks and every program: the flat image *)
(* and the banks are one memory, and observers are told every switch and     *)
(* every refusal (lib.rs, peek8 and write8; memory.rs).                      *)
THEOREM BanksAreOneMemory == MCSpec => []MemoryIsOne
<1>1. MCInit => BusInv
  BY InitBusInv
<1>2. BusInv /\ [MCNext]_allVars => BusInv'
  <2> SUFFICES ASSUME [MCNext]_allVars PROVE [Bus!Next]_(Bus!vars)
    BY BusStep
  <2> QED
    BY DEF MCNext, allVars, CpuNext, DisplayNext, BusNext, busVars, Bus!vars
<1>3. BusInv => MemoryIsOne
  BY BusTells DEF MemoryIsOne
<1> QED
  BY <1>1, <1>2, <1>3, PTL DEF MCSpec
=============================================================================
