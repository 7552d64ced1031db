------------------------------ MODULE CpuStep ------------------------------
(***************************************************************************)
(* When the CPU of one machine takes an interrupt, sleeps and wakes        *)
(* (kokura-core lib.rs, step_instruction and its fast twin, interrupt.rs,  *)
(* joypad.rs).  A step is an interrupt entry, a halted idle step or one    *)
(* instruction; what instructions compute is left out, but every one that  *)
(* touches interrupts is here, and a store may reach IE, IF or P1, be it   *)
(* the program's or the push of an interrupt entry.  Between steps the     *)
(* host changes the buttons, or saves the machine and loads it again.      *)
(***************************************************************************)
EXTENDS Integers

CONSTANTS
  Devices,     \* bits of the requests that devices make while time passes
  Lines,       \* input lines of P1
  None

JOYPAD == 4                       \* bit of INT_JOYPAD; low bits go first
Sources == Devices \cup {JOYPAD}
Groups == {0, 1}                  \* P1: the directions and the buttons
Keys == Groups \X Lines

ASSUME DevicesAssumption == Devices \subseteq 0 .. 3 /\ None \notin Sources

VARIABLES
  ie, iflag,          \* the interrupt registers, as sets of sources
  ime,                \* interrupts are served
  ime_enable_delay,   \* completed steps until EI takes effect
  halted, halt_bug,   \* asleep; the next fetch leaves PC where it is
  active,             \* active_interrupt_vector
  pressed,            \* keys the host holds down
  selected,           \* groups P1 selects
  last,               \* history: what the last step was
  grant               \* history: the instruction that has interrupts on, or "none"

vars == <<ie, iflag, ime, ime_enable_delay, halted, halt_bug, active, pressed, selected,
          last, grant>>

Pending == ie \cap iflag
Highest == CHOOSE s \in Pending : \A t \in Pending : s =< t

(* Lines of P1 that read low. *)
Low(keys, groups) == {l \in Lines : \E g \in groups : <<g, l>> \in keys}
Falls(before, after) == after \ before # {}

-----------------------------------------------------------------------------
(* After load_rom: both groups selected, a VBlank on request. *)
Init ==
  /\ ie = {} /\ iflag = Devices \cap {0} /\ ime = FALSE /\ ime_enable_delay = 0
  /\ halted = FALSE /\ halt_bug = FALSE /\ active = None
  /\ pressed = {} /\ selected = Groups
  /\ last = "load" /\ grant = "none"

(* Stores that matter here; "memory" is every other one. *)
Writes == [to : {"memory"}, bits : {{}}] \cup [to : {"IE", "IF"}, bits : SUBSET Sources]
          \cup [to : {"P1"}, bits : SUBSET Groups]

RequestedBy(w, flags) ==
  IF w.to = "IF" THEN w.bits
  ELSE IF w.to = "P1" /\ Falls(Low(pressed, selected), Low(pressed, w.bits))
  THEN flags \cup {JOYPAD}
  ELSE flags

Store(w) ==
  /\ ie' = IF w.to = "IE" THEN w.bits ELSE ie
  /\ selected' = IF w.to = "P1" THEN w.bits ELSE selected

(* Time passes, in which devices make requests; only then EI is due. *)
FinishStep(flags, enabled, delay) ==
  /\ \E raised \in SUBSET Devices : iflag' = flags \cup raised
  /\ ime' = IF delay = 1 THEN TRUE ELSE enabled
  /\ ime_enable_delay' = IF delay > 0 THEN delay - 1 ELSE 0

-----------------------------------------------------------------------------
Interrupted == ime /\ Pending # {}

(* Mutant of Asleep. *)
AsleepUntilServed == halted /\ ~ Interrupted

(* An enabled request wakes, whether or not it will be served. *)
Asleep == halted /\ Pending = {}

(* Mutant of Acknowledged. *)
AcknowledgedAll == iflag \ Pending

Acknowledged == iflag \ {Highest}

(* service_interrupt: off, acknowledged, PC pushed, in this order. *)
Service ==
  /\ Interrupted
  /\ \E w \in Writes :
       /\ Store(w)
       /\ FinishStep(RequestedBy(w, Acknowledged), FALSE, ime_enable_delay)
       /\ last' = IF w.to = "IF" THEN "service_over_IF" ELSE "service"
  /\ active' = Highest
  /\ halted' = FALSE
  /\ grant' = IF ime_enable_delay = 1 THEN "EI" ELSE "none"
  /\ UNCHANGED <<halt_bug, pressed>>

Idle ==
  /\ Asleep
  /\ FinishStep(iflag, ime, ime_enable_delay)
  /\ last' = "idle"
  /\ UNCHANGED <<ie, halted, halt_bug, active, pressed, selected, grant>>

(* Every instruction: awake, fetched, and a suppressed increment used up. *)
Fetched(op) ==
  /\ ~ Interrupted /\ ~ Asleep
  /\ last' = op
  /\ UNCHANGED pressed

Awake == halted' = FALSE /\ halt_bug' = FALSE

Plain ==
  /\ Fetched("plain") /\ Awake
  /\ \E w \in Writes :
       /\ w.to # "IF" /\ Store(w)
       /\ FinishStep(RequestedBy(w, iflag), ime, ime_enable_delay)
  /\ UNCHANGED <<active, grant>>

StoreToIf ==
  /\ Fetched("IF") /\ Awake
  /\ \E flags \in SUBSET Sources : FinishStep(flags, ime, ime_enable_delay)
  /\ UNCHANGED <<ie, selected, active, grant>>

EI ==
  /\ Fetched("EI") /\ Awake
  /\ FinishStep(iflag, ime, 2)
  /\ grant' = "EI"
  /\ UNCHANGED <<ie, selected, active>>

(* Mutant of DI. *)
DIKeepsDelay ==
  /\ Fetched("DI") /\ Awake
  /\ FinishStep(iflag, FALSE, ime_enable_delay)
  /\ grant' = "none"
  /\ UNCHANGED <<ie, selected, active>>

DI ==
  /\ Fetched("DI") /\ Awake
  /\ FinishStep(iflag, FALSE, 0)
  /\ grant' = "none"
  /\ UNCHANGED <<ie, selected, active>>

RETI ==
  /\ Fetched("RETI") /\ Awake
  /\ FinishStep(iflag, TRUE, ime_enable_delay)
  /\ active' = None
  /\ grant' = "RETI"
  /\ UNCHANGED <<ie, selected>>

(* Mutant of HaltFailsToSleep. *)
FailsOnAnyRequest == ~ ime /\ iflag # {}

HaltFailsToSleep == ~ ime /\ Pending # {}

HALT ==
  /\ Fetched("HALT")
  /\ halted' = ~ HaltFailsToSleep /\ halt_bug' = HaltFailsToSleep
  /\ FinishStep(iflag, ime, ime_enable_delay)
  /\ UNCHANGED <<ie, selected, active, grant>>

(* STOP without an armed speed switch; an armed one is Plain. *)
STOP ==
  /\ Fetched("STOP")
  /\ halted' = TRUE /\ halt_bug' = FALSE
  /\ FinishStep(iflag, ime, ime_enable_delay)
  /\ UNCHANGED <<ie, selected, active, grant>>

(* An unsupported opcode returns an error: fetched, but nothing finished. *)
Unsupported ==
  /\ Fetched("error") /\ Awake
  /\ UNCHANGED <<ie, iflag, ime, ime_enable_delay, active, selected, grant>>

Step ==
  \/ Service \/ Idle
  \/ Plain \/ StoreToIf \/ EI \/ DI \/ RETI \/ HALT \/ STOP \/ Unsupported

-----------------------------------------------------------------------------
(* set_joypad_mask *)
SetKeys ==
  /\ pressed' \in SUBSET Keys
  /\ iflag' = IF Falls(Low(pressed, selected), Low(pressed', selected))
              THEN iflag \cup {JOYPAD} ELSE iflag
  /\ UNCHANGED <<ie, ime, ime_enable_delay, halted, halt_bug, active, selected, last, grant>>

(* A state file has no ime_enable_delay, halt_bug or vector, so an EI just *)
(* executed is forgotten.                                                  *)
SaveAndLoad ==
  /\ ime_enable_delay' = 0 /\ halt_bug' = FALSE /\ active' = None
  /\ last' = "load"
  /\ grant' = IF ime THEN grant ELSE "none"
  /\ UNCHANGED <<ie, iflag, ime, halted, pressed, selected>>

Next == Step \/ SetKeys \/ SaveAndLoad

Spec == Init /\ [][Next]_vars

(* Whoever runs the machine goes on stepping it. *)
FairSpec == Spec /\ WF_vars(Step)

-----------------------------------------------------------------------------
TypeOK ==
  /\ ie \subseteq Sources /\ iflag \subseteq Sources
  /\ ime \in BOOLEAN /\ ime_enable_delay \in 0 .. 1
  /\ halted \in BOOLEAN /\ halt_bug \in BOOLEAN
  /\ active \in Sources \cup {None}
  /\ pressed \subseteq Keys /\ selected \subseteq Groups
  /\ last \in {"load", "service", "service_over_IF", "idle", "plain", "IF", "EI", "DI",
               "RETI", "HALT", "STOP", "error"}
  /\ grant \in {"none", "EI", "RETI"}

(* Interrupts are on exactly when the program has had them turned on since *)
(* the last DI or interrupt entry, by an EI whose following instruction is *)
(* done or by a RETI (lib.rs:1668); only right after EI may it differ.     *)
(* The exception is an EI executed just before an interrupt entry: it      *)
(* counts as executed after it.                                            *)
ImeIffGranted ==
  /\ ime_enable_delay = 0 => (ime <=> grant # "none")
  /\ ime_enable_delay = 1 => grant = "EI" /\ last \in {"EI", "error"}

(* A HALT that ends with interrupts on either sleeps or has an enabled     *)
(* request to serve: the EI, HALT idiom never runs on into the code behind *)
(* it unserved (lib.rs:3062), whenever the request is made.                *)
EiHaltServes == last = "HALT" /\ ime => halted \/ Pending # {}

(* The fetch that a failed HALT suppresses is that of the instruction      *)
(* behind it (lib.rs:3060); an interrupt entry comes between, so that the  *)
(* handler's first fetch is suppressed, only if EI preceded the HALT.      *)
HaltBugOvertaken == [][Service /\ halt_bug => grant = "EI" /\ last = "HALT"]_vars

(* A request is dropped only by being served, as the highest of those      *)
(* enabled and under its own vector, or by a store to IF (interrupt.rs:51, *)
(* lib.rs:1072), whatever the entry's push overwrites.                     *)
RequestsKept ==
  [][\A s \in iflag \ iflag' :
       \/ last' = "service" /\ ime /\ s = active' /\ s \in ie /\ \A t \in Pending : s =< t
       \/ last' \in {"IF", "service_over_IF"}]_vars

(* A line of P1 that falls is on request, whichever of the host's keys and *)
(* the program's selection made it fall (joypad.rs:90).                    *)
NoEdgeMissed ==
  [][Falls(Low(pressed, selected), Low(pressed', selected')) => JOYPAD \in iflag']_vars

(* A request finds its way: every one that is due is made, stays until it  *)
(* is served, and only an EI before a failed HALT lets an entry come       *)
(* between the HALT and the fetch it suppresses.                           *)
NoRequestGoesAstray == RequestsKept /\ NoEdgeMissed /\ HaltBugOvertaken

(* A sleeping CPU with an enabled request, even one it may not serve,      *)
(* leaves its idle steps (lib.rs:449).                                     *)
NoLostWakeup == last = "idle" /\ Pending # {} ~> last # "idle"

(* lib.rs:1541: an interrupt entry is to "disable IME, push PC and enter   *)
(* its vector".  An EI executed while interrupts were on is still counting *)
(* at the end of the entry, and turns them on for the handler.             *)
ServiceDisablesIme == [][Service => ~ ime']_vars
=============================================================================
