---------------------------- MODULE LinkSchedule ----------------------------
(***************************************************************************)
(* How the link runner shares time between its sessions                    *)
(* (kokura-debug/src/link.rs, run_frames and its twins): of the sessions   *)
(* that have frames to go and are not stopped, the one with the fewest CPU *)
(* cycles steps, the lower index first.  A step takes some CPU cycles and  *)
(* moves the nominal frame by at most as many: half in double speed, none  *)
(* in a speed switch's pause.  A game that turns its LCD off or on, or     *)
(* writes to LCDC while it is off, starts its frame again.                 *)
(***************************************************************************)
EXTENDS Integers

CONSTANTS
  SessionCount,
  Starts,        \* cycle counts the sessions may have when first linked
  StartPhases,   \* ... and how far into their frame they may be
  FrameCycles,   \* length of a nominal frame (70224)
  Costs,         \* records [cpu, frame, restarts]: what one step may take, see StepSession
  Requests,      \* frame counts a call may ask for
  Debugged,      \* sessions with stop conditions set
  MaxFrames,     \* bound on the frames asked for in one behaviour
  MaxLost        \* bound on the time a session may lose for its frames

Sessions == 0 .. SessionCount - 1

ASSUME SessionCountAssumption == SessionCount \in Nat \ {0}
ASSUME FrameCyclesAssumption == FrameCycles \in Nat \ {0}
ASSUME CostsAssumption ==
  \A c \in Costs : /\ c.cpu \in Nat /\ c.frame \in Nat
                   /\ c.frame =< c.cpu /\ c.frame =< FrameCycles
ASSUME StartsAssumption ==
  Starts \subseteq Nat /\ StartPhases \subseteq 0 .. FrameCycles - 1
ASSUME RequestsAssumption == Requests \subseteq Nat

VARIABLES
  cycles,       \* clocks.cycles of each machine
  frame_phase,        \* its clocks.frame_phase_ppu_cycles ...
  frames,       \* ... and clocks.frames
  targets,      \* frame targets of this call, the last ones between calls
  stopped,      \* sessions whose stop reason is recorded
  running,      \* inside a runner call
  linked,       \* history: cycles when the machines were linked
  cut           \* history: a stop has ended some call early, or skipped a session

vars == <<cycles, frame_phase, frames, targets, stopped, running, linked,
          cut>>

-----------------------------------------------------------------------------
Init ==
  /\ cycles \in [Sessions -> Starts]
  /\ frame_phase \in [Sessions -> StartPhases]
  /\ linked = [i \in Sessions |-> [cycle |-> cycles[i], frame |-> cycles[i] - frame_phase[i]]]
  /\ frames = [i \in Sessions |-> 0]
  /\ targets = frames
  /\ stopped = {} /\ running = FALSE /\ cut = FALSE

(* Targets are relative: each session gets n more frames. *)
BeginCall(n) ==
  /\ ~ running
  /\ \A i \in Sessions : frames[i] + n =< MaxFrames
  /\ running' = TRUE
  /\ targets' = [i \in Sessions |-> frames[i] + n]
  /\ UNCHANGED <<cycles, frame_phase, frames, stopped, linked, cut>>

(* Mutant of Eligible. *)
EligibleAtTarget(i) == i \notin stopped /\ frames[i] =< targets[i]

(* next_session_index: the (cycles, index)-least of the eligible. *)
Eligible(i) == i \notin stopped /\ frames[i] < targets[i]

(* Mutant of Before. *)
BeforeByIndex(i, j) == i =< j

Before(i, j) == cycles[i] < cycles[j] \/ (cycles[i] = cycles[j] /\ i =< j)

Chosen(i) == Eligible(i) /\ \A j \in Sessions : Eligible(j) => Before(i, j)

(* Cycles of a session, since it was linked, that count for none of its    *)
(* frames: half of those in double speed, a speed switch's, and what its   *)
(* frame had reached whenever it started again.                            *)
Lost(i) ==
  cycles[i] - linked[i].frame - frames[i] * FrameCycles - frame_phase[i]

(* run_debug_step or step_instruction_fast.  A breakpoint is met before    *)
(* the instruction, other stops after it; either ends the call.  A write   *)
(* to LCDC in the step puts the phase where the PPU is before the step's   *)
(* time is added: where it was if the LCD was and stays on (PhaseIsPosition*)
(* of FrameClock), at the start of a frame otherwise.                      *)
StepSession(i, c) ==
  LET sum == (IF c.restarts THEN 0 ELSE frame_phase[i]) + c.frame
  IN
  /\ running /\ Chosen(i) /\ Lost(i) < MaxLost
  /\ cycles' = [cycles EXCEPT ![i] = @ + c.cpu]
  /\ frame_phase' = [frame_phase EXCEPT ![i] = IF sum >= FrameCycles THEN sum - FrameCycles ELSE sum]
  /\ frames' = [frames EXCEPT ![i] = IF sum >= FrameCycles THEN @ + 1 ELSE @]
  /\ UNCHANGED <<targets, linked>>

Step(i, c) ==
  /\ StepSession(i, c)
  /\ UNCHANGED <<stopped, running, cut>>

StepAndStop(i, c) ==
  /\ i \in Debugged
  /\ StepSession(i, c)
  /\ stopped' = stopped \cup {i}
  /\ running' = FALSE /\ cut' = TRUE

BreakBeforeStep(i) ==
  /\ i \in Debugged /\ running /\ Chosen(i)
  /\ stopped' = stopped \cup {i}
  /\ running' = FALSE /\ cut' = TRUE
  /\ UNCHANGED <<cycles, frame_phase, frames, targets, linked>>

(* Mutant of EndCall. *)
EndCallWhenReached ==
  /\ running
  /\ \A i \in Sessions : frames[i] >= targets[i]
  /\ running' = FALSE
  /\ UNCHANGED <<cycles, frame_phase, frames, targets, stopped, linked, cut>>

(* Nobody is eligible: targets reached, or the others stopped. *)
EndCall ==
  /\ running
  /\ \A i \in Sessions : ~ Eligible(i)
  /\ running' = FALSE
  /\ UNCHANGED <<cycles, frame_phase, frames, targets, stopped, linked, cut>>

(* The host clears the stop reason of a session; the runner never does. *)
Resume(i) ==
  /\ ~ running /\ i \in stopped
  /\ stopped' = stopped \ {i}
  /\ UNCHANGED <<cycles, frame_phase, frames, targets, running, linked, cut>>

InCall ==
  \/ \E i \in Sessions : BreakBeforeStep(i) \/ \E c \in Costs : Step(i, c) \/ StepAndStop(i, c)
  \/ EndCall

Next ==
  \/ \E n \in Requests : BeginCall(n)
  \/ InCall
  \/ \E i \in Sessions : Resume(i)

Spec == Init /\ [][Next]_vars
FairSpec == Spec /\ WF_vars(InCall)

-----------------------------------------------------------------------------
TypeOK ==
  /\ cycles \in [Sessions -> Nat]
  /\ linked \in [Sessions -> [cycle : Nat, frame : Int]]
  /\ frame_phase \in [Sessions -> 0 .. FrameCycles - 1]
  /\ frames \in [Sessions -> Nat]
  /\ targets \in [Sessions -> Nat]
  /\ stopped \subseteq Sessions
  /\ running \in BOOLEAN /\ cut \in BOOLEAN

(* Machines stay together however many calls drive them: one is ahead of   *)
(* another by at most a step more than it was when they were linked, or    *)
(* than its frames began earlier and it has lost time for them since, as   *)
(* long as no stop has left one behind.  That is what the cycle order      *)
(* (link.rs:953, and the same filter in the two machine loops) is for: a   *)
(* session that finishes its frames first does not let the others run away *)
(* from it in the calls that follow.                                       *)
Positive(n) == IF n > 0 THEN n ELSE 0

Headstart(j, i) ==
  LET cycle == linked[j].cycle - linked[i].cycle
      frame == linked[j].frame - linked[i].frame + Lost(j)
  IN Positive(IF cycle > frame THEN cycle ELSE frame)

DriftBound ==
  ~ cut =>
    \A i, j \in Sessions :
      \/ cycles[j] - cycles[i] =< Headstart(j, i)
      \/ \E c \in Costs : cycles[j] - cycles[i] =< Headstart(j, i) + c.cpu

(* Unless a stop cut it short, a call gives every session exactly the      *)
(* frames asked for; no session ever gets more, at whatever clock rates    *)
(* they run.                                                               *)
FramesAsAsked ==
  /\ \A i \in Sessions : frames[i] =< targets[i]
  /\ ~ running /\ ~ cut => frames = targets

(* A step of one session never takes it more than that step past another   *)
(* that still has frames to run, however their rates differ and whoever    *)
(* was stopped in between.                                                 *)
NeverAheadOfTheEligible ==
  [][\A i, j \in Sessions :
       running /\ Eligible(i) /\ cycles'[j] # cycles[j] =>
         \E c \in Costs : cycles'[j] =< cycles[i] + c.cpu]_vars

(* A call returns, whoever is stopped and whatever rates they run at,      *)
(* unless one of its sessions goes on losing time for its frames.          *)
RunReturns == running ~> (~ running \/ \E i \in Sessions : Lost(i) >= MaxLost)
=============================================================================
