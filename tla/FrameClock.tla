----------------------------- MODULE FrameClock -----------------------------
(***************************************************************************)
(* The nominal frame clock of one machine (kokura-core lib.rs) and the     *)
(* loops that wait for it: run_frame, run_slice and run_audio_slice.       *)
(*                                                                         *)
(* The machine counts display dots in clocks.frame_phase_ppu_cycles, a     *)
(* counter that keeps running while the LCD is off; the PPU keeps its own  *)
(* position (ly, mode_cycles), which stands still then.  Every write to    *)
(* FF40 copies the position into the phase.  A step is one instruction, a  *)
(* halted idle step or an interrupt entry, advanced to its end.            *)
(***************************************************************************)
EXTENDS FrameSizes

VARIABLES
    lcd,            \* LCDC bit 7
    dot,            \* the PPU's position in its frame, ly * 456 + mode_cycles
    frame_phase,    \* clocks.frame_phase_ppu_cycles
    double,         \* cgb_double_speed
    call            \* the loop in progress and what it has used up

vars == <<lcd, dot, frame_phase, double, call>>

\* A loop: which one, the steps and cycles it still allows itself (-1: it has
\* no such limit) and whether the thing it waits for has happened.
NoLimit == -1
Idle == [loop |-> "none", steps |-> NoLimit, cycles |-> NoLimit, done |-> FALSE]

Begun(loop, steps, cycles) ==
    [loop |-> loop, steps |-> steps, cycles |-> cycles, done |-> FALSE]

Running(loop) == call.loop = loop

(* Mutant of GoesOn. *)
GoesOnToFrame(c) == c.loop # "none" /\ ~c.done

\* The loop's condition: no limit is used up and nothing has ended it.
GoesOn(c) == c.loop # "none" /\ c.steps # 0 /\ c.cycles # 0 /\ ~c.done

Init ==
    /\ lcd = TRUE /\ dot \in 0 .. FrameDots - 1 /\ frame_phase = dot
    /\ double \in BOOLEAN /\ call = Idle

ToDots(cycles, fast) == IF fast THEN cycles \div 2 ELSE cycles
ToCycles(dots, fast) == IF fast THEN 2 * dots ELSE dots

Remaining(limit, used) ==
    IF limit = NoLimit THEN NoLimit ELSE IF used >= limit THEN 0 ELSE limit - used

------------------------------------------------------------------------------
RunFrame == Running("none") /\ call' = Begun("frame", NoLimit, NoLimit)

RunSlice ==
    /\ Running("none")
    /\ \E n \in StepBudgets, m \in CycleBudgets : call' = Begun("slice", n, m)

\* The cycle cap is one nominal frame at the speed the call starts with.
RunAudioSlice ==
    /\ Running("none")
    /\ call' = Begun("audio", StepCap, ToCycles(FrameDots, double))

\* What the executed instruction does to the clocks besides passing time.
Effects == {"plain", "lcdc_on", "lcdc_off", "switch_speed"}

\* Ppu::write_lcdc: only a transition moves the position.
LcdAfter(effect) ==
    CASE effect = "lcdc_on" -> TRUE [] effect = "lcdc_off" -> FALSE [] OTHER -> lcd

DotAfter(effect) == IF LcdAfter(effect) = lcd THEN dot ELSE 0

(* Mutant of PhaseAfter. *)
PhaseKept(effect) == frame_phase

\* The FF40 handler then copies the position into the phase.
PhaseAfter(effect) ==
    IF effect \in {"lcdc_on", "lcdc_off"} THEN DotAfter(effect) ELSE frame_phase

\* advance_clocks spends the freeze first, at the new speed, and only the
\* rest of the step moves the display.
DotsPassed(cost, effect) ==
    LET fast == double # (effect = "switch_speed")
        frozen == IF effect = "switch_speed" THEN FreezeCycles ELSE 0
    IN  ToDots(cost + frozen, fast) - ToDots(frozen, fast)

CyclesReported(cost, effect) ==
    cost + IF effect = "switch_speed" THEN FreezeCycles ELSE 0

\* One step of the loop in progress.  Stalls of HBlank DMA pass dots that the
\* step's reported cycles leave out.  `filled` is the audio queue reaching its
\* target, which the APU decides.
Step(cost, effect, stall, filled) ==
    LET dots == DotsPassed(cost, effect) + stall
        phase == PhaseAfter(effect) + dots
    IN  /\ GoesOn(call)
        /\ stall > 0 => LcdAfter(effect)
        /\ lcd' = LcdAfter(effect)
        /\ dot' = IF lcd' THEN (DotAfter(effect) + dots) % FrameDots ELSE 0
        /\ frame_phase' = phase % FrameDots
        /\ double' = (double # (effect = "switch_speed"))
        /\ call' = [call EXCEPT
             !.steps = Remaining(@, 1),
             !.cycles = Remaining(@, CyclesReported(cost, effect)),
             !.done = IF Running("audio") THEN filled ELSE phase >= FrameDots]

AnyStep == \E cost \in Costs, effect \in Effects, stall \in {0, BlockStall},
              filled \in BOOLEAN : Step(cost, effect, stall, filled)

WritesLcdc == \E cost \in Costs, effect \in {"lcdc_on", "lcdc_off"},
                 stall \in {0, BlockStall}, filled \in BOOLEAN :
                   Step(cost, effect, stall, filled)

Return ==
    /\ call.loop # "none" /\ ~GoesOn(call)
    /\ call' = Idle /\ UNCHANGED <<lcd, dot, frame_phase, double>>

Begin == (RunFrame \/ RunSlice \/ RunAudioSlice) /\ UNCHANGED <<lcd, dot, frame_phase, double>>

Next == Begin \/ AnyStep \/ Return

Spec == Init /\ [][Next]_vars

\* The loops are plain `while` loops: a step that can run does run.
FairSpec == Spec /\ WF_vars(AnyStep) /\ WF_vars(Return)

------------------------------------------------------------------------------
\* The state stays within its declared shape.
TypeOK ==
    /\ lcd \in BOOLEAN /\ double \in BOOLEAN
    /\ dot \in 0 .. FrameDots - 1 /\ frame_phase \in 0 .. FrameDots - 1
    /\ call \in [loop : {"none", "frame", "slice", "audio"},
                 steps : Nat \cup {NoLimit}, cycles : Nat \cup {NoLimit},
                 done : BOOLEAN]

\* While the LCD is on, the nominal frame counter is in step with the picture:
\* across LCD transitions, speed switches and DMA stalls the two counters of
\* Machine::advance_clocks and Ppu::tick agree, so a nominal frame ends exactly
\* where the PPU completes one.
PhaseIsPosition == lcd => frame_phase = dot

\* A bounded call returns, whatever the game writes: run_slice and
\* run_audio_slice are limited by steps as well as by frames.
BoundedCallsReturn ==
    (call.loop \in {"slice", "audio"}) ~> (call.loop = "none")

\* run_frame returns, with the LCD on or off, once the game stops writing
\* FF40: the phase runs on although the PPU stands still.
FrameReturnsWithoutLcdcWrites ==
    <>[][~WritesLcdc]_vars => (Running("frame") ~> Running("none"))

\* "Keep nominal frame slices moving even while LCDC is off": run_frame
\* returns for every game.
FrameAlwaysReturns == Running("frame") ~> Running("none")
=============================================================================
