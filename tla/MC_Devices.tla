----------------------------- MODULE MC_Devices -----------------------------
(***************************************************************************)
(* Small instances of the devices for TLC, one of them at work.              *)
(* Timer: a 5-bit divider of which bits 1 to 4 can be selected, in the       *)
(* hardware's order (the slowest is select 0), a 2-bit TIMA and a reload     *)
(* window shorter than the fastest period.  Sound: a square, the wave of      *)
(* four positions, noise of three bits, a queue of up to three frames; a      *)
(* sequencer step of two cycles.  The sizes of the transfers, of the frame    *)
(* clock and of the serial port are in the configuration: a bit of 3 cycles   *)
(* and chunks below, at and far above it, the largest enough to end a byte.   *)
(***************************************************************************)
EXTENDS Dma, FrameSizes

CONSTANTS DivModulus, TimaModulus, HalfPeriod, ReloadDelay, BootDivs, Values, MaxChunk,
          BitCycles, AccumLimit, SerialData, SerialChunks,
          Channels, LowPitches, HighPitches, SweepWrites, EnvelopeWrites, MaxVolume, BootPace,
          ZeroPace, MaxLength, Phases, Nibbles, WaveBytes, NoiseBits, NarrowBits, NoiseWrites,
          BootNoise, FrozenShift, NoiseWord, MinNoisePeriod, Capacities, MaxFrames, SampleCycles,
          SequencerCycles, Oversample, TickSizes

(* One advance of the clocks never fills the port's accumulator: time is cut *)
(* at the picture's next event and a speed switch's freeze passes the port   *)
(* by, so a piece stays far below 65535 - 511 cycles.                        *)
ASSUME SerialAssumption ==
  /\ BitCycles \in Nat \ {0} /\ AccumLimit \in Nat
  /\ SerialData \subseteq 0 .. 255
  /\ SerialChunks \subseteq Nat
  /\ \A n \in SerialChunks : n + BitCycles - 1 =< AccumLimit

MCHalfPeriod == [s \in 0 .. 3 |-> CASE s = 0 -> 16 [] s = 1 -> 2 [] s = 2 -> 4 [] s = 3 -> 8]
MCSweep == {[period |-> 1, negate |-> n, shift |-> 1] : n \in BOOLEAN}
MCEnv == {[volume |-> 0, up |-> FALSE, period |-> 0], [volume |-> 1, up |-> TRUE, period |-> 1]}
MCBootNoise == [divisor |-> 1, shift |-> 1, narrow |-> FALSE]
MCNoise == {[divisor |-> 1, shift |-> s, narrow |-> n] : s \in {1, 3}, n \in BOOLEAN}

VARIABLES
  part,
  timer, timer_if, waited, owed,
  lcd, dot, frame_phase, double, call,
  port, attached, serial_if, shifted, shifting,
  apu, dmg, subject, fits

timerVars == <<timer, timer_if, waited, owed>>
frameVars == <<lcd, dot, frame_phase, double, call>>
serialVars == <<port, attached, serial_if, shifted, shifting>>
apuVars == <<apu, dmg, subject, fits>>
allVars == <<part, vars, timerVars, frameVars, serialVars, apuVars>>

Tm == INSTANCE Timer WITH requested <- timer_if
ASSUME TimerAssumption == Tm!TimerParameters
Fc == INSTANCE FrameClock
Sr == INSTANCE Serial WITH Data <- SerialData, Chunks <- SerialChunks,
        requested <- serial_if, elapsed <- shifted
Au == INSTANCE Apu
ASSUME ApuAssumption == Au!ApuParameters

(* A device that is not at work keeps one of its initial states; only the    *)
(* wave tells a colour machine, where a playing one can be written, apart.   *)
MCInit ==
  /\ part \in {"oam", "hdma", "timer", "frame", "serial", "sound"}
  /\ Init /\ Tm!Init /\ Fc!Init /\ Sr!Init /\ Au!Init
  /\ part # "oam" => oam_dma.source = CHOOSE p \in Pages : TRUE
  /\ part # "timer" => timer.div = 0
  /\ part # "frame" => dot = 0 /\ ~ double
  /\ part # "sound" => subject = 1
  /\ dmg = (subject # 3)

NotDma == UNCHANGED <<part, timerVars, frameVars, serialVars, apuVars>>
NotFrame == UNCHANGED <<part, vars, timerVars, serialVars, apuVars>>
NotSerial == UNCHANGED <<part, vars, timerVars, frameVars, apuVars>>

(* The engines share nothing but time and sleep: one of them is programmed. *)
DmaStep ==
  /\ \/ part = "oam" /\ UNCHANGED hdmaVars
     \/ part = "hdma" /\ UNCHANGED oamVars
  /\ Next /\ NotDma
TimerStep == part = "timer" /\ Tm!Next /\ UNCHANGED <<part, vars, frameVars, serialVars, apuVars>>
FrameStep == part = "frame" /\ Fc!Next /\ NotFrame
SerialStep == part = "serial" /\ Sr!Next /\ NotSerial
SoundStep == part = "sound" /\ Au!Next /\ UNCHANGED <<part, vars, timerVars, frameVars, serialVars>>

MCNext == DmaStep \/ TimerStep \/ FrameStep \/ SerialStep \/ SoundStep

(* The picture keeps coming to HBlank, every instruction ends by advancing   *)
(* the clocks, and the frame loops are plain `while` loops.                  *)
HBlankStep == part = "hdma" /\ HBlank /\ NotDma
LoopStep == part = "frame" /\ Fc!AnyStep /\ NotFrame
LoopReturn == part = "frame" /\ Fc!Return /\ NotFrame
ShiftStep == part = "serial" /\ (\E n \in SerialChunks : Sr!Clock(n)) /\ NotSerial

MCSpec ==
  /\ MCInit /\ [][MCNext]_allVars
  /\ WF_allVars(HBlankStep) /\ WF_allVars(ShiftStep)
  /\ WF_allVars(LoopStep) /\ WF_allVars(LoopReturn)

(* Timer: an overflow is answered exactly ReloadDelay cycles later. *)
ReloadWindow == Tm!ReloadWindow
(* FrameClock: with the LCD on the nominal frame is the picture's. *)
PhaseIsPosition == Fc!PhaseIsPosition
(* Apu: the status bits tell which channels play, a playing sweep fits, the  *)
(* wave and the noise go on, the queue holds the newest frames; and time may  *)
(* be cut anywhere into pieces.                                              *)
SoundAgrees == Au!SwitchesAgree /\ Au!SweepFits /\ Au!PiecesAgree
               /\ Au!SampleIsCurrent /\ Au!NoiseSounds /\ Au!QueueIsNewest

(* Timer: TIMA moves at whole periods, an overflow has its one interrupt, and *)
(* jumps from edge to edge are the cycles one by one.                        *)
TimerIsRight == []Tm!FastAgrees /\ Tm!InterruptIsReload /\ Tm!CountsWholePeriods

(* Serial: bits leave at their rate however the cycles are cut, and a byte   *)
(* ends with the interrupt or by being cancelled.                            *)
BytesLeaveInTime == [](Sr!PortConsistent /\ Sr!ExactBitTime) /\ Sr!InterruptPerByte

(* What is begun ends: a block transfer under a CPU that does not sleep for  *)
(* good, a byte without a cable, a bounded call of the frame loops, and      *)
(* run_frame once the game leaves FF40 alone.                                *)
EverythingEnds ==
  /\ HdmaCompletes /\ Sr!ByteEnds
  /\ Fc!BoundedCallsReturn /\ Fc!FrameReturnsWithoutLcdcWrites
=============================================================================
