---------------------------- MODULE ClockAdvance ----------------------------
(***************************************************************************)
(* How the machine's clock drives its devices (kokura-core lib.rs,         *)
(* advance_clocks and advance_clocks_fast).  A step's cycles are cut into  *)
(* chunks that end where the display or a transfer needs it; timer and     *)
(* transfers get CPU cycles, display and sound get dots, a speed switch    *)
(* freezes all of them, and a block copied in HBlank adds to what is left. *)
(***************************************************************************)
EXTENDS PpuTiming

CONSTANTS
  Costs, FreezeCycles, BlockStall, StepCap, StepBudgets, CycleBudgets,  \* as in FrameClock
  OamBytes, StartDelay, ByteCycles,                                     \* as in Dma
  MaxBlocks      \* most blocks of an HBlank transfer

FrameDots == LineDots * TotalLines

ASSUME ClockAdvanceAssumption ==
  /\ OamBytes \in Nat \ {0} /\ StartDelay \in Nat \ {0} /\ ByteCycles \in Nat \ {0}
  /\ MaxBlocks \in Nat
  /\ \A c \in Costs : c \in Nat \ {0} /\ c % 2 = 0 /\ c + BlockStall < FrameDots
  /\ FreezeCycles \in Nat /\ FreezeCycles % 2 = 0 /\ BlockStall \in Nat

VARIABLES
  ppu, oam,      \* as in Ppu
  frame_phase,   \* clocks.frame_phase_ppu_cycles
  double,        \* cgb_double_speed
  dma,           \* the OAM transfer: active, delay, accum, copied
  blocks,        \* blocks left of the HBlank transfer
  halted,        \* the CPU sleeps, and blocks are put off
  call           \* the loop in progress, as in FrameClock

vars == <<ppu, oam, frame_phase, double, dma, blocks, halted, call>>

FC == INSTANCE FrameClock WITH
        lcd <- ppu.on, dot <- ppu.ly * LineDots + ppu.dots

-----------------------------------------------------------------------------
NoTransfer == [active |-> FALSE, delay |-> 0, accum |-> 0, copied |-> 0]

CeilDots(cycles, fast) == IF fast THEN (cycles + 1) \div 2 ELSE cycles

(* cycles_until_next_dma_event *)
DmaEvent(d) == IF d.delay > 0 THEN d.delay ELSE AtLeast(1, ByteCycles - d.accum)

(* tick_dma *)
DmaTicked(d, c) ==
  LET accum == d.accum + c - AtMost(c, d.delay)
      n == AtMost(accum \div ByteCycles, OamBytes - d.copied)
  IN IF ~ d.active THEN d
     ELSE IF d.copied + n >= OamBytes THEN NoTransfer
     ELSE [d EXCEPT !.delay = @ - AtMost(c, @), !.accum = accum - n * ByteCycles,
                    !.copied = @ + n]

(* What a step has left, and what its devices have got so far, once its     *)
(* instruction has left the display in p and the phase at ph.               *)
Begun(cycles, freeze, p, ph, fast) ==
  [cpu |-> cycles, dots |-> FC!ToDots(cycles, fast), freeze |-> freeze, ppu |-> p,
   dma |-> dma, blocks |-> blocks, phase |-> ph, frame |-> FALSE,
   timer |-> 0, sound |-> 0, stalled |-> 0, lines |-> {}]

(* Mutant of Frozen. *)
FrozenDotsGoOn(r, fast) ==
  LET c == AtMost(r.cpu, r.freeze) IN [r EXCEPT !.freeze = @ - c, !.cpu = @ - c]

(* A frozen stretch: only the total of cycles goes on. *)
Frozen(r, fast) ==
  LET c == AtMost(r.cpu, r.freeze)
  IN [r EXCEPT !.freeze = @ - c, !.cpu = @ - c,
               !.dots = AtLeast(0, @ - FC!ToDots(c, fast))]

(* Cycles no dot is left for. *)
CpuOnly(r) ==
  [r EXCEPT !.timer = @ + r.cpu, !.dma = DmaTicked(@, r.cpu), !.cpu = 0]

ChunkDots(r, p, fast) ==
  LET event == IF p.on THEN AtMost(r.dots, Boundary(p)) ELSE r.dots
  IN AtLeast(1, IF r.dma.active THEN AtMost(event, CeilDots(DmaEvent(r.dma), fast)) ELSE event)

(* Mutant of EntersHBlank. *)
EntersAtAnyHBlank(pass) == Mode(pass.ppu) = "hblank"

EntersHBlank(pass) == Mode(pass.ppu) = "hblank" /\ pass.drawn # {}

(* How a loop recognises an entry into HBlank: advance_clocks watches the  *)
(* display's trace for a change of mode, advance_clocks_fast has no trace  *)
(* and goes by the line just drawn.                                        *)
Enters(pass, observed) == IF observed THEN pass.hblank ELSE EntersHBlank(pass)

(* A chunk, after which a block may be copied. *)
Chunked(r, fast, observed) ==
  LET p == IF AtLineStart(r.ppu) THEN Latched(r.ppu, oam) ELSE r.ppu
      dots == ChunkDots(r, p, fast)
      cpu == AtMost(FC!ToCycles(dots, fast), r.cpu)
      pass == Pass(p, dots)
      block == Enters(pass, observed) /\ r.blocks > 0 /\ ~ halted
      stall == IF block THEN BlockStall ELSE 0
  IN [r EXCEPT !.ppu = pass.ppu, !.dma = DmaTicked(@, cpu),
               !.blocks = IF block THEN @ - 1 ELSE @,
               !.phase = (@ + dots) % FrameDots,
               !.frame = @ \/ r.phase + dots >= FrameDots,
               !.timer = @ + cpu, !.sound = @ + dots, !.stalled = @ + stall,
               !.lines = @ \cup pass.drawn,
               !.cpu = @ + FC!ToCycles(stall, fast) - cpu,
               !.dots = AtLeast(0, @ + stall - dots)]

Turn(r, fast, observed) ==
  IF r.cpu = 0 THEN r
  ELSE IF r.freeze > 0 THEN Frozen(r, fast)
  ELSE IF r.dots = 0 THEN CpuOnly(r)
  ELSE Chunked(r, fast, observed)

(* Every turn uses up a cycle, so this many are enough. *)
Turns(cycles) == cycles + 2 * BlockStall * MaxBlocks

(* advance_clocks *)
Advanced(start, cycles, fast) ==
  LET after[k \in Nat] == IF k = 0 THEN start ELSE Turn(after[k - 1], fast, TRUE)
  IN after[Turns(cycles)]

(* advance_clocks_fast *)
AdvancedFast(start, cycles, fast) ==
  LET after[k \in Nat] == IF k = 0 THEN start ELSE Turn(after[k - 1], fast, FALSE)
  IN after[Turns(cycles)]

-----------------------------------------------------------------------------
Init ==
  /\ \E g \in Geometries : ppu = PowerOn(g, 0, {})
  /\ oam \in OamContents /\ frame_phase = 0 /\ double \in BOOLEAN
  /\ dma = NoTransfer /\ blocks = 0 /\ halted = FALSE
  /\ call = FC!Idle

Begin ==
  /\ FC!RunFrame \/ FC!RunSlice \/ FC!RunAudioSlice
  /\ UNCHANGED <<ppu, oam, frame_phase, double, dma, blocks, halted>>

Return ==
  /\ call.loop # "none" /\ ~ FC!GoesOn(call)
  /\ call' = FC!Idle
  /\ UNCHANGED <<ppu, oam, frame_phase, double, dma, blocks, halted>>

(* What the instruction has written to FF40, before its cycles pass. *)
Switched(effect) ==
  LET on == FC!LcdAfter(effect)
  IN IF on = ppu.on THEN ppu
     ELSE [ppu EXCEPT !.on = on, !.ly = 0, !.dots = 0, !.penalty = 0]

(* An instruction is over before a second HBlank begins, whatever mode 3 and *)
(* a block take of the line.  Only a general-purpose transfer's cycles, which*)
(* count as its instruction's, take longer, and it ends the HBlank transfer. *)
WithinLine(cost) ==
  \A g \in Geometries, o \in OamContents, l \in DrawnLines :
    cost + BlockStall + g.fine + WindowDots + o[l] =< LineDots

(* finish_step *)
Step(cost, effect, filled) ==
  LET switch == effect = "switch_speed"
      fast == double # switch
      frozen == IF switch THEN FreezeCycles ELSE 0
      start == Begun(cost + frozen, frozen, Switched(effect), FC!PhaseAfter(effect), fast)
      r == Advanced(start, cost + frozen, fast)
  IN
  /\ FC!GoesOn(call)
  /\ WithinLine(cost) \/ blocks = 0
  /\ ppu' = r.ppu /\ dma' = r.dma /\ blocks' = r.blocks /\ frame_phase' = r.phase
  /\ double' = fast
  /\ call' = [call EXCEPT
       !.steps = FC!Remaining(@, 1), !.cycles = FC!Remaining(@, cost + frozen),
       !.done = IF call.loop = "audio" THEN filled ELSE r.frame]
  /\ UNCHANGED <<oam, halted>>

(* Stores that move no clock: SCX, FF46, FF55, OAM; HALT and its end. *)
WriteScx(fine) ==
  /\ [ppu.geo EXCEPT !.fine = fine] \in Geometries
  /\ ppu' = [ppu EXCEPT !.geo.fine = fine]
  /\ UNCHANGED <<oam, frame_phase, double, dma, blocks, halted, call>>

WriteFF46 ==
  /\ dma' = [active |-> TRUE, delay |-> StartDelay, accum |-> 0, copied |-> 0]
  /\ UNCHANGED <<ppu, oam, frame_phase, double, blocks, halted, call>>

WriteFF55(n) ==
  /\ blocks' = n
  /\ UNCHANGED <<ppu, oam, frame_phase, double, dma, halted, call>>

WriteOam(o) ==
  /\ oam' = o
  /\ UNCHANGED <<ppu, frame_phase, double, dma, blocks, halted, call>>

SleepOrWake ==
  /\ halted' = ~ halted
  /\ UNCHANGED <<ppu, oam, frame_phase, double, dma, blocks, call>>

Store ==
  \/ \E g \in Geometries : WriteScx(g.fine)
  \/ WriteFF46
  \/ \E n \in 0 .. MaxBlocks : WriteFF55(n)
  \/ \E o \in OamContents : WriteOam(o)

AnyStep == \E cost \in Costs, effect \in FC!Effects, filled \in BOOLEAN : Step(cost, effect, filled)

Next == Begin \/ AnyStep \/ Return \/ Store \/ SleepOrWake

Spec == Init /\ [][Next]_vars

-----------------------------------------------------------------------------
(* The loop with observation and the one without leave the machine and its *)
(* devices alike, blocks included, whichever chunks the step falls into;   *)
(* in both, every cycle that is not frozen reaches the timer once and      *)
(* every dot the sound, the stalls of copied blocks included (lib.rs:1677, *)
(* 1815).                                                                  *)
LoopsAgree ==
  \A cost \in Costs, freeze \in {0, FreezeCycles} :
    LET start == Begun(cost + freeze, freeze, ppu, frame_phase, double)
        r == Advanced(start, cost + freeze, double)
    IN /\ r = AdvancedFast(start, cost + freeze, double)
       /\ r.cpu = 0 /\ r.freeze = 0
       /\ r.timer = cost + FC!ToCycles(r.stalled, double)
       /\ r.sound = FC!ToDots(cost, double) + r.stalled
       /\ r.stalled = BlockStall * (blocks - r.blocks)

(* The chunks of a step add up to what the nominal frame clock counts, and *)
(* the display's position with them, in both speeds, across LCD and speed  *)
(* switches, transfers and stalls.                                         *)
ImplementsFrameClock == FC!Spec
=============================================================================
