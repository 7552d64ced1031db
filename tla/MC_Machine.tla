----------------------------- MODULE MC_Machine -----------------------------
(***************************************************************************)
(* Small instances of the processor's steps, the display and the bus for     *)
(* TLC, one of them at work.  Display: lines of 7 dots, two of three         *)
(* visible; sprites of zero or one dot, the fine scroll and the window move  *)
(* the mode.  Bus: a program reaches one group of related addresses.         *)
(***************************************************************************)
EXTENDS CpuStep

CONSTANTS
  LineDots, SearchDots, TransferEnd, VisibleLines, TotalLines, WindowDots,
  Geometries, OamContents, Enables, Ticks, MaxAhead,
  Data, SwitchedBanks, PaletteSize, Programs, Carts, MaxAccesses

MCGeometries == {g \in [bg : BOOLEAN, win : BOOLEAN, fine : {0, 1}, wy : {1}] :
                   g.bg \/ (~ g.win /\ g.fine = 0)}
MCOam == {[l \in 0 .. 1 |-> l], [l \in 0 .. 1 |-> 1 - l]}
MCEnables == {{}, {"lyc", "hblank"}, {"vblank", "hblank", "search"}}

VARIABLES
  part,
  ppu, oam, dmg, raised, stale, drawn, moved,
  reach, cgb, cart, mem, io, display, dma, trace, accesses, stored, since

ppuVars == <<ppu, oam, dmg, raised, stale, drawn, moved>>
busVars == <<reach, cgb, cart, mem, io, display, dma, trace, accesses, stored, since>>
allVars == <<part, vars, ppuVars, busVars>>

Lcd == INSTANCE Ppu

ASSUME LcdAssumption == Lcd!PpuParameters

MCPrograms ==
  {{"8000", "FF4F", "C000"}, {"C000", "D000", "FF46"}, {"D000", "DE00", "F000", "FF70"},
   {"FE00", "FF80", "FF46"}, {"FF68", "FF69"}, {"FF6A", "FF6B"}, {"0000", "A000", "FF46"},
   {"FF01", "FF04", "FF0F", "FF44"}}

Bus == INSTANCE Bus

ASSUME BusAssumption == Bus!BusParameters

(* What is not at work keeps one of its initial states. *)
MCInit ==
  /\ part \in {"cpu", "display", "bus"}
  /\ Init /\ Lcd!Init /\ Bus!Init
  /\ part # "bus" => cgb /\ cart.colour = "no" /\ "8000" \in reach
  /\ part # "display" => dmg /\ oam[0] = 0 /\ ~ ppu.geo.bg /\ ~ ppu.geo.win /\ ppu.geo.fine = 0

CpuStepTaken == part = "cpu" /\ Step /\ UNCHANGED <<part, ppuVars, busVars>>
CpuNext == part = "cpu" /\ Next /\ UNCHANGED <<part, ppuVars, busVars>>
DisplayNext == part = "display" /\ Lcd!Next /\ UNCHANGED <<part, vars, busVars>>
BusNext == part = "bus" /\ Bus!Next /\ UNCHANGED <<part, vars, ppuVars>>

MCNext == CpuNext \/ DisplayNext \/ BusNext

(* Whoever runs the machine goes on stepping it. *)
MCSpec == MCInit /\ [][MCNext]_allVars /\ WF_allVars(CpuStepTaken)

(* Ppu: a rise of the shared signal, and only one, requests the interrupt,   *)
(* and a frame draws every line once.                                        *)
RequestIsRise == Lcd!RequestIsRise
EveryLineDrawnOnce == Lcd!EveryLineDrawnOnce

(* Ppu: time may be cut anywhere, in either twin, and a polling load    *)
(* predicts what the display will show.                                      *)
TicksAgree == part = "display" => (Lcd!TicksAgree /\ Lcd!PredictionHolds)

(* Bus: banks, echoes, palettes and transfers are one memory. *)
MemoryIsOne == part = "bus" => Bus!MemoryIsOne
=============================================================================
