----------------------------- MODULE PpuTiming -----------------------------
(***************************************************************************)
(* The display as a function of time (kokura-core ppu/mod.rs).  The mode   *)
(* is not stored: it follows from the position and from what the program   *)
(* has set (scroll, window, sprites), so a register write can move it      *)
(* without a clock.  A Ppu is a record: on, geo, ly, dots (mode_cycles),   *)
(* lyc, stat, line (stat_interrupt_line), penalty (mode3_sprite_penalty).  *)
(***************************************************************************)
EXTENDS Integers, Sequences

CONSTANTS
  LineDots,      \* dots of a line (456)
  SearchDots,    \* dots of OAM search (80)
  TransferEnd,   \* where mode 3 ends with no penalty (252)
  VisibleLines,  \* 144
  TotalLines,    \* 154
  WindowDots,    \* penalty of a visible window (6)
  Geometries,    \* [bg, win, fine, wy]: LCDC bits 0 and 5 (with WX), SCX & 7, WY
  OamContents    \* what the sprites of OAM cost on each visible line

DisplaySizes ==
  /\ SearchDots \in Nat \ {0} /\ TransferEnd \in Nat /\ LineDots \in Nat
  /\ VisibleLines \in Nat \ {0} /\ TotalLines \in Nat /\ WindowDots \in Nat
  /\ SearchDots < TransferEnd /\ VisibleLines < TotalLines
  /\ Geometries \subseteq [bg : BOOLEAN, win : BOOLEAN, fine : Nat, wy : Nat]
  /\ OamContents \subseteq [0 .. VisibleLines - 1 -> Nat]
  /\ \A g \in Geometries, o \in OamContents, l \in 0 .. VisibleLines - 1 :
       TransferEnd + g.fine + WindowDots + o[l] < LineDots

ASSUME PpuConstantsAssumption == DisplaySizes

DrawnLines == 0 .. VisibleLines - 1
AtMost(a, b) == IF a =< b THEN a ELSE b
AtLeast(a, b) == IF a >= b THEN a ELSE b

-----------------------------------------------------------------------------
WindowVisible(p, line) == p.geo.bg /\ p.geo.win /\ p.geo.wy < VisibleLines /\ line >= p.geo.wy

(* mode3_end_cycles *)
Mode3End(p, line) ==
  TransferEnd + (IF p.geo.bg THEN p.geo.fine ELSE 0)
              + (IF WindowVisible(p, line) THEN WindowDots ELSE 0) + p.penalty

ModeFor(p, ly, dots) ==
  IF ~ p.on THEN "hblank"
  ELSE IF ly >= VisibleLines THEN "vblank"
  ELSE IF dots < SearchDots THEN "search"
  ELSE IF dots < Mode3End(p, ly) THEN "transfer"
  ELSE "hblank"

Mode(p) == ModeFor(p, p.ly, p.dots)

(* The combined signal of the enabled sources. *)
Selected(p) ==
  /\ p.on
  /\ \/ "lyc" \in p.stat /\ p.ly = p.lyc
     \/ Mode(p) \in p.stat

(* Mutant of Refreshed. *)
RefreshedByMode(p) == [p EXCEPT !.line = Selected(p) /\ Mode(p) \in p.stat]

(* refresh_stat_interrupt_line *)
Refreshed(p) == [p EXCEPT !.line = Selected(p)]
Rises(p) == ~ p.line /\ Selected(p)

(* Dots to the next boundary of a mode or line: at least one. *)
Boundary(p) ==
  AtLeast(1, CASE Mode(p) = "search" -> SearchDots - p.dots
               [] Mode(p) = "transfer" -> Mode3End(p, p.ly) - p.dots
               [] OTHER -> LineDots - p.dots)

(* latch_scanline_state *)
Latched(p, o) == [p EXCEPT !.penalty = IF p.on /\ p.ly < VisibleLines THEN o[p.ly] ELSE 0]

(* Mutant of AtLineStart. *)
AtAnyChunk(p) == p.on /\ p.ly < VisibleLines

AtLineStart(p) == Mode(p) = "search" /\ p.dots = 0

(* The position c dots on, within a line's end; the last visible line      *)
(* leaves its sprites behind.  (The window's row counter is left out.)     *)
Moved(p, c) ==
  LET dots == p.dots + c
      next == p.ly + 1
  IN IF dots < LineDots THEN [p EXCEPT !.dots = dots]
     ELSE [p EXCEPT !.dots = dots - LineDots,
                    !.ly = IF next >= TotalLines THEN 0 ELSE next,
                    !.penalty = IF next = VisibleLines THEN 0 ELSE @]

LineDone(p, c) ==
  /\ Mode(p) = "transfer" /\ p.dots + c >= Mode3End(p, p.ly)

(* One pass of tick's loop. *)
Pass(p, c) ==
  IF ~ p.on
  THEN LET q == [p EXCEPT !.ly = 0, !.dots = 0]
       IN [ppu |-> Refreshed(q), stat |-> Rises(q), vblank |-> FALSE, frame |-> FALSE,
           drawn |-> {}, hblank |-> FALSE]
  ELSE LET q == Moved(p, c)
       IN [ppu |-> Refreshed(q), stat |-> Rises(q),
           vblank |-> q.ly # p.ly /\ q.ly = VisibleLines,
           frame |-> q.ly < p.ly,
           drawn |-> IF LineDone(p, c) THEN {p.ly} ELSE {},
           hblank |-> Mode(p) # "hblank" /\ Mode(q) = "hblank"]

PowerOn(geo, lyc, stat) ==
  [on |-> TRUE, geo |-> geo, ly |-> 0, dots |-> 0, lyc |-> lyc, stat |-> stat,
   line |-> FALSE, penalty |-> 0]
=============================================================================
