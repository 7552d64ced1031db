-------------------------------- MODULE Ppu --------------------------------
(***************************************************************************)
(* The display under the program: register writes, loads of a state and    *)
(* chunks of the machine's clock, in any order.  One latch serves the four *)
(* sources of the STAT interrupt.                                          *)
(***************************************************************************)
EXTENDS PpuTiming

CONSTANTS
  Enables,   \* interrupt sources the program selects together
  Ticks,     \* lengths of the ticks compared
  MaxAhead   \* how far a prediction looks ahead (at most OAM search)

Sources == {"hblank", "vblank", "search", "lyc"}

(* What the constants must satisfy, assumed where they are given. *)
PpuParameters ==
  /\ DisplaySizes
  /\ Enables \subseteq SUBSET Sources /\ Ticks \subseteq Nat /\ MaxAhead \in 0 .. SearchDots

VARIABLES
  ppu,     \* the Ppu: on, geo, ly, dots, lyc, stat, line, penalty
  oam,     \* what OAM holds now
  dmg,     \* the machine runs in DMG mode
  raised,  \* the last step requested the STAT interrupt
  stale,   \* history: a write has moved the mode since the latch was refreshed
  drawn,   \* history: how often each line was drawn in this frame
  moved    \* history: lines whose geometry was written while they were drawn

vars == <<ppu, oam, dmg, raised, stale, drawn, moved>>
history == <<drawn, moved>>

Init ==
  /\ \E g \in Geometries : ppu = PowerOn(g, 0, {})
  /\ oam \in OamContents /\ dmg \in BOOLEAN
  /\ raised = FALSE /\ stale = FALSE
  /\ drawn = [l \in DrawnLines |-> 0] /\ moved = {}

(* A chunk of the machine's clock: never past the next boundary.  The      *)
(* sprites of a line are looked up as it begins.                           *)
Advance(c) ==
  /\ c =< Boundary(ppu) \/ ~ ppu.on
  /\ LET p == IF AtLineStart(ppu) THEN Latched(ppu, oam) ELSE ppu
         r == Pass(p, c)
     IN /\ ppu' = r.ppu /\ raised' = r.stat /\ stale' = FALSE
        /\ IF r.frame THEN drawn' = [l \in DrawnLines |-> 0] /\ moved' = {}
           ELSE drawn' = [l \in DrawnLines |-> drawn[l] + IF l \in r.drawn THEN 1 ELSE 0]
                /\ UNCHANGED moved
  /\ UNCHANGED <<oam, dmg>>

(* The line in progress when the geometry changes under it. *)
Disturbed == IF ppu.on /\ ppu.ly < VisibleLines /\ ppu.dots >= SearchDots THEN {ppu.ly} ELSE {}

(* FF40.  Switching the LCD on or off starts the picture over. *)
WriteLcdc(on, bg, win) ==
  LET q == [ppu EXCEPT !.on = on, !.geo.bg = bg, !.geo.win = win]
      p == IF on = ppu.on THEN q
           ELSE [q EXCEPT !.ly = 0, !.dots = 0, !.penalty = 0]
  IN /\ p.geo \in Geometries
     /\ ppu' = Refreshed(p) /\ raised' = Rises(p) /\ stale' = FALSE
     /\ IF on = ppu.on
        THEN moved' = moved \cup Disturbed /\ UNCHANGED drawn
        ELSE moved' = {} /\ drawn' = [l \in DrawnLines |-> 0]
     /\ UNCHANGED <<oam, dmg>>

(* SCX, WX and WY only store: the latch is not refreshed. *)
GeometryWritten(g) ==
  /\ g \in Geometries
  /\ ppu' = [ppu EXCEPT !.geo = g]
  /\ moved' = moved \cup Disturbed
  /\ raised' = FALSE /\ stale' = TRUE
  /\ UNCHANGED <<oam, dmg, drawn>>

WriteScx(fine) == GeometryWritten([ppu.geo EXCEPT !.fine = fine])
WriteWx(win) == GeometryWritten([ppu.geo EXCEPT !.win = win])
WriteWy(wy) == GeometryWritten([ppu.geo EXCEPT !.wy = wy])

(* A DMG takes any STAT write outside mode 3 for a rise of the line. *)
Spurious == dmg /\ ppu.on /\ (ppu.ly = ppu.lyc \/ Mode(ppu) # "transfer")

(* Mutant of WriteStat. *)
WriteStatKeepsLine(sel) ==
  /\ ppu' = [ppu EXCEPT !.stat = sel] /\ raised' = Spurious
  /\ UNCHANGED <<stale, oam, dmg, history>>

WriteStat(sel) ==
  LET p == [ppu EXCEPT !.stat = sel]
  IN /\ ppu' = Refreshed(p) /\ raised' = (Spurious \/ Rises(p)) /\ stale' = FALSE
     /\ UNCHANGED <<oam, dmg, history>>

WriteLyc(l) ==
  LET p == [ppu EXCEPT !.lyc = l]
  IN /\ ppu' = Refreshed(p) /\ raised' = Rises(p) /\ stale' = FALSE
     /\ UNCHANGED <<oam, dmg, history>>

(* The program or a transfer writes OAM. *)
WriteOam(o) == oam' = o /\ raised' = FALSE /\ UNCHANGED <<ppu, dmg, stale, history>>

(* restore_runtime_state after a load: neither the latch nor the sprites   *)
(* found for the line are in a state file; a rise is not reported.         *)
SaveAndLoad ==
  /\ ppu' = Latched(Refreshed([ppu EXCEPT !.penalty = 0]), oam)
  /\ moved' = moved \cup Disturbed
  /\ raised' = FALSE /\ stale' = TRUE
  /\ UNCHANGED <<oam, dmg, drawn>>

Program ==
  \/ \E on, bg, win \in BOOLEAN : WriteLcdc(on, bg, win)
  \/ \E g \in Geometries : WriteScx(g.fine) \/ WriteWx(g.win) \/ WriteWy(g.wy)
  \/ \E sel \in Enables : WriteStat(sel)
  \/ \E l \in 0 .. TotalLines - 1 : WriteLyc(l)
  \/ \E o \in OamContents : WriteOam(o)

Next == Program \/ SaveAndLoad \/ \E c \in 1 .. LineDots : Advance(c)

Spec == Init /\ [][Next]_vars

-----------------------------------------------------------------------------
TypeOK ==
  /\ ppu \in [on : BOOLEAN, geo : Geometries, ly : 0 .. TotalLines - 1, dots : 0 .. LineDots - 1,
              lyc : 0 .. TotalLines - 1, stat : SUBSET Sources, line : BOOLEAN,
              penalty : Nat]
  /\ oam \in OamContents /\ dmg \in BOOLEAN /\ raised \in BOOLEAN /\ stale \in BOOLEAN
  /\ drawn \in [DrawnLines -> Nat] /\ moved \subseteq DrawnLines

(* The four sources share one line: a step requests the interrupt exactly  *)
(* when the signal was low and is high, across mode changes, LCD switches  *)
(* and writes to STAT and LYC, and one source taking over from another     *)
(* requests nothing (ppu/mod.rs:759).  Apart stand the quirk of a DMG and  *)
(* steps in which a write to SCX, WX or WY or a load moved the mode.       *)
RequestIsRise ==
  [][~ stale /\ ~ stale' /\ ~ (Spurious /\ ppu'.stat # ppu.stat) =>
       (raised' <=> ~ Selected(ppu) /\ Selected(ppu'))]_<<ppu, oam, stale>>

(* By the end of a frame every visible line has been drawn once, in order, *)
(* unless its own geometry was written while it was being drawn: the mode  *)
(* then moves past or back over the end of mode 3 (ppu/mod.rs:174).        *)
EveryLineDrawnOnce ==
  [][ppu.ly > 0 /\ ppu'.ly = 0 /\ ppu.on /\ ppu'.on =>
       \A l \in DrawnLines \ moved : drawn[l] = 1]_vars

-----------------------------------------------------------------------------
(* Ppu::tick and tick_fast as loops over any number of dots, and the       *)
(* prediction a polling load makes of STAT and LY.                         *)

Start(p, n) == [ppu |-> p, left |-> n, stat |-> FALSE, vblank |-> FALSE, frame |-> FALSE,
                drawn |-> {}]

(* One turn of the loop, done if there is nothing left. *)
Turn(r, pass, c) ==
  IF r.left = 0 THEN r
  ELSE [ppu |-> pass.ppu, left |-> r.left - c, stat |-> r.stat \/ pass.stat,
        vblank |-> r.vblank \/ pass.vblank, frame |-> r.frame \/ pass.frame,
        drawn |-> IF pass.drawn # {} THEN pass.drawn ELSE r.drawn]

Chunk(p, left) == IF p.on THEN AtMost(left, Boundary(p)) ELSE left

(* Ppu::tick: at most n turns, since a chunk is at least one dot. *)
TickTurn(r) == LET c == Chunk(r.ppu, r.left) IN Turn(r, Pass(r.ppu, c), c)
Tick(p, n) ==
  LET after[k \in Nat] == IF k = 0 THEN Start(p, n) ELSE TickTurn(after[k - 1]) IN after[n]

(* A pass of tick_fast: a change of coincidence refreshes the latch first, *)
(* and the second refresh sees what the first has left.                    *)
FastPass(p, c) ==
  LET r == Pass(p, c)
      q == IF p.on THEN Moved(p, c) ELSE p
      changed == (p.ly = p.lyc) # (q.ly = q.lyc)
  IN IF p.on /\ changed
     THEN [r EXCEPT !.stat = Rises(q) \/ Rises(Refreshed(q))]
     ELSE r

FastTurn(r) == LET c == Chunk(r.ppu, r.left) IN Turn(r, FastPass(r.ppu, c), c)
TickFast(p, n) ==
  LET after[k \in Nat] == IF k = 0 THEN Start(p, n) ELSE FastTurn(after[k - 1]) IN after[n]

(* The reference: a dot at a time. *)
DotTurn(r) == Turn(r, Pass(r.ppu, 1), 1)
DotByDot(p, n) ==
  LET after[k \in Nat] == IF k = 0 THEN Start(p, n) ELSE DotTurn(after[k - 1]) IN after[n]

-----------------------------------------------------------------------------
(* predict_state_after_cycles *)
PositionAfter(p, n) ==
  LET dots == p.dots + n
  IN IF ~ p.on THEN [ly |-> 0, dots |-> 0]
     ELSE [ly |-> (p.ly + dots \div LineDots) % TotalLines, dots |-> dots % LineDots]

(* predict_ly_after_cycles, predict_stat_after_cycles *)
Predicted(p, n) ==
  LET at == PositionAfter(p, n)
  IN [ly |-> at.ly, lyc |-> at.ly = p.lyc, mode |-> ModeFor(p, at.ly, at.dots)]

(* read_stat and LY *)
Readable(p) == [ly |-> p.ly, lyc |-> p.ly = p.lyc, mode |-> Mode(p)]

(* The display after n dots of the machine's clock. *)
ClockTurn(r, o) ==
  LET q == IF AtLineStart(r.ppu) THEN Latched(r.ppu, o) ELSE r.ppu
      c == Chunk(q, r.left)
  IN Turn(r, Pass(q, c), c)
Clocked(p, o, n) ==
  LET after[k \in Nat] == IF k = 0 THEN Start(p, n) ELSE ClockTurn(after[k - 1], o)
  IN after[n].ppu

-----------------------------------------------------------------------------
(* However time is cut into ticks, and in the traced and the fast twin     *)
(* alike, the display ends in the same state and raises the same           *)
(* interrupts (ppu/mod.rs:154, 246).  After a write that has moved the     *)
(* mode behind the latch, a rise can depend on the cut.                    *)
TicksAgree ==
  \A n \in Ticks :
    /\ Tick(ppu, n) = TickFast(ppu, n)
    /\ ~ stale => Tick(ppu, n) = DotByDot(ppu, n)

(* A load that polls STAT or LY sees what the display will show at its     *)
(* last cycle, over ends of modes, lines and the frame, although it does   *)
(* not know the sprites of the next line (lib.rs:937).                     *)
PredictionHolds ==
  \A n \in 0 .. MaxAhead : Predicted(ppu, n) = Readable(Clocked(ppu, oam, n))
=============================================================================
