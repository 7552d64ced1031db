---------------------------- MODULE ClockProofs ----------------------------
(***************************************************************************)
(* What holds of the machine's clock for every size of the picture, every  *)
(* cost of a step and every stall: the observed and the fast loop agree,   *)
(* and the chunks of a step add up to a step of the nominal frame clock.   *)
(*                                                                         *)
(* Reached relates a state of a loop to the one it started from: cycles    *)
(* are dots at the speed of the step, what is left and what the devices    *)
(* got make up the step, display and phase have moved by what the sound    *)
(* got.  Room says why a step copies at most one block: what is left of    *)
(* it after an entry into HBlank does not reach the next one.              *)
(***************************************************************************)
EXTENDS ClockAdvance, Iteration

(* The display's registers and position. *)
Displays ==
  [on : BOOLEAN, geo : Geometries, ly : 0 .. TotalLines - 1, dots : 0 .. LineDots - 1,
   lyc : Nat, stat : {{}}, line : BOOLEAN, penalty : Nat]

(* The sprites found for the line in progress are some line's. *)
Fits(p) == p.penalty = 0 \/ \E o \in OamContents, l \in DrawnLines : p.penalty = o[l]

Places == {p \in Displays : Fits(p)}

LEMMA Sizes ==
  /\ SearchDots \in Nat \ {0} /\ TransferEnd \in Nat /\ LineDots \in Nat /\ WindowDots \in Nat
  /\ VisibleLines \in Nat \ {0} /\ TotalLines \in Nat
  /\ SearchDots < TransferEnd /\ VisibleLines < TotalLines
  /\ 0 \in DrawnLines /\ DrawnLines \subseteq Nat
  BY PpuConstantsAssumption DEF DisplaySizes, DrawnLines

(* The end of mode 3 lies behind OAM search and before the end of the line,  *)
(* and later than TransferEnd by what a step leaves free.                    *)
LEMMA EndOfTransfer ==
  ASSUME NEW p \in Places, OamContents # {}, NEW l \in Nat
  PROVE  /\ Mode3End(p, l) \in Nat
         /\ TransferEnd =< Mode3End(p, l) /\ Mode3End(p, l) < LineDots
         /\ SearchDots < Mode3End(p, l)
         /\ \A c \in Nat : WithinLine(c) => c + BlockStall + Mode3End(p, l) =< LineDots + TransferEnd
<1>1. /\ p.geo \in Geometries /\ p.penalty \in Nat
      /\ p.geo.fine \in Nat /\ p.geo.bg \in BOOLEAN
  BY PpuConstantsAssumption DEF Places, Displays, DisplaySizes
<1>2. PICK o \in OamContents, k \in DrawnLines : p.penalty = 0 \/ p.penalty = o[k]
  BY Sizes DEF Fits, Places
<1>3. o[k] \in Nat /\ TransferEnd + p.geo.fine + WindowDots + o[k] < LineDots
  BY <1>1, PpuConstantsAssumption DEF DisplaySizes, DrawnLines
<1>4. /\ \A c \in Nat : WithinLine(c) => c + BlockStall + p.geo.fine + WindowDots + o[k] =< LineDots
      /\ BlockStall \in Nat
  BY <1>1, ClockAdvanceAssumption DEF WithinLine
<1>5. PICK f \in {0, p.geo.fine}, w \in {0, WindowDots} :
        Mode3End(p, l) = TransferEnd + f + w + p.penalty
  <2> DEFINE f == IF p.geo.bg THEN p.geo.fine ELSE 0
             w == IF WindowVisible(p, l) THEN WindowDots ELSE 0
  <2>1. Mode3End(p, l) = TransferEnd + f + w + p.penalty
    BY DEF Mode3End
  <2>2. f \in {0, p.geo.fine} /\ w \in {0, WindowDots}
    OBVIOUS
  <2> HIDE DEF f, w
  <2> QED
    BY <2>1, <2>2
<1> QED
  BY <1>1, <1>2, <1>3, <1>4, <1>5, Sizes

LEMMA RefreshedShape ==
  ASSUME NEW p \in Displays
  PROVE  LET q == Refreshed(p)
         IN /\ q \in Displays /\ (Fits(p) => q \in Places)
            /\ q.on = p.on /\ q.geo = p.geo /\ q.ly = p.ly /\ q.dots = p.dots
            /\ q.penalty = p.penalty /\ Mode(q) = Mode(p)
<1> DEFINE s == Selected(p)
           q == Refreshed(p)
<1>1. s \in BOOLEAN
  BY DEF Selected
<1> HIDE DEF s
<1>2. q = [p EXCEPT !.line = s]
  BY DEF Refreshed, s
<1> HIDE DEF q
<1>3. /\ q \in Displays
      /\ q.on = p.on /\ q.geo = p.geo /\ q.ly = p.ly /\ q.dots = p.dots /\ q.penalty = p.penalty
  BY <1>1, <1>2 DEF Displays
<1>4. Mode3End(q, q.ly) = Mode3End(p, p.ly)
  BY <1>3 DEF Mode3End, WindowVisible
<1>5. Mode(q) = Mode(p)
  BY <1>3, <1>4 DEF Mode, ModeFor
<1>6. Fits(p) => q \in Places
  BY <1>3 DEF Fits, Places
<1> QED
  BY <1>3, <1>5, <1>6 DEF q

LEMMA LatchedShape ==
  ASSUME NEW p \in Places, NEW o \in OamContents
  PROVE  LET q == Latched(p, o)
         IN q \in Places /\ q.on = p.on /\ q.ly = p.ly /\ q.dots = p.dots
<1> DEFINE n == IF p.on /\ p.ly < VisibleLines THEN o[p.ly] ELSE 0
           q == Latched(p, o)
<1>1. n \in Nat /\ (n = 0 \/ \E e \in OamContents, l \in DrawnLines : n = e[l])
  <2>1. CASE p.on /\ p.ly < VisibleLines
    <3>1. p.ly \in DrawnLines
      BY <2>1, Sizes DEF Places, Displays, DrawnLines
    <3>2. o[p.ly] \in Nat
      BY <3>1, PpuConstantsAssumption DEF DisplaySizes, DrawnLines
    <3> QED
      BY <2>1, <3>1, <3>2
  <2>2. CASE ~ (p.on /\ p.ly < VisibleLines)
    BY <2>2
  <2> QED
    BY <2>1, <2>2
<1>2. q = [p EXCEPT !.penalty = n]
  BY DEF Latched
<1> HIDE DEF n, q
<1>3. q \in Displays /\ q.penalty = n /\ q.on = p.on /\ q.ly = p.ly /\ q.dots = p.dots
  BY <1>1, <1>2 DEF Displays, Places
<1> QED
  BY <1>1, <1>3 DEF q, Places, Fits

LEMMA MovedShape ==
  ASSUME NEW p \in Places, NEW c \in Nat \ {0}, p.dots + c =< LineDots
  PROVE  LET q == Moved(p, c)
         IN /\ q \in Places /\ q.on = p.on /\ q.geo = p.geo
            /\ \/ /\ q.dots = p.dots + c /\ q.ly = p.ly /\ q.penalty = p.penalty
                  /\ p.dots + c < LineDots
               \/ /\ p.dots + c = LineDots /\ q.dots = 0
                  /\ \/ p.ly + 1 < TotalLines /\ q.ly = p.ly + 1
                     \/ p.ly + 1 = TotalLines /\ q.ly = 0
<1> DEFINE q == Moved(p, c)
           ly == IF p.ly + 1 >= TotalLines THEN 0 ELSE p.ly + 1
           pen == IF p.ly + 1 = VisibleLines THEN 0 ELSE p.penalty
<1>1. p.dots \in 0 .. LineDots - 1 /\ p.ly \in 0 .. TotalLines - 1 /\ p.penalty \in Nat
  BY DEF Places, Displays
<1>2. CASE p.dots + c < LineDots
  <2>1. q = [p EXCEPT !.dots = p.dots + c]
    BY <1>2 DEF Moved
  <2>2. p.dots + c \in 0 .. LineDots - 1
    BY <1>1, <1>2, Sizes
  <2> HIDE DEF q
  <2>3. /\ q \in Displays /\ q.dots = p.dots + c /\ q.ly = p.ly /\ q.penalty = p.penalty
        /\ q.on = p.on /\ q.geo = p.geo
    BY <2>1, <2>2 DEF Displays, Places
  <2>4. q \in Places
    BY <2>3 DEF Fits, Places
  <2> QED
    BY <1>2, <2>3, <2>4 DEF q
<1>3. CASE ~ (p.dots + c < LineDots)
  <2>1. q = [p EXCEPT !.dots = (p.dots + c) - LineDots, !.ly = ly, !.penalty = pen]
    BY <1>3 DEF Moved
  <2>2. p.dots + c = LineDots /\ (p.dots + c) - LineDots = 0 /\ 0 \in 0 .. LineDots - 1
    BY <1>1, <1>3, Sizes
  <2>3. /\ ly \in 0 .. TotalLines - 1
        /\ (p.ly + 1 < TotalLines /\ ly = p.ly + 1) \/ (p.ly + 1 = TotalLines /\ ly = 0)
    BY <1>1, Sizes
  <2>4. pen \in {0, p.penalty}
    OBVIOUS
  <2> HIDE DEF q, ly, pen
  <2> DEFINE d == (p.dots + c) - LineDots
  <2>5. d \in 0 .. LineDots - 1 /\ d = 0 /\ pen \in Nat
    BY <1>1, <2>2, <2>4
  <2> HIDE DEF d
  <2>6. /\ q \in Displays /\ q.dots = d /\ q.ly = ly /\ q.penalty = pen
        /\ q.on = p.on /\ q.geo = p.geo
    BY <2>1, <2>3, <2>5 DEF Displays, Places, d
  <2>7. q \in Places
    BY <2>4, <2>6 DEF Fits, Places
  <2> QED
    BY <2>2, <2>3, <2>5, <2>6, <2>7 DEF q
<1> QED
  BY <1>2, <1>3

(* In the part of a line before HBlank. *)
Early(p) == p.ly < VisibleLines /\ p.dots < Mode3End(p, p.ly)

LEMMA BoundaryShape ==
  ASSUME NEW p \in Places, OamContents # {}, p.on
  PROVE  /\ Boundary(p) \in Nat \ {0} /\ p.dots + Boundary(p) =< LineDots
         /\ Mode(p) \in {"search", "transfer"} <=> Early(p)
         /\ Mode(p) = "search" => p.dots + Boundary(p) = SearchDots
         /\ Mode(p) = "transfer" => p.dots + Boundary(p) = Mode3End(p, p.ly)
         /\ Mode(p) = "hblank" <=> p.ly < VisibleLines /\ ~ Early(p)
<1>1. p.dots \in 0 .. LineDots - 1 /\ p.ly \in 0 .. TotalLines - 1
  BY DEF Places, Displays
<1>2. PICK m \in Nat : m = Mode3End(p, p.ly) /\ m < LineDots /\ SearchDots < m
  BY <1>1, EndOfTransfer, Sizes
<1>3. CASE p.ly < VisibleLines /\ p.dots < SearchDots
  <2>1. Mode(p) = "search" /\ Early(p)
    BY <1>1, <1>2, <1>3, Sizes DEF Mode, ModeFor, Early
  <2>2. Boundary(p) = AtLeast(1, SearchDots - p.dots)
    BY <2>1 DEF Boundary
  <2> QED
    BY <1>1, <1>2, <1>3, <2>1, <2>2, Sizes DEF AtLeast
<1>4. CASE p.ly < VisibleLines /\ ~ (p.dots < SearchDots) /\ p.dots < m
  <2>1. Mode(p) = "transfer" /\ Early(p)
    BY <1>1, <1>2, <1>4, Sizes DEF Mode, ModeFor, Early
  <2>2. Boundary(p) = AtLeast(1, m - p.dots)
    BY <1>2, <2>1 DEF Boundary
  <2> QED
    BY <1>1, <1>2, <1>4, <2>1, <2>2, Sizes DEF AtLeast
<1>5. CASE ~ (p.ly < VisibleLines) \/ ~ (p.dots < m)
  <2>1. Mode(p) = (IF p.ly < VisibleLines THEN "hblank" ELSE "vblank") /\ ~ Early(p)
    BY <1>1, <1>2, <1>5, Sizes DEF Mode, ModeFor, Early
  <2>2. Boundary(p) = AtLeast(1, LineDots - p.dots)
    BY <2>1 DEF Boundary
  <2> QED
    BY <1>1, <1>2, <1>5, <2>1, <2>2, Sizes DEF AtLeast
<1> QED
  BY <1>3, <1>4, <1>5

(* A pass within a boundary, with the display on: HBlank is entered exactly  *)
(* where a line has been drawn, which both loops can see.                    *)
LEMMA PassMoves ==
  ASSUME NEW p \in Places, OamContents # {}, p.on,
         NEW c \in Nat \ {0}, c =< Boundary(p)
  PROVE  LET s == Pass(p, c)
             q == s.ppu
         IN /\ q \in Places /\ q.on
            /\ s.drawn \subseteq DrawnLines /\ s.hblank \in BOOLEAN
            /\ s.hblank <=> EntersHBlank(s)
            /\ s.hblank => Early(p) /\ q.dots = Mode3End(p, p.ly)
            /\ \/ /\ p.dots + c < LineDots /\ q.dots = p.dots + c /\ q.ly = p.ly
                  /\ Early(q) <=> Early(p) /\ q.dots < Mode3End(p, p.ly)
               \/ /\ p.dots + c = LineDots /\ q.dots = 0 /\ ~ Early(p)
                  /\ \/ p.ly + 1 < TotalLines /\ q.ly = p.ly + 1
                     \/ p.ly + 1 = TotalLines /\ q.ly = 0
<1> DEFINE v == Moved(p, c)
           q == Refreshed(v)
           s == Pass(p, c)
<1>1. p.dots \in 0 .. LineDots - 1 /\ p.ly \in 0 .. TotalLines - 1 /\ p.dots + c =< LineDots
      /\ p \in Displays
  BY BoundaryShape, Sizes DEF Places, Displays
<1>2. /\ v \in Places /\ v.on = p.on /\ v.geo = p.geo
      /\ \/ /\ v.dots = p.dots + c /\ v.ly = p.ly /\ v.penalty = p.penalty
            /\ p.dots + c < LineDots
         \/ /\ p.dots + c = LineDots /\ v.dots = 0
            /\ \/ p.ly + 1 < TotalLines /\ v.ly = p.ly + 1
               \/ p.ly + 1 = TotalLines /\ v.ly = 0
  BY <1>1, MovedShape
<1> HIDE DEF v
<1>3. /\ q \in Places /\ q.on = v.on /\ q.geo = v.geo /\ q.ly = v.ly /\ q.dots = v.dots
      /\ q.penalty = v.penalty /\ Mode(q) = Mode(v)
  BY <1>2, RefreshedShape DEF Places
<1>4. /\ s.ppu = q /\ s.drawn = (IF LineDone(p, c) THEN {p.ly} ELSE {})
      /\ s.hblank = (Mode(p) # "hblank" /\ Mode(v) = "hblank")
  BY DEF Pass, v
<1> HIDE DEF q, s
<1>5. PICK m \in Nat : m = Mode3End(p, p.ly) /\ m < LineDots /\ SearchDots < m
  BY <1>1, EndOfTransfer, Sizes
<1>6. s.drawn = (IF Mode(p) = "transfer" /\ p.dots + c >= m THEN {p.ly} ELSE {})
  BY <1>4, <1>5 DEF LineDone
<1>7. s.hblank \in BOOLEAN /\ (s.hblank <=> Mode(p) # "hblank" /\ Mode(q) = "hblank")
  BY <1>3, <1>4, Zenon
<1>8. EntersHBlank(s) <=> Mode(q) = "hblank" /\ s.drawn # {}
  BY <1>4 DEF EntersHBlank
<1>9. s.drawn \subseteq DrawnLines
  BY <1>1, <1>6, BoundaryShape, Sizes DEF DrawnLines, Early
<1>10. CASE p.dots + c < LineDots
  <2>1. q.ly = p.ly /\ q.dots = p.dots + c /\ q.on /\ q.geo = p.geo /\ q.penalty = p.penalty
    BY <1>1, <1>2, <1>3, <1>10
  <2>2. Mode3End(q, q.ly) = m
    BY <1>5, <2>1 DEF Mode3End, WindowVisible
  <2>3. Early(q) <=> p.ly < VisibleLines /\ p.dots + c < m
    BY <2>1, <2>2 DEF Early
  <2>4. Early(p) <=> p.ly < VisibleLines /\ p.dots < m
    BY <1>5 DEF Early
  <2>5. Mode(q) = "hblank" <=> p.ly < VisibleLines /\ ~ (p.dots + c < m)
    BY <1>3, <2>1, <2>3, BoundaryShape
  <2>6. Mode(p) = "hblank" <=> p.ly < VisibleLines /\ ~ (p.dots < m)
    BY <2>4, BoundaryShape
  <2>7. /\ Mode(p) = "search" => p.dots + c =< SearchDots
        /\ Mode(p) = "transfer" => p.dots + c =< m
        /\ Mode(p) \in {"search", "transfer"} <=> p.ly < VisibleLines /\ p.dots < m
    <3>1. PICK b \in Nat : b = Boundary(p)
      BY BoundaryShape
    <3> QED
      BY <1>1, <1>5, <2>4, <3>1, BoundaryShape
  <2>8. s.hblank <=> EntersHBlank(s)
    BY <1>1, <1>5, <1>6, <1>7, <1>8, <2>5, <2>6, <2>7, Sizes
  <2>9. s.hblank => Early(p) /\ q.dots = m
    BY <1>1, <1>5, <1>7, <2>1, <2>4, <2>5, <2>6, <2>7, Sizes
  <2>10. Early(q) <=> Early(p) /\ q.dots < m
    BY <1>1, <1>5, <2>1, <2>3, <2>4
  <2> QED
    BY <1>3, <1>4, <1>5, <1>7, <1>9, <1>10, <2>1, <2>8, <2>9, <2>10 DEF s
<1>11. CASE p.dots + c = LineDots
  <2>1. /\ q.dots = 0 /\ q.on
        /\ \/ p.ly + 1 < TotalLines /\ q.ly = p.ly + 1
           \/ p.ly + 1 = TotalLines /\ q.ly = 0
    BY <1>1, <1>2, <1>3, <1>11, Sizes
  <2>2. ~ Early(p)
    <3>1. PICK b \in Nat : b = Boundary(p)
      BY BoundaryShape
    <3> QED
      BY <1>1, <1>5, <1>11, <3>1, BoundaryShape, Sizes
  <2>3. Mode(q) # "hblank"
    BY <1>3, <2>1, Sizes DEF Mode, ModeFor
  <2>4. ~ s.hblank /\ ~ EntersHBlank(s)
    BY <1>7, <1>8, <2>3
  <2> QED
    BY <1>3, <1>4, <1>7, <1>9, <1>11, <2>1, <2>2, <2>4 DEF s
<1> QED
  BY <1>1, <1>10, <1>11, Sizes

(* With the display off it stands still and nothing enters HBlank. *)
LEMMA PassOff ==
  ASSUME NEW p \in Places, ~ p.on, p.ly = 0, p.dots = 0, NEW c
  PROVE  LET s == Pass(p, c)
         IN /\ s.ppu \in Places /\ ~ s.ppu.on /\ s.ppu.ly = 0 /\ s.ppu.dots = 0
            /\ s.drawn = {} /\ s.hblank = FALSE /\ ~ EntersHBlank(s)
<1> DEFINE v == [p EXCEPT !.ly = 0, !.dots = 0]
<1>1. v = p
  BY DEF Places, Displays
<1>2. Pass(p, c).ppu = Refreshed(v) /\ Pass(p, c).drawn = {} /\ Pass(p, c).hblank = FALSE
  BY DEF Pass
<1> QED
  BY <1>1, <1>2, RefreshedShape DEF Places, EntersHBlank

-----------------------------------------------------------------------------
Transfers == [active : BOOLEAN, delay : Int, accum : Int, copied : Int]

LEMMA Rates ==
  ASSUME NEW fast \in BOOLEAN
  PROVE  /\ \A d \in Nat : FC!ToCycles(d, fast) \in Nat /\ FC!ToDots(FC!ToCycles(d, fast), fast) = d
         /\ \A d \in Nat : FC!ToCycles(d, fast) = IF fast THEN 2 * d ELSE d
         /\ \A c \in Nat : c % 2 = 0 => FC!ToDots(c, fast) \in Nat
                                         /\ FC!ToCycles(FC!ToDots(c, fast), fast) = c
  BY DEF FC!ToCycles, FC!ToDots

LEMMA DmaShape ==
  ASSUME NEW d \in Transfers, NEW c \in Nat, NEW fast \in BOOLEAN
  PROVE  DmaTicked(d, c) \in Transfers /\ CeilDots(DmaEvent(d), fast) \in Nat \ {0}
<1>1. ByteCycles \in Nat \ {0} /\ OamBytes \in Nat \ {0}
  BY ClockAdvanceAssumption
<1>2. d.active \in BOOLEAN /\ d.delay \in Int /\ d.accum \in Int /\ d.copied \in Int
  BY DEF Transfers
<1>3. DmaTicked(d, c) \in Transfers
  <2> DEFINE accum == d.accum + c - AtMost(c, d.delay)
             n == AtMost(accum \div ByteCycles, OamBytes - d.copied)
             r == [d EXCEPT !.delay = @ - AtMost(c, @), !.accum = accum - n * ByteCycles,
                            !.copied = @ + n]
  <2>1. accum \in Int
    BY <1>2 DEF AtMost
  <2> HIDE DEF accum
  <2>2. accum \div ByteCycles \in Int
    BY <1>1, <2>1, Division
  <2>3. n \in Int
    BY <1>1, <1>2, <2>2 DEF AtMost
  <2> HIDE DEF n
  <2>4. d.delay - AtMost(c, d.delay) \in Int /\ accum - n * ByteCycles \in Int /\ d.copied + n \in Int
    BY <1>1, <1>2, <2>1, <2>3 DEF AtMost
  <2>5. r \in Transfers
    BY <2>4 DEF Transfers
  <2> HIDE DEF r
  <2>6. DmaTicked(d, c) = (IF ~ d.active THEN d ELSE IF d.copied + n >= OamBytes THEN NoTransfer ELSE r)
    BY DEF DmaTicked, n, accum, r
  <2>7. NoTransfer \in Transfers
    BY DEF NoTransfer, Transfers
  <2> QED
    BY <2>5, <2>6, <2>7
<1>4. DmaEvent(d) \in Nat \ {0}
  BY <1>1, <1>2 DEF DmaEvent, AtLeast
<1>5. CeilDots(DmaEvent(d), fast) \in Nat \ {0}
  BY <1>4 DEF CeilDots
<1> QED
  BY <1>3, <1>5

(* The records a loop goes through. *)
Loops ==
  [cpu : Nat, dots : Nat, freeze : Nat, ppu : Places, dma : Transfers, blocks : Nat,
   phase : Nat, frame : BOOLEAN, timer : Nat, sound : Nat, stalled : Nat, lines : SUBSET DrawnLines]

LEMMA ChunkShape ==
  ASSUME NEW r \in Loops, NEW p \in Places, OamContents # {}, NEW fast \in BOOLEAN, r.dots # 0
  PROVE  /\ ChunkDots(r, p, fast) \in 1 .. r.dots
         /\ p.on => ChunkDots(r, p, fast) =< Boundary(p)
<1>1. r.dots \in Nat \ {0} /\ r.dma \in Transfers /\ r.dma.active \in BOOLEAN /\ p.on \in BOOLEAN
  BY DEF Loops, Transfers, Places, Displays
<1>2. PICK e \in Nat \ {0} : e = CeilDots(DmaEvent(r.dma), fast)
  BY <1>1, DmaShape, 0 \in Nat
<1>3. p.on => Boundary(p) \in Nat \ {0}
  BY BoundaryShape
<1> QED
  BY <1>1, <1>2, <1>3 DEF ChunkDots, AtLeast, AtMost

(* What a chunk of c dots makes of r, with the sprites p has latched. *)
After(r, p, c, block, fast) ==
  LET pass == Pass(p, c)
      stall == IF block THEN BlockStall ELSE 0
      left == r.dots + stall - c
  IN [cpu |-> FC!ToCycles(left, fast), dots |-> left, freeze |-> r.freeze, ppu |-> pass.ppu,
      dma |-> DmaTicked(r.dma, FC!ToCycles(c, fast)),
      blocks |-> IF block THEN r.blocks - 1 ELSE r.blocks,
      phase |-> (r.phase + c) % FrameDots, frame |-> r.frame \/ r.phase + c >= FrameDots,
      timer |-> r.timer + FC!ToCycles(c, fast), sound |-> r.sound + c,
      stalled |-> r.stalled + stall, lines |-> r.lines \cup pass.drawn]

(* A display with the sprites of its line may come out of a place. *)
Latches(p, v) ==
  /\ v \in Places /\ v.on = p.on /\ v.ly = p.ly /\ v.dots = p.dots
  /\ Early(v) <=> Early(p)

LEMMA Latching ==
  ASSUME NEW p \in Places, oam \in OamContents
  PROVE  Latches(p, IF AtLineStart(p) THEN Latched(p, oam) ELSE p)
<1>1. CASE AtLineStart(p)
  <2> DEFINE q == Latched(p, oam)
  <2>1. q \in Places /\ q.on = p.on /\ q.ly = p.ly /\ q.dots = p.dots
    BY LatchedShape
  <2>2. p.dots = 0 /\ p.on /\ p.ly < VisibleLines /\ p.ly \in Nat
    <3>1. p.dots = 0 /\ Mode(p) = "search"
      BY <1>1 DEF AtLineStart
    <3>2. p.ly \in 0 .. TotalLines - 1
      BY DEF Places, Displays
    <3> QED
      BY <3>1, <3>2, Sizes DEF Mode, ModeFor
  <2>3. Mode3End(p, p.ly) \in Nat \ {0} /\ Mode3End(q, q.ly) \in Nat \ {0}
    BY <2>1, <2>2, EndOfTransfer, Sizes
  <2> HIDE DEF q
  <2>4. Early(p) /\ Early(q)
    BY <2>1, <2>2, <2>3 DEF Early
  <2> QED
    BY <1>1, <2>1, <2>4 DEF q, Latches
<1>2. CASE ~ AtLineStart(p)
  BY <1>2 DEF Latches
<1> QED
  BY <1>1, <1>2

LEMMA ChunkedShape ==
  ASSUME NEW r \in Loops, NEW fast \in BOOLEAN, oam \in OamContents,
         r.dots # 0, r.cpu = FC!ToCycles(r.dots, fast),
         ~ r.ppu.on => r.ppu.ly = 0 /\ r.ppu.dots = 0
  PROVE  \E p \in Places, c \in 1 .. r.dots, block \in BOOLEAN :
           /\ Latches(r.ppu, p)
           /\ p.on => c =< Boundary(p)
           /\ block => p.on /\ Pass(p, c).hblank /\ r.blocks > 0
           /\ \A observed \in BOOLEAN : Chunked(r, fast, observed) = After(r, p, c, block, fast)
<1> DEFINE p == IF AtLineStart(r.ppu) THEN Latched(r.ppu, oam) ELSE r.ppu
           c == ChunkDots(r, p, fast)
           pass == Pass(p, c)
           block == pass.hblank /\ r.blocks > 0 /\ ~ halted
           cpu == AtMost(FC!ToCycles(c, fast), r.cpu)
           stall == IF block THEN BlockStall ELSE 0
<1>0. r.ppu \in Places /\ r.dots \in Nat \ {0} /\ r.cpu \in Nat /\ BlockStall \in Nat
  BY ClockAdvanceAssumption DEF Loops
<1>1. Latches(r.ppu, p)
  BY <1>0, Latching
<1>2. p \in Places /\ p.on = r.ppu.on /\ p.ly = r.ppu.ly /\ p.dots = r.ppu.dots
  BY <1>1 DEF Latches
<1>3. \A observed \in BOOLEAN : Chunked(r, fast, observed) =
        LET b == Enters(pass, observed) /\ r.blocks > 0 /\ ~ halted
            w == IF b THEN BlockStall ELSE 0
        IN [r EXCEPT !.ppu = pass.ppu, !.dma = DmaTicked(@, cpu),
               !.blocks = IF b THEN @ - 1 ELSE @,
               !.phase = (@ + c) % FrameDots,
               !.frame = @ \/ r.phase + c >= FrameDots,
               !.timer = @ + cpu, !.sound = @ + c, !.stalled = @ + w,
               !.lines = @ \cup pass.drawn,
               !.cpu = @ + FC!ToCycles(w, fast) - cpu,
               !.dots = AtLeast(0, @ + w - c)]
  BY DEF Chunked
<1> HIDE DEF p
<1>4. c \in 1 .. r.dots /\ (p.on => c =< Boundary(p))
  BY <1>0, <1>2, ChunkShape
<1> HIDE DEF c
<1>5. pass.hblank \in BOOLEAN /\ (pass.hblank <=> EntersHBlank(pass)) /\ (pass.hblank => p.on)
  <2>1. CASE p.on
    BY <1>2, <1>4, <2>1, PassMoves
  <2>2. CASE ~ p.on
    <3>1. p.ly = 0 /\ p.dots = 0
      BY <1>2, <2>2
    <3>2. pass.hblank = FALSE /\ ~ EntersHBlank(pass)
      BY <1>2, <2>2, <3>1, PassOff
    <3> QED
      BY <3>2
  <2> QED
    BY <2>1, <2>2
<1> HIDE DEF pass
<1>6. \A observed \in BOOLEAN : Enters(pass, observed) <=> pass.hblank
  BY <1>5 DEF Enters
<1>7. \A observed \in BOOLEAN : (Enters(pass, observed) /\ r.blocks > 0 /\ ~ halted) <=> block
  BY <1>6
<1>8. block \in BOOLEAN /\ (block => p.on /\ pass.hblank /\ r.blocks > 0)
  BY <1>5
<1> HIDE DEF block
<1>9. /\ cpu = FC!ToCycles(c, fast)
      /\ r.cpu + FC!ToCycles(stall, fast) - cpu = FC!ToCycles(r.dots + stall - c, fast)
      /\ AtLeast(0, r.dots + stall - c) = r.dots + stall - c
  <2>1. stall \in Nat /\ c \in Nat /\ c =< r.dots
    BY <1>0, <1>4
  <2> HIDE DEF stall
  <2>2. r.cpu = IF fast THEN 2 * r.dots ELSE r.dots
    BY <1>0, Rates
  <2>3. FC!ToCycles(c, fast) = (IF fast THEN 2 * c ELSE c)
        /\ FC!ToCycles(stall, fast) = (IF fast THEN 2 * stall ELSE stall)
    BY <2>1, Rates
  <2>4. FC!ToCycles(r.dots + stall - c, fast) = IF fast THEN 2 * (r.dots + stall - c) ELSE r.dots + stall - c
    BY <1>0, <2>1, Rates
  <2>5. cpu = FC!ToCycles(c, fast)
    BY <1>0, <2>1, <2>2, <2>3 DEF AtMost
  <2> HIDE DEF cpu
  <2> QED
    BY <1>0, <2>1, <2>2, <2>3, <2>4, <2>5 DEF AtLeast
<1>10. ASSUME NEW observed \in BOOLEAN
       PROVE  Chunked(r, fast, observed) = After(r, p, c, block, fast)
  <2> DEFINE b == Enters(pass, observed) /\ r.blocks > 0 /\ ~ halted
  <2>1. Chunked(r, fast, observed) =
          [r EXCEPT !.ppu = pass.ppu, !.dma = DmaTicked(@, cpu),
               !.blocks = IF b THEN @ - 1 ELSE @,
               !.phase = (@ + c) % FrameDots,
               !.frame = @ \/ r.phase + c >= FrameDots,
               !.timer = @ + cpu, !.sound = @ + c, !.stalled = @ + (IF b THEN BlockStall ELSE 0),
               !.lines = @ \cup pass.drawn,
               !.cpu = @ + FC!ToCycles(IF b THEN BlockStall ELSE 0, fast) - cpu,
               !.dots = AtLeast(0, @ + (IF b THEN BlockStall ELSE 0) - c)]
    BY <1>3, Zenon
  <2>2. b = block
    BY <1>7, <1>8
  <2> HIDE DEF b
  <2>3. (IF b THEN BlockStall ELSE 0) = stall /\ (IF b THEN r.blocks - 1 ELSE r.blocks) = IF block THEN r.blocks - 1 ELSE r.blocks
    BY <2>2
  <2> HIDE DEF stall, cpu
  <2>4. After(r, p, c, block, fast) =
          [cpu |-> FC!ToCycles(r.dots + stall - c, fast), dots |-> r.dots + stall - c, freeze |-> r.freeze,
           ppu |-> pass.ppu, dma |-> DmaTicked(r.dma, FC!ToCycles(c, fast)),
           blocks |-> IF block THEN r.blocks - 1 ELSE r.blocks,
           phase |-> (r.phase + c) % FrameDots, frame |-> r.frame \/ r.phase + c >= FrameDots,
           timer |-> r.timer + FC!ToCycles(c, fast), sound |-> r.sound + c,
           stalled |-> r.stalled + stall, lines |-> r.lines \cup pass.drawn]
    BY Zenon DEF After, pass, stall
  <2> QED
    BY <1>9, <2>1, <2>3, <2>4, ZenonT(120), ZenonT(120) DEF Loops
<1> QED
  <2>1. pass = Pass(p, c)
    BY DEF pass
  <2> QED
    BY <1>1, <1>2, <1>4, <1>8, <1>10, <2>1

-----------------------------------------------------------------------------
Position(p) == p.ly * LineDots + p.dots

LEMMA FrameSize ==
  /\ FrameDots \in Nat /\ FrameDots = TotalLines * LineDots
  /\ \A l \in 0 .. TotalLines - 1 : l * LineDots + LineDots =< FrameDots /\ l * LineDots \in Nat
  /\ \A l \in Nat : (l + 1) * LineDots = l * LineDots + LineDots
<1>1. LineDots \in Nat /\ TotalLines \in Nat \ {0}
  BY PpuConstantsAssumption DEF DisplaySizes
<1>2. \A l \in Nat : (l + 1) * LineDots = l * LineDots + LineDots
  BY <1>1
<1>3. FrameDots \in Nat /\ FrameDots = TotalLines * LineDots
  BY <1>1 DEF FrameDots
<1>4. ASSUME NEW l \in 0 .. TotalLines - 1
      PROVE  l * LineDots + LineDots =< FrameDots /\ l * LineDots \in Nat
  <2>1. PICK k \in Nat : TotalLines = (l + 1) + k
    <3>1. TotalLines - (l + 1) \in Nat /\ TotalLines = (l + 1) + (TotalLines - (l + 1))
      BY <1>1
    <3> QED
      BY <3>1
  <2>2. PICK x \in Nat, y \in Nat : x = l * LineDots /\ y = k * LineDots
    BY <1>1
  <2>3. TotalLines * LineDots = (x + LineDots) + y
    BY <1>1, <2>1, <2>2
  <2> QED
    BY <1>1, <1>3, <2>2, <2>3
<1> QED
  BY <1>2, <1>3, <1>4

LEMMA PositionBounds ==
  ASSUME NEW p \in Places
  PROVE  Position(p) \in 0 .. FrameDots - 1
<1>1. p.ly \in 0 .. TotalLines - 1 /\ p.dots \in 0 .. LineDots - 1 /\ LineDots \in Nat
  BY Sizes DEF Places, Displays
<1>2. PICK x \in Nat : x = p.ly * LineDots /\ x + LineDots =< FrameDots
  BY <1>1, FrameSize
<1> QED
  BY <1>1, <1>2, FrameSize DEF Position

(* The display goes on by the dots it is given, and over the end of the frame. *)
LEMMA PositionMoves ==
  ASSUME NEW p \in Places, OamContents # {}, p.on, NEW c \in Nat \ {0}, c =< Boundary(p)
  PROVE  LET y == Position(Pass(p, c).ppu)
         IN Position(p) + c = y \/ (Position(p) + c = FrameDots /\ y = 0)
<1> DEFINE q == Pass(p, c).ppu
<1>1. \/ p.dots + c < LineDots /\ q.dots = p.dots + c /\ q.ly = p.ly
      \/ /\ p.dots + c = LineDots /\ q.dots = 0
         /\ \/ p.ly + 1 < TotalLines /\ q.ly = p.ly + 1
            \/ p.ly + 1 = TotalLines /\ q.ly = 0
  BY PassMoves
<1> HIDE DEF q
<1>2. p.ly \in Nat /\ p.dots \in Nat /\ LineDots \in Nat /\ p.ly \in 0 .. TotalLines - 1
  BY Sizes DEF Places, Displays
<1>3. PICK x \in Nat, z \in Nat : x = p.ly * LineDots /\ z = (p.ly + 1) * LineDots /\ z = x + LineDots
  BY <1>2, FrameSize
<1>4. Position(p) = x + p.dots
  BY <1>3 DEF Position
<1>5. CASE q.dots = p.dots + c /\ q.ly = p.ly
  <2>1. Position(q) = x + (p.dots + c)
    BY <1>3, <1>5 DEF Position
  <2> QED
    BY <1>2, <1>4, <2>1 DEF q
<1>6. CASE p.dots + c = LineDots /\ q.dots = 0 /\ q.ly = p.ly + 1
  <2>1. Position(q) = z + 0
    BY <1>3, <1>6 DEF Position
  <2> QED
    BY <1>2, <1>3, <1>4, <1>6, <2>1 DEF q
<1>7. CASE p.dots + c = LineDots /\ q.dots = 0 /\ p.ly + 1 = TotalLines /\ q.ly = 0
  <2>1. Position(q) = 0 /\ z = FrameDots
    BY <1>2, <1>3, <1>7, FrameSize DEF Position
  <2> QED
    BY <1>2, <1>3, <1>4, <1>7, <2>1 DEF q
<1> QED
  BY <1>1, <1>5, <1>6, <1>7

(* A counter of a frame that started at x has come to y, n on. *)
Wrapped(x, n, y) == x + n = y \/ x + n = FrameDots + y

LEMMA PhaseMoves ==
  ASSUME NEW x \in 0 .. FrameDots - 1, NEW n \in Nat, NEW c \in Nat, n + c < FrameDots,
         NEW y \in 0 .. FrameDots - 1, Wrapped(x, n, y)
  PROVE  /\ (y + c) % FrameDots \in 0 .. FrameDots - 1
         /\ Wrapped(x, n + c, (y + c) % FrameDots)
         /\ x + (n + c) >= FrameDots <=> x + n >= FrameDots \/ y + c >= FrameDots
<1>1. FrameDots \in Nat \ {0}
  <2>1. FrameDots \in Nat
    BY FrameSize
  <2> QED
    BY <2>1
<1>2. PICK z \in 0 .. FrameDots - 1 :
        z = (y + c) % FrameDots /\ (y + c = z \/ y + c = FrameDots + z)
  <2>1. y + c \in Nat /\ y + c < FrameDots + FrameDots
    BY <1>1
  <2>2. PICK q \in Nat, z \in 0 .. FrameDots - 1 : z = (y + c) % FrameDots /\ y + c = FrameDots * q + z
    BY <1>1, <2>1, Divided, ZenonT(120), ZenonT(120)
  <2>3. q = 0 \/ q = 1 \/ q >= 2
    OBVIOUS
  <2>4. ASSUME q >= 2 PROVE FALSE
    <3>1. PICK k \in Nat : q = k + 2
      <4>1. q - 2 \in Nat /\ q = (q - 2) + 2
        BY <2>4
      <4> QED
        BY <4>1
    <3>2. PICK w \in Nat : w = FrameDots * k /\ FrameDots * q = w + FrameDots + FrameDots
      BY <1>1, <3>1
    <3> QED
      BY <1>1, <2>1, <2>2, <3>2
  <2> QED
    BY <1>1, <2>2, <2>3, <2>4
<1> QED
  BY <1>1, <1>2 DEF Wrapped

-----------------------------------------------------------------------------
(* What is left of a step does not reach another HBlank. *)
Room(p, d) == p.dots + d < (IF Early(p) THEN 0 ELSE LineDots) + TransferEnd

(* The dots of a step leave room behind an entry into HBlank. *)
Fitting(w) ==
  \A p \in Places, l \in Nat : w + BlockStall + Mode3End(p, l) =< LineDots + TransferEnd

(* Where room is, no HBlank is entered and there is room after. *)
LEMMA RoomLasts ==
  ASSUME NEW p \in Places, OamContents # {}, p.on, NEW d \in Nat, NEW c \in Nat \ {0},
         c =< Boundary(p), c =< d, Room(p, d)
  PROVE  ~ Pass(p, c).hblank /\ Room(Pass(p, c).ppu, d - c)
<1> DEFINE s == Pass(p, c)
           q == s.ppu
<1>1. /\ s.hblank => Early(p) /\ q.dots = Mode3End(p, p.ly)
      /\ \/ /\ p.dots + c < LineDots /\ q.dots = p.dots + c /\ q.ly = p.ly
            /\ Early(q) <=> Early(p) /\ q.dots < Mode3End(p, p.ly)
         \/ /\ p.dots + c = LineDots /\ q.dots = 0 /\ ~ Early(p)
  BY PassMoves
<1> HIDE DEF q, s
<1>2. PICK m \in Nat : m = Mode3End(p, p.ly) /\ TransferEnd =< m
  <2>1. p.ly \in Nat
    BY Sizes DEF Places, Displays
  <2> QED
    BY <2>1, EndOfTransfer
<1>3. p.dots \in Nat
  BY Sizes DEF Places, Displays
<1>4. CASE Early(p)
  <2>1. p.dots + d < TransferEnd
    BY <1>3, <1>4, Sizes DEF Room
  <2>2. q.dots = p.dots + c /\ (Early(q) <=> q.dots < m)
    BY <1>1, <1>2, <1>4
  <2>3. q.dots < m /\ q.dots + (d - c) < TransferEnd
    BY <1>2, <1>3, <2>1, <2>2, Sizes
  <2> QED
    BY <1>1, <1>2, <1>3, <2>2, <2>3, Sizes DEF Room, q, s
<1>5. CASE ~ Early(p)
  <2>1. p.dots + d < LineDots + TransferEnd
    BY <1>3, <1>5, Sizes DEF Room
  <2>2. ~ s.hblank
    BY <1>1, <1>5
  <2>3. CASE q.dots = p.dots + c /\ ~ Early(q)
    BY <1>3, <2>1, <2>2, <2>3, Sizes DEF Room, q, s
  <2>4. CASE p.dots + c = LineDots /\ q.dots = 0
    <3>1. q.dots + (d - c) < TransferEnd
      BY <1>3, <2>1, <2>4, Sizes
    <3>2. Room(q, d - c)
      BY <3>1, <2>4, Sizes DEF Room
    <3> QED
      BY <2>2, <3>2 DEF q, s
  <2> QED
    BY <1>1, <1>5, <2>3, <2>4
<1> QED
  BY <1>4, <1>5

(* Behind an entry into HBlank there is room for a step and the block's stall. *)
LEMMA RoomBehind ==
  ASSUME NEW p \in Places, OamContents # {}, p.on, NEW w \in Nat, Fitting(w),
         NEW d \in Nat, d =< w, NEW c \in Nat \ {0}, c =< Boundary(p), c =< d, Pass(p, c).hblank
  PROVE  Room(Pass(p, c).ppu, d + BlockStall - c)
<1> DEFINE s == Pass(p, c)
           q == s.ppu
<1>1. /\ Early(p) /\ q.dots = Mode3End(p, p.ly) /\ q.ly = p.ly
      /\ Early(q) <=> Early(p) /\ q.dots < Mode3End(p, p.ly)
  BY PassMoves
<1> HIDE DEF q, s
<1>2. PICK m \in Nat : m = Mode3End(p, p.ly) /\ w + BlockStall + m =< LineDots + TransferEnd
  <2>1. p.ly \in Nat
    BY Sizes DEF Places, Displays
  <2> QED
    BY <2>1, EndOfTransfer DEF Fitting
<1>3. ~ Early(q) /\ q.dots = m
  BY <1>1, <1>2
<1>4. BlockStall \in Nat
  BY ClockAdvanceAssumption
<1>5. m + (d + BlockStall - c) < LineDots + TransferEnd
  BY <1>2, <1>4, Sizes
<1> QED
  BY <1>3, <1>5, Sizes DEF Room, q, s

(* A latch at the start of a line takes no room. *)
LEMMA RoomLatched ==
  ASSUME NEW p \in Places, NEW v, Latches(p, v), NEW d, Room(p, d)
  PROVE  Room(v, d)
  BY DEF Room, Latches

-----------------------------------------------------------------------------
(* A step about to pass, and the dots that are not frozen. *)
Starts(fast) ==
  {s \in Loops : /\ s.cpu = FC!ToCycles(s.dots, fast) /\ s.freeze =< s.cpu /\ s.freeze % 2 = 0
                 /\ s.phase < FrameDots /\ s.frame = FALSE
                 /\ s.timer = 0 /\ s.sound = 0 /\ s.stalled = 0
                 /\ ~ s.ppu.on => s.ppu.ly = 0 /\ s.ppu.dots = 0}

Whole(s, fast) == s.dots - FC!ToDots(s.freeze, fast)

(* Cycles are dots at the speed of the step; nothing passes while the freeze *)
(* lasts; and what the timer and the sound have got and what is left are the *)
(* step and the stalls of the blocks that were copied.                       *)
Accounted(r, s, fast) ==
  /\ r.cpu = FC!ToCycles(r.dots, fast) /\ r.timer = FC!ToCycles(r.sound, fast)
  /\ r.freeze = 0 \/ r = s
  /\ r.freeze = 0 => r.sound + r.dots = Whole(s, fast) + r.stalled
  /\ r.blocks =< s.blocks
  /\ r.stalled + BlockStall * r.blocks = BlockStall * s.blocks

(* The phase and the picture have moved by what the sound got. *)
Placed(r, s) ==
  /\ r.phase < FrameDots
  /\ r.ppu.on = s.ppu.on /\ (~ r.ppu.on => r.ppu.ly = 0 /\ r.ppu.dots = 0)
  /\ r.sound < FrameDots =>
       /\ Wrapped(s.phase, r.sound, r.phase)
       /\ r.frame <=> s.phase + r.sound >= FrameDots
       /\ r.ppu.on => Wrapped(Position(s.ppu), r.sound, Position(r.ppu))

(* A step that fits has copied no block, or there is no room for another. *)
Stalled(r, s, fast) ==
  Fitting(Whole(s, fast)) =>
    \/ r.stalled = 0
    \/ r.stalled = BlockStall /\ r.ppu.on /\ r.freeze = 0 /\ Room(r.ppu, r.dots)

Reached(s, fast) ==
  {r \in Loops : Accounted(r, s, fast) /\ Placed(r, s) /\ Stalled(r, s, fast)}

(* What each turn uses up. *)
Left(r) == r.cpu + 2 * (BlockStall * r.blocks)

(* A cut of time, and whether a block is copied behind it, as a loop makes it. *)
Cut(r, p, c, block) ==
  /\ Latches(r.ppu, p) /\ c \in 1 .. r.dots /\ block \in BOOLEAN
  /\ p.on => c =< Boundary(p)
  /\ block => p.on /\ Pass(p, c).hblank /\ r.blocks > 0

LEMMA BlockCounts ==
  /\ BlockStall \in Nat
  /\ \A n \in Nat : BlockStall * n \in Nat
  /\ \A n \in Nat \ {0} : BlockStall * n = BlockStall * (n - 1) + BlockStall
<1>1. BlockStall \in Nat
  BY ClockAdvanceAssumption
<1> QED
  BY <1>1

LEMMA ChunkAccounted ==
  ASSUME NEW fast \in BOOLEAN, NEW s \in Starts(fast), NEW r \in Reached(s, fast),
         r.freeze = 0, r.dots # 0, NEW p, NEW c, NEW block, Cut(r, p, c, block),
         Pass(p, c).ppu \in Places, Pass(p, c).drawn \subseteq DrawnLines
  PROVE  LET q == After(r, p, c, block, fast)
         IN q \in Loops /\ Accounted(q, s, fast) /\ Left(q) < Left(r)
<1> DEFINE stall == IF block THEN BlockStall ELSE 0
           left == r.dots + stall - c
           bl == IF block THEN r.blocks - 1 ELSE r.blocks
           q == After(r, p, c, block, fast)
<1>1. /\ r \in Loops /\ r.dots \in Nat /\ r.cpu \in Nat /\ r.blocks \in Nat /\ r.timer \in Nat
      /\ r.sound \in Nat /\ r.stalled \in Nat /\ r.phase \in Nat /\ r.frame \in BOOLEAN
      /\ r.dma \in Transfers /\ r.lines \in SUBSET DrawnLines /\ r.freeze \in Nat
  BY DEF Reached, Loops
<1>2. /\ c \in Nat \ {0} /\ c =< r.dots /\ block \in BOOLEAN /\ (block => r.blocks # 0)
  BY <1>1 DEF Cut
<1>3. stall \in Nat /\ bl \in Nat /\ left \in Nat /\ stall + BlockStall * bl = BlockStall * r.blocks
      /\ bl =< r.blocks /\ left + c = r.dots + stall
  <2>1. CASE block
    <3>1. r.blocks \in Nat \ {0} /\ stall = BlockStall /\ bl = r.blocks - 1
      BY <1>1, <1>2, <2>1
    <3>2. BlockStall * r.blocks = BlockStall * (r.blocks - 1) + BlockStall
      BY <3>1, BlockCounts
    <3>3. PICK x \in Nat, y \in Nat : x = BlockStall * r.blocks /\ y = BlockStall * bl /\ x = y + BlockStall
      BY <3>1, <3>2, BlockCounts
    <3>4. left = r.dots + BlockStall - c
      BY <3>1
    <3> HIDE DEF left, stall, bl
    <3>5. BlockStall \in Nat
      BY BlockCounts
    <3>6. stall \in Nat /\ bl \in Nat /\ left \in Nat /\ bl =< r.blocks /\ left + c = r.dots + stall
      BY <1>1, <1>2, <3>1, <3>4, <3>5
    <3>7. stall + BlockStall * bl = BlockStall * r.blocks
      BY <3>1, <3>3, <3>5
    <3> QED
      BY <3>6, <3>7
  <2>2. CASE ~ block
    <3>1. stall = 0 /\ bl = r.blocks /\ BlockStall * r.blocks \in Nat
      BY <1>1, <2>2, BlockCounts
    <3> QED
      BY <1>1, <1>2, <3>1
  <2> QED
    BY <2>1, <2>2
<1>4. /\ q.cpu = FC!ToCycles(left, fast) /\ q.dots = left /\ q.freeze = r.freeze
      /\ q.blocks = bl /\ q.timer = r.timer + FC!ToCycles(c, fast) /\ q.sound = r.sound + c
      /\ q.stalled = r.stalled + stall
  BY DEF After
<1>5. q \in Loops
  <2>1. FC!ToCycles(left, fast) \in Nat /\ FC!ToCycles(c, fast) \in Nat
    BY <1>2, <1>3, Rates
  <2>2. PICK d \in Transfers : d = DmaTicked(r.dma, FC!ToCycles(c, fast))
    BY <1>1, <2>1, DmaShape
  <2>3. PICK ph \in Nat : ph = (r.phase + c) % FrameDots
    <3>1. FrameDots \in Nat \ {0}
      <4>1. r.phase < FrameDots /\ FrameDots \in Nat
        BY FrameSize DEF Reached, Placed
      <4> QED
        BY <1>1, <4>1
    <3> QED
      BY <1>1, <1>2, <3>1, Divided
  <2>4. PICK fr \in BOOLEAN : fr = (r.frame \/ r.phase + c >= FrameDots)
    BY <1>1, Zenon
  <2>5. PICK ln \in SUBSET DrawnLines : ln = r.lines \cup Pass(p, c).drawn
    BY <1>1
  <2> HIDE DEF left, bl, stall
  <2>6. q = [cpu |-> FC!ToCycles(left, fast), dots |-> left, freeze |-> r.freeze, ppu |-> Pass(p, c).ppu,
             dma |-> d, blocks |-> bl, phase |-> ph, frame |-> fr,
             timer |-> r.timer + FC!ToCycles(c, fast), sound |-> r.sound + c,
             stalled |-> r.stalled + stall, lines |-> ln]
    BY <2>2, <2>3, <2>4, <2>5, Zenon DEF After, left, bl, stall
  <2>7. r.timer + FC!ToCycles(c, fast) \in Nat /\ r.sound + c \in Nat /\ r.stalled + stall \in Nat
    BY <1>1, <1>2, <1>3, <2>1
  <2> HIDE DEF q
  <2> QED
    BY <1>1, <1>3, <2>1, <2>6, <2>7 DEF Loops
<1> HIDE DEF left, bl, stall, q
<1>6. Accounted(q, s, fast)
  <2>1. /\ r.cpu = FC!ToCycles(r.dots, fast) /\ r.timer = FC!ToCycles(r.sound, fast)
        /\ r.sound + r.dots = Whole(s, fast) + r.stalled
        /\ r.blocks =< s.blocks
        /\ r.stalled + BlockStall * r.blocks = BlockStall * s.blocks
    BY DEF Reached, Accounted
  <2>2. q.timer = FC!ToCycles(q.sound, fast)
    BY <1>1, <1>2, <1>4, <2>1, Rates, SMTT(90)
  <2>3. s.blocks \in Nat /\ Whole(s, fast) \in Int
    <3>1. s \in Loops /\ s.freeze \in Nat /\ s.dots \in Nat /\ s.freeze % 2 = 0 /\ s.blocks \in Nat
      BY DEF Starts, Loops
    <3>2. FC!ToDots(s.freeze, fast) \in Nat
      BY <3>1, Rates
    <3> QED
      BY <3>1, <3>2 DEF Whole
  <2>4. q.sound + q.dots = Whole(s, fast) + q.stalled
    BY <1>1, <1>2, <1>3, <1>4, <2>1, <2>3
  <2>5. q.blocks =< s.blocks /\ q.stalled + BlockStall * q.blocks = BlockStall * s.blocks
    <3>1. PICK x \in Nat, y \in Nat, z \in Nat :
            x = BlockStall * r.blocks /\ y = BlockStall * bl /\ z = BlockStall * s.blocks
      BY <1>1, <1>3, <2>3, BlockCounts
    <3> QED
      BY <1>1, <1>3, <1>4, <2>1, <2>3, <3>1
  <2> QED
    BY <1>4, <2>2, <2>4, <2>5 DEF Accounted
<1>7. Left(q) < Left(r)
  <2>1. PICK x \in Nat, y \in Nat : x = BlockStall * r.blocks /\ y = BlockStall * bl /\ stall + y = x
    BY <1>1, <1>3, BlockCounts
  <2>2. r.cpu = FC!ToCycles(r.dots, fast)
    BY DEF Reached, Accounted
  <2>3. Left(r) = r.cpu + 2 * x /\ Left(q) = FC!ToCycles(left, fast) + 2 * y
    BY <1>4, <2>1 DEF Left
  <2>4. /\ r.cpu = (IF fast THEN 2 * r.dots ELSE r.dots)
        /\ FC!ToCycles(left, fast) = IF fast THEN 2 * left ELSE left
    BY <1>1, <1>3, <2>2, Rates
  <2>5. left \in Nat /\ stall \in Nat /\ left + c = r.dots + stall
    BY <1>3
  <2>6. CASE fast
    <3>1. Left(r) = 2 * r.dots + 2 * x /\ Left(q) = 2 * left + 2 * y
      BY <2>3, <2>4, <2>6
    <3> QED
      BY <1>1, <1>2, <2>1, <2>5, <3>1
  <2>7. CASE ~ fast
    <3>1. Left(r) = r.dots + 2 * x /\ Left(q) = left + 2 * y
      BY <2>3, <2>4, <2>7
    <3> QED
      BY <1>1, <1>2, <2>1, <2>5, <3>1
  <2> QED
    BY <2>6, <2>7
<1> QED
  BY <1>5, <1>6, <1>7 DEF q

LEMMA ChunkPlaced ==
  ASSUME NEW fast \in BOOLEAN, NEW s \in Starts(fast), NEW r \in Reached(s, fast), OamContents # {},
         r.freeze = 0, r.dots # 0, NEW p, NEW c, NEW block, Cut(r, p, c, block)
  PROVE  LET q == After(r, p, c, block, fast)
         IN /\ Placed(q, s) /\ Stalled(q, s, fast)
            /\ Pass(p, c).ppu \in Places /\ Pass(p, c).drawn \subseteq DrawnLines
<1> DEFINE q == After(r, p, c, block, fast)
<1>1. /\ r \in Loops /\ r.dots \in Nat /\ r.sound \in Nat /\ r.stalled \in Nat /\ r.phase \in Nat
      /\ r.frame \in BOOLEAN /\ r.ppu \in Places
  BY DEF Reached, Loops
<1>2. /\ c \in Nat \ {0} /\ c =< r.dots /\ block \in BOOLEAN /\ p \in Places
      /\ p.on = r.ppu.on /\ p.ly = r.ppu.ly /\ p.dots = r.ppu.dots
      /\ (p.on => c =< Boundary(p)) /\ (block => p.on /\ Pass(p, c).hblank)
  BY <1>1 DEF Cut, Latches
<1>3. /\ q.ppu = Pass(p, c).ppu /\ q.sound = r.sound + c /\ q.phase = (r.phase + c) % FrameDots
      /\ q.frame = (r.frame \/ r.phase + c >= FrameDots) /\ q.freeze = r.freeze
      /\ q.dots = r.dots + (IF block THEN BlockStall ELSE 0) - c
      /\ q.stalled = r.stalled + (IF block THEN BlockStall ELSE 0)
  BY DEF After
<1> HIDE DEF q
<1>4. /\ r.phase < FrameDots
      /\ r.ppu.on = s.ppu.on /\ (~ r.ppu.on => r.ppu.ly = 0 /\ r.ppu.dots = 0)
      /\ r.sound < FrameDots =>
           /\ Wrapped(s.phase, r.sound, r.phase)
           /\ r.frame <=> s.phase + r.sound >= FrameDots
           /\ r.ppu.on => Wrapped(Position(s.ppu), r.sound, Position(r.ppu))
  BY DEF Reached, Placed
<1>5. FrameDots \in Nat \ {0} /\ r.phase \in 0 .. FrameDots - 1 /\ s.phase \in 0 .. FrameDots - 1
      /\ s.ppu \in Places
  <2>1. FrameDots \in Nat
    BY FrameSize
  <2>2. s.phase \in Nat /\ s.phase < FrameDots /\ s.ppu \in Places
    BY DEF Starts, Loops
  <2> QED
    BY <1>1, <1>4, <2>1, <2>2
<1>6. /\ Pass(p, c).ppu \in Places /\ Pass(p, c).drawn \subseteq DrawnLines
      /\ q.ppu.on = p.on /\ (~ q.ppu.on => q.ppu.ly = 0 /\ q.ppu.dots = 0)
  <2>1. CASE p.on
    <3>1. /\ Pass(p, c).ppu \in Places /\ Pass(p, c).drawn \subseteq DrawnLines /\ Pass(p, c).ppu.on
      BY <1>2, <2>1, PassMoves
    <3>2. p.on = TRUE /\ Pass(p, c).ppu.on = TRUE
      BY <1>2, <2>1, <3>1 DEF Places, Displays
    <3> QED
      BY <1>3, <3>1, <3>2
  <2>2. CASE ~ p.on
    <3>1. p.ly = 0 /\ p.dots = 0
      BY <1>2, <1>4, <2>2
    <3>2. /\ Pass(p, c).ppu \in Places /\ Pass(p, c).drawn = {} /\ ~ Pass(p, c).ppu.on
          /\ Pass(p, c).ppu.ly = 0 /\ Pass(p, c).ppu.dots = 0
      BY <1>2, <2>2, <3>1, PassOff
    <3>3. p.on = FALSE /\ Pass(p, c).ppu.on = FALSE
      BY <1>2, <2>2, <3>2 DEF Places, Displays
    <3> QED
      BY <1>3, <3>2, <3>3
  <2> QED
    BY <2>1, <2>2
<1>7. Placed(q, s)
  <2>1. q.phase \in 0 .. FrameDots - 1
    <3>1. r.phase + c \in Int
      BY <1>1, <1>2
    <3>2. (r.phase + c) % FrameDots \in 0 .. FrameDots - 1
      BY <1>5, <3>1, Division
    <3> QED
      BY <1>3, <3>2
  <2>2. ASSUME q.sound < FrameDots
        PROVE  /\ Wrapped(s.phase, q.sound, q.phase)
               /\ q.frame <=> s.phase + q.sound >= FrameDots
    <3>1. r.sound < FrameDots /\ r.sound + c < FrameDots
      BY <1>1, <1>2, <1>3, <1>5, <2>2
    <3>2. /\ Wrapped(s.phase, r.sound + c, (r.phase + c) % FrameDots)
          /\ s.phase + (r.sound + c) >= FrameDots <=> s.phase + r.sound >= FrameDots \/ r.phase + c >= FrameDots
      BY <1>1, <1>2, <1>4, <1>5, <3>1, PhaseMoves
    <3>3. q.frame <=> r.frame \/ r.phase + c >= FrameDots
      BY <1>1, <1>3, Zenon
    <3> QED
      BY <1>3, <1>4, <3>1, <3>2, <3>3
  <2>3. ASSUME q.sound < FrameDots, q.ppu.on
        PROVE  Wrapped(Position(s.ppu), q.sound, Position(q.ppu))
    <3>1. r.sound + c < FrameDots /\ p.on /\ Position(p) = Position(r.ppu)
      BY <1>1, <1>2, <1>3, <1>5, <1>6, <2>3 DEF Position
    <3>2. Wrapped(Position(s.ppu), r.sound, Position(p))
      BY <1>1, <1>2, <1>4, <1>5, <3>1
    <3>3. Position(p) + c = Position(q.ppu) \/ (Position(p) + c = FrameDots /\ Position(q.ppu) = 0)
      BY <1>2, <1>3, <3>1, PositionMoves
    <3>4. Position(s.ppu) \in 0 .. FrameDots - 1 /\ Position(p) \in 0 .. FrameDots - 1
          /\ Position(q.ppu) \in 0 .. FrameDots - 1
      BY <1>2, <1>3, <1>5, <1>6, PositionBounds
    <3> QED
      BY <1>1, <1>2, <1>3, <1>5, <3>1, <3>2, <3>3, <3>4 DEF Wrapped
  <2> QED
    BY <1>2, <1>4, <1>5, <1>6, <2>1, <2>2, <2>3 DEF Placed
<1>8. Stalled(q, s, fast)
  <2> SUFFICES ASSUME Fitting(Whole(s, fast))
               PROVE  \/ q.stalled = 0
                      \/ q.stalled = BlockStall /\ q.ppu.on /\ q.freeze = 0 /\ Room(q.ppu, q.dots)
    BY DEF Stalled
  <2>1. r.stalled = 0 \/ (r.stalled = BlockStall /\ r.ppu.on /\ Room(r.ppu, r.dots))
    BY DEF Reached, Stalled
  <2>2. /\ r.sound + r.dots = Whole(s, fast) + r.stalled /\ BlockStall \in Nat
    BY BlockCounts DEF Reached, Accounted
  <2>3. CASE block /\ r.stalled = 0
    <3>1. Whole(s, fast) \in Nat /\ r.dots =< Whole(s, fast)
      <4>1. Whole(s, fast) \in Int
        <5>1. s.freeze \in Nat /\ s.dots \in Nat /\ s.freeze % 2 = 0
          BY DEF Starts, Loops
        <5>2. FC!ToDots(s.freeze, fast) \in Nat
          BY <5>1, Rates
        <5> QED
          BY <5>1, <5>2 DEF Whole
      <4> QED
        BY <1>1, <2>2, <2>3, <4>1
    <3>2. Room(Pass(p, c).ppu, r.dots + BlockStall - c)
      BY <1>1, <1>2, <2>3, <3>1, RoomBehind
    <3>3. q.dots = r.dots + BlockStall - c /\ q.stalled = BlockStall
      BY <1>3, <2>2, <2>3
    <3> QED
      BY <1>2, <1>3, <1>6, <2>3, <3>2, <3>3
  <2>4. CASE ~ block /\ r.stalled = 0
    BY <1>3, <2>4
  <2>5. CASE r.stalled = BlockStall /\ r.ppu.on /\ Room(r.ppu, r.dots)
    <3>1. Room(p, r.dots) /\ p.on
      BY <1>1, <1>2, <2>5, RoomLatched DEF Cut
    <3>2. ~ Pass(p, c).hblank /\ Room(Pass(p, c).ppu, r.dots - c)
      BY <1>1, <1>2, <3>1, RoomLasts
    <3>3. q.dots = r.dots - c /\ q.stalled = BlockStall
      BY <1>1, <1>2, <1>3, <2>2, <2>5, <3>2
    <3> QED
      BY <1>2, <1>3, <1>6, <3>1, <3>2, <3>3
  <2> QED
    BY <2>1, <1>2, <2>3, <2>4, <2>5
<1> QED
  BY <1>6, <1>7, <1>8 DEF q

LEMMA StartReached ==
  ASSUME NEW fast \in BOOLEAN, NEW s \in Starts(fast)
  PROVE  s \in Reached(s, fast) /\ Whole(s, fast) \in Nat /\ FC!ToDots(s.freeze, fast) \in Nat
<1>1. /\ s \in Loops /\ s.freeze \in Nat /\ s.dots \in Nat /\ s.cpu \in Nat /\ s.blocks \in Nat
      /\ s.phase \in Nat /\ s.ppu \in Places
      /\ s.cpu = FC!ToCycles(s.dots, fast) /\ s.freeze =< s.cpu /\ s.freeze % 2 = 0
      /\ s.phase < FrameDots /\ s.frame = FALSE
      /\ s.timer = 0 /\ s.sound = 0 /\ s.stalled = 0
      /\ ~ s.ppu.on => s.ppu.ly = 0 /\ s.ppu.dots = 0
  BY DEF Starts, Loops
<1>2. PICK f \in Nat : f = FC!ToDots(s.freeze, fast) /\ FC!ToCycles(f, fast) = s.freeze
  BY <1>1, Rates
<1>3. f =< s.dots /\ (s.freeze = 0 => f = 0)
  BY <1>1, <1>2, Rates
<1>4. Whole(s, fast) \in Nat /\ (s.freeze = 0 => Whole(s, fast) = s.dots)
  BY <1>1, <1>2, <1>3 DEF Whole
<1>5. Accounted(s, s, fast)
  <2>1. FC!ToCycles(0, fast) = 0
    BY Rates
  <2>2. 0 + BlockStall * s.blocks = BlockStall * s.blocks
    BY <1>1, BlockCounts
  <2> QED
    BY <1>1, <1>4, <2>1, <2>2 DEF Accounted
<1>6. Placed(s, s)
  <2>1. Position(s.ppu) \in 0 .. FrameDots - 1 /\ FrameDots \in Nat
    BY <1>1, PositionBounds, FrameSize
  <2>2. Wrapped(s.phase, 0, s.phase) /\ Wrapped(Position(s.ppu), 0, Position(s.ppu))
        /\ (s.frame <=> s.phase + 0 >= FrameDots)
    BY <1>1, <2>1 DEF Wrapped
  <2> QED
    BY <1>1, <2>2 DEF Placed
<1> QED
  BY <1>1, <1>2, <1>4, <1>5, <1>6 DEF Reached, Stalled

LEMMA FrozenReached ==
  ASSUME NEW fast \in BOOLEAN, NEW s \in Starts(fast), s.freeze # 0
  PROVE  Frozen(s, fast) \in Reached(s, fast) /\ Left(Frozen(s, fast)) < Left(s)
<1>1. /\ s \in Loops /\ s.freeze \in Nat \ {0} /\ s.dots \in Nat /\ s.cpu \in Nat /\ s.blocks \in Nat
      /\ s.cpu = FC!ToCycles(s.dots, fast) /\ s.freeze =< s.cpu /\ s.freeze % 2 = 0
  BY DEF Starts, Loops
<1>2. s \in Reached(s, fast) /\ Whole(s, fast) \in Nat
  BY StartReached
<1>3. PICK f \in Nat : f = FC!ToDots(s.freeze, fast) /\ FC!ToCycles(f, fast) = s.freeze
  BY <1>1, Rates
<1>4. Whole(s, fast) = s.dots - f
  BY <1>3 DEF Whole
<1>5. PICK w \in Nat : w = Whole(s, fast) /\ w = s.dots - f
  BY <1>2, <1>4
<1>6. s.cpu - s.freeze = FC!ToCycles(w, fast) /\ FC!ToCycles(w, fast) \in Nat
      /\ FC!ToCycles(w, fast) < s.cpu
  <2>1. /\ s.cpu = (IF fast THEN 2 * s.dots ELSE s.dots) /\ s.freeze = (IF fast THEN 2 * f ELSE f)
        /\ FC!ToCycles(w, fast) = (IF fast THEN 2 * w ELSE w)
    BY <1>1, <1>3, <1>5, Rates
  <2>2. FC!ToCycles(w, fast) \in Nat
    BY <1>5, Rates
  <2> QED
    BY <1>1, <1>5, <2>1, <2>2
<1>7. PICK q : q = [s EXCEPT !.freeze = 0, !.cpu = FC!ToCycles(w, fast), !.dots = w]
  OBVIOUS
<1>8. Frozen(s, fast) = q
  <2>1. AtMost(s.cpu, s.freeze) = s.freeze
    BY <1>1 DEF AtMost
  <2>2. s.freeze - s.freeze = 0 /\ AtLeast(0, s.dots - FC!ToDots(s.freeze, fast)) = w
    BY <1>1, <1>3, <1>5 DEF AtLeast
  <2>3. Frozen(s, fast) = [s EXCEPT !.freeze = s.freeze - s.freeze, !.cpu = s.cpu - s.freeze,
                                    !.dots = AtLeast(0, s.dots - FC!ToDots(s.freeze, fast))]
    BY <2>1 DEF Frozen, Loops
  <2> QED
    BY <1>6, <1>7, <2>2, <2>3
<1>9. /\ q \in Loops /\ q.cpu = FC!ToCycles(w, fast) /\ q.dots = w /\ q.freeze = 0
      /\ q.ppu = s.ppu /\ q.blocks = s.blocks /\ q.phase = s.phase /\ q.frame = s.frame
      /\ q.timer = s.timer /\ q.sound = s.sound /\ q.stalled = s.stalled
  BY <1>1, <1>5, <1>6, <1>7 DEF Loops
<1>10. Accounted(q, s, fast)
  <2>1. Accounted(s, s, fast) /\ s.sound = 0 /\ s.stalled = 0
    BY <1>2 DEF Reached, Starts
  <2>2. s.timer = FC!ToCycles(s.sound, fast) /\ s.blocks =< s.blocks
        /\ s.stalled + BlockStall * s.blocks = BlockStall * s.blocks
    BY <2>1 DEF Accounted
  <2>3. 0 + w = Whole(s, fast) + 0
    BY <1>5
  <2> QED
    BY <1>9, <2>1, <2>2, <2>3 DEF Accounted
<1>11. Placed(q, s)
  BY <1>2, <1>9 DEF Reached, Placed
<1>12. Stalled(q, s, fast)
  BY <1>9 DEF Starts, Stalled
<1>13. Left(q) < Left(s)
  <2>1. PICK x \in Nat : x = BlockStall * s.blocks
    BY <1>1, BlockCounts
  <2> QED
    BY <1>1, <1>6, <1>9, <2>1 DEF Left
<1> QED
  BY <1>8, <1>9, <1>10, <1>11, <1>12, <1>13 DEF Reached

(* A turn of a loop keeps what it has reached and uses something up, and the *)
(* loops' turns are the same.                                                *)
LEMMA TurnReached ==
  ASSUME NEW fast \in BOOLEAN, NEW s \in Starts(fast), oam \in OamContents,
         NEW r \in Reached(s, fast)
  PROVE  /\ Turn(r, fast, TRUE) \in Reached(s, fast)
         /\ Turn(r, fast, FALSE) = Turn(r, fast, TRUE)
         /\ IF r.cpu = 0 THEN Turn(r, fast, TRUE) = r ELSE Left(Turn(r, fast, TRUE)) < Left(r)
<1>1. CASE r.cpu = 0
  BY <1>1 DEF Turn
<1>2. CASE r.cpu # 0 /\ r.freeze # 0
  <2>1. r = s /\ r.freeze \in Nat
    BY <1>2 DEF Reached, Accounted, Loops
  <2>2. r.freeze > 0
    BY <1>2, <2>1
  <2>3. \A observed \in BOOLEAN : Turn(r, fast, observed) = Frozen(r, fast)
    BY <1>2, <2>2 DEF Turn
  <2> QED
    BY <1>2, <2>1, <2>3, FrozenReached
<1>3. CASE r.cpu # 0 /\ r.freeze = 0
  <2>1. /\ r \in Loops /\ r.cpu = FC!ToCycles(r.dots, fast) /\ r.dots \in Nat
        /\ ~ r.ppu.on => r.ppu.ly = 0 /\ r.ppu.dots = 0
    BY DEF Reached, Accounted, Placed, Loops
  <2>2. r.dots # 0
    BY <1>3, <2>1, Rates
  <2>3. \A observed \in BOOLEAN : Turn(r, fast, observed) = Chunked(r, fast, observed)
    BY <1>3, <2>2 DEF Turn
  <2>4. PICK p \in Places, c \in 1 .. r.dots, block \in BOOLEAN :
           /\ Latches(r.ppu, p)
           /\ p.on => c =< Boundary(p)
           /\ block => p.on /\ Pass(p, c).hblank /\ r.blocks > 0
           /\ \A observed \in BOOLEAN : Chunked(r, fast, observed) = After(r, p, c, block, fast)
    BY <2>1, <2>2, ChunkedShape
  <2>5. Cut(r, p, c, block)
    BY <2>4 DEF Cut
  <2>6. PICK q : q = After(r, p, c, block, fast)
    OBVIOUS
  <2>7. /\ Placed(q, s) /\ Stalled(q, s, fast)
        /\ Pass(p, c).ppu \in Places /\ Pass(p, c).drawn \subseteq DrawnLines
    BY <1>3, <2>2, <2>5, <2>6, ChunkPlaced
  <2>8. q \in Loops /\ Accounted(q, s, fast) /\ Left(q) < Left(r)
    BY <1>3, <2>2, <2>5, <2>6, <2>7, ChunkAccounted
  <2> QED
    BY <1>3, <2>3, <2>4, <2>6, <2>7, <2>8 DEF Reached
<1> QED
  BY <1>1, <1>2, <1>3

(* The states of both loops. *)
RunOf(t, s, n, fast) ==
  /\ t \in [Nat -> Reached(s, fast)] /\ t[0] = s
  /\ \A i \in Nat : t[i + 1] = Turn(t[i], fast, TRUE)
  /\ Advanced(s, n, fast) = t[Turns(n)] /\ AdvancedFast(s, n, fast) = t[Turns(n)]

LEMMA LoopRuns ==
  ASSUME NEW fast \in BOOLEAN, NEW s \in Starts(fast), oam \in OamContents, NEW n, Turns(n) \in Nat
  PROVE  \E t : RunOf(t, s, n, fast)
<1> DEFINE S == Reached(s, fast)
           step == [r \in S |-> Turn(r, fast, TRUE)]
<1>1. step \in [S -> S] /\ s \in S
  BY TurnReached, StartReached
<1>2. \A r \in S : step[r] = Turn(r, fast, TRUE) /\ step[r] = Turn(r, fast, FALSE)
  BY TurnReached
<1> HIDE DEF step, S
<1>3. PICK t \in [Nat -> S] : t[0] = s /\ \A i \in Nat : t[i + 1] = step[t[i]]
  <2>1. StatesOf(S)
    BY LoopStates
  <2> QED
    BY <1>1, <2>1, Zenon DEF StatesOf
<1>4. \A i \in Nat : t[i + 1] = Turn(t[i], fast, TRUE) /\ t[i + 1] = Turn(t[i], fast, FALSE)
  BY <1>2, <1>3
<1>5. \A i \in Nat \ {0} : t[i] = Turn(t[i - 1], fast, TRUE) /\ t[i] = Turn(t[i - 1], fast, FALSE)
  <2> TAKE i \in Nat \ {0}
  <2>1. PICK j \in Nat : j = i - 1 /\ j + 1 = i
    OBVIOUS
  <2> QED
    BY <1>4, <2>1
<1>6. /\ t = [k \in Nat |-> IF k = 0 THEN s ELSE Turn(t[k - 1], fast, TRUE)]
      /\ t = [k \in Nat |-> IF k = 0 THEN s ELSE Turn(t[k - 1], fast, FALSE)]
  BY <1>3, <1>5
<1> DEFINE a == CHOOSE a : a = [k \in Nat |-> IF k = 0 THEN s ELSE Turn(a[k - 1], fast, TRUE)]
           b == CHOOSE b : b = [k \in Nat |-> IF k = 0 THEN s ELSE Turn(b[k - 1], fast, FALSE)]
<1>7. a = [k \in Nat |-> IF k = 0 THEN s ELSE Turn(a[k - 1], fast, TRUE)]
  BY <1>6, Zenon
<1>8. b = [k \in Nat |-> IF k = 0 THEN s ELSE Turn(b[k - 1], fast, FALSE)]
  BY <1>6, Zenon
<1>9. Advanced(s, n, fast) = a[Turns(n)] /\ AdvancedFast(s, n, fast) = b[Turns(n)]
  BY DEF Advanced, AdvancedFast
<1> HIDE DEF a, b
<1>10. a[0] = s /\ b[0] = s
  BY <1>7, <1>8
<1>11. \A i \in Nat : a[i + 1] = Turn(a[i], fast, TRUE) /\ b[i + 1] = Turn(b[i], fast, FALSE)
  <2> TAKE i \in Nat
  <2>1. PICK j \in Nat : j = i + 1 /\ j # 0 /\ j - 1 = i
    OBVIOUS
  <2> QED
    BY <1>7, <1>8, <2>1, Zenon
<1> DEFINE A == {i \in Nat : a[i] = t[i] /\ b[i] = t[i]}
<1>12. 0 \in A
  BY <1>3, <1>10
<1>13. ASSUME NEW i \in Nat, i \in A PROVE i + 1 \in A
  <2>1. a[i] = t[i] /\ b[i] = t[i]
    BY <1>13
  <2>2. a[i + 1] = t[i + 1] /\ b[i + 1] = t[i + 1]
    BY <1>4, <1>11, <2>1, Zenon
  <2> QED
    BY <2>2
<1> HIDE DEF A
<1>14. Turns(n) \in A
  BY <1>12, <1>13, Induction
<1> QED
  BY <1>3, <1>4, <1>9, <1>14 DEF A, S, RunOf

(* As many turns as a step has cycles, the stalls of its blocks included, use *)
(* all of it up.                                                              *)
LEMMA TurnsEnd ==
  ASSUME NEW fast \in BOOLEAN, NEW s \in Starts(fast), oam \in OamContents,
         NEW t \in [Nat -> Reached(s, fast)], t[0] = s,
         \A i \in Nat : t[i + 1] = Turn(t[i], fast, TRUE),
         NEW n \in Nat, Left(s) =< n
  PROVE  t[n].cpu = 0
<1>1. \A i \in Nat : t[i].cpu \in Nat /\ Left(t[i]) \in Nat /\ t[i].cpu =< Left(t[i])
  <2> TAKE i \in Nat
  <2>1. t[i].cpu \in Nat /\ t[i].blocks \in Nat
    BY DEF Reached, Loops
  <2>2. PICK x \in Nat : x = BlockStall * t[i].blocks
    BY <2>1, BlockCounts
  <2> QED
    BY <2>1, <2>2 DEF Left
<1> DEFINE A == {i \in Nat : t[i].cpu = 0 \/ Left(t[i]) + i =< Left(s)}
<1>2. 0 \in A
  BY <1>1
<1>3. ASSUME NEW i \in Nat, i \in A PROVE i + 1 \in A
  <2>1. IF t[i].cpu = 0 THEN t[i + 1] = t[i] ELSE Left(t[i + 1]) < Left(t[i])
    BY TurnReached
  <2>2. Left(t[i]) \in Nat /\ Left(t[i + 1]) \in Nat /\ Left(s) \in Nat
    BY <1>1
  <2> QED
    BY <1>3, <2>1, <2>2
<1> HIDE DEF A
<1>4. n \in A
  BY <1>2, <1>3, Induction
<1>5. CASE Left(t[n]) + n =< Left(s)
  <2>1. Left(s) \in Nat
    BY <1>1
  <2> QED
    BY <1>1, <1>5, <2>1, SMTT(90)
<1> QED
  BY <1>4, <1>5 DEF A

(* What a step comes to. *)
LEMMA LoopEnds ==
  ASSUME NEW fast \in BOOLEAN, NEW s \in Starts(fast), oam \in OamContents,
         s.blocks =< MaxBlocks
  PROVE  LET r == Advanced(s, s.cpu, fast)
         IN /\ r = AdvancedFast(s, s.cpu, fast)
            /\ r \in Reached(s, fast) /\ r.cpu = 0 /\ r.freeze = 0 /\ r.dots = 0
            /\ r.sound = Whole(s, fast) + r.stalled
<1>1. s.cpu \in Nat /\ s.blocks \in Nat /\ MaxBlocks \in Nat /\ s.freeze \in Nat /\ s.freeze =< s.cpu
  BY ClockAdvanceAssumption DEF Starts, Loops
<1>2. PICK x \in Nat, y \in Nat : x = BlockStall * s.blocks /\ y = BlockStall * MaxBlocks /\ x =< y
  <2>1. PICK k \in Nat : MaxBlocks = s.blocks + k
    <3>1. MaxBlocks - s.blocks \in Nat /\ MaxBlocks = s.blocks + (MaxBlocks - s.blocks)
      BY <1>1
    <3> QED
      BY <3>1
  <2>2. PICK x \in Nat, z \in Nat : x = BlockStall * s.blocks /\ z = BlockStall * k
    BY <1>1, BlockCounts
  <2>3. BlockStall * MaxBlocks = x + z
    BY <1>1, <2>1, <2>2, BlockCounts
  <2> QED
    BY <2>2, <2>3
<1>3. Turns(s.cpu) = s.cpu + 2 * y
  <2>1. 2 * BlockStall * MaxBlocks = 2 * (BlockStall * MaxBlocks)
    BY <1>1, BlockCounts
  <2> QED
    BY <1>2, <2>1 DEF Turns
<1>4. Turns(s.cpu) \in Nat /\ Left(s) =< Turns(s.cpu)
  BY <1>1, <1>2, <1>3 DEF Left
<1>5. PICK t : RunOf(t, s, s.cpu, fast)
  BY <1>4, LoopRuns
<1>6. t[Turns(s.cpu)].cpu = 0
  BY <1>4, <1>5, TurnsEnd DEF RunOf
<1>7. PICK r \in Reached(s, fast) : r = t[Turns(s.cpu)] /\ r.cpu = 0
  BY <1>4, <1>5, <1>6 DEF RunOf
<1>8. /\ r.cpu = FC!ToCycles(r.dots, fast) /\ r.dots \in Nat /\ r.sound \in Nat
      /\ (r.freeze = 0 \/ r = s) /\ (r.freeze = 0 => r.sound + r.dots = Whole(s, fast) + r.stalled)
  BY <1>7 DEF Reached, Accounted, Loops
<1>9. r.freeze = 0 /\ r.dots = 0
  BY <1>1, <1>7, <1>8, Rates
<1> QED
  BY <1>5, <1>7, <1>8, <1>9 DEF RunOf

-----------------------------------------------------------------------------
LEMMA StartFits ==
  ASSUME NEW fast \in BOOLEAN, NEW cost \in Costs, NEW freeze \in {0, FreezeCycles},
         NEW p \in Places, ~ p.on => p.ly = 0 /\ p.dots = 0, NEW ph \in 0 .. FrameDots - 1,
         dma \in Transfers, blocks \in 0 .. MaxBlocks
  PROVE  LET s == Begun(cost + freeze, freeze, p, ph, fast)
         IN /\ s \in Starts(fast) /\ Whole(s, fast) = FC!ToDots(cost, fast)
            /\ FC!ToDots(cost, fast) = FC!ToDots(cost + freeze, fast) - FC!ToDots(freeze, fast)
            /\ FC!ToDots(cost, fast) \in Nat /\ FC!ToDots(cost, fast) =< cost
            /\ FC!ToCycles(FC!ToDots(cost, fast), fast) = cost
<1> DEFINE s == Begun(cost + freeze, freeze, p, ph, fast)
<1>1. /\ cost \in Nat \ {0} /\ cost % 2 = 0 /\ freeze \in Nat /\ freeze % 2 = 0 /\ blocks \in Nat
      /\ cost + freeze \in Nat
  BY ClockAdvanceAssumption
<1>2. PICK a \in Nat, b \in Nat : cost = 2 * a /\ freeze = 2 * b
  BY <1>1
<1>3. (cost + freeze) % 2 = 0
  BY <1>1
<1>4. PICK x \in Nat, y \in Nat, z \in Nat :
        /\ x = FC!ToDots(cost, fast) /\ y = FC!ToDots(freeze, fast) /\ z = FC!ToDots(cost + freeze, fast)
        /\ FC!ToCycles(x, fast) = cost /\ FC!ToCycles(y, fast) = freeze
        /\ FC!ToCycles(z, fast) = cost + freeze
  <2>1. FC!ToDots(cost, fast) \in Nat /\ FC!ToCycles(FC!ToDots(cost, fast), fast) = cost
    BY <1>1, Rates
  <2>2. FC!ToDots(freeze, fast) \in Nat /\ FC!ToCycles(FC!ToDots(freeze, fast), fast) = freeze
    BY <1>1, Rates
  <2>3. /\ FC!ToDots(cost + freeze, fast) \in Nat
        /\ FC!ToCycles(FC!ToDots(cost + freeze, fast), fast) = cost + freeze
    BY <1>1, <1>3, Rates
  <2> QED
    BY <2>1, <2>2, <2>3
<1>5. z = x + y /\ x =< cost
  BY <1>1, <1>4, Rates
<1>6. /\ s.cpu = cost + freeze /\ s.dots = z /\ s.freeze = freeze /\ s.phase = ph /\ s.frame = FALSE
      /\ s.timer = 0 /\ s.sound = 0 /\ s.stalled = 0 /\ s.ppu = p
  BY <1>4 DEF Begun
<1>7. s \in Loops
  <2>1. s = [cpu |-> cost + freeze, dots |-> z, freeze |-> freeze, ppu |-> p,
             dma |-> dma, blocks |-> blocks, phase |-> ph, frame |-> FALSE,
             timer |-> 0, sound |-> 0, stalled |-> 0, lines |-> {}]
    BY <1>4 DEF Begun
  <2>2. ph \in Nat /\ 0 \in Nat /\ {} \in SUBSET DrawnLines /\ FALSE \in BOOLEAN
    BY FrameSize
  <2> HIDE DEF s
  <2> QED
    BY <1>1, <2>1, <2>2 DEF Loops
<1> HIDE DEF s
<1>8. s \in Starts(fast)
  <2>1. freeze =< cost + freeze /\ ph < FrameDots
    BY <1>1, FrameSize
  <2> QED
    BY <1>1, <1>4, <1>6, <1>7, <2>1 DEF Starts
<1>9. Whole(s, fast) = x
  BY <1>4, <1>5, <1>6 DEF Whole
<1> QED
  BY <1>4, <1>5, <1>8, <1>9 DEF s

(* What the clock and its devices always are. *)
ClockShape ==
  /\ ppu \in Places /\ (~ ppu.on => ppu.ly = 0 /\ ppu.dots = 0)
  /\ oam \in OamContents /\ frame_phase \in 0 .. FrameDots - 1 /\ double \in BOOLEAN
  /\ dma \in Transfers /\ blocks \in 0 .. MaxBlocks

LEMMA SwitchedShape ==
  ASSUME ClockShape, NEW effect \in FC!Effects
  PROVE  LET q == Switched(effect)
         IN /\ q \in Places /\ (~ q.on => q.ly = 0 /\ q.dots = 0)
            /\ q.on = FC!LcdAfter(effect) /\ Position(q) = FC!DotAfter(effect)
            /\ FC!PhaseAfter(effect) \in 0 .. FrameDots - 1
<1> DEFINE on == FC!LcdAfter(effect)
           q == Switched(effect)
<1>1. ppu \in Places /\ ppu \in Displays /\ ppu.on \in BOOLEAN /\ frame_phase \in 0 .. FrameDots - 1
  BY DEF ClockShape, Places, Displays
<1>2. on \in BOOLEAN
  BY <1>1 DEF FC!LcdAfter
<1>3. Position(ppu) \in 0 .. FrameDots - 1
  BY <1>1, PositionBounds
<1>4. FrameDots \in Nat /\ 0 \in 0 .. FrameDots - 1
  BY <1>1, FrameSize
<1>5. FC!DotAfter(effect) = IF on = ppu.on THEN Position(ppu) ELSE 0
  BY DEF FC!DotAfter, Position
<1>6. FC!PhaseAfter(effect) \in 0 .. FrameDots - 1
  BY <1>1, <1>3, <1>4, <1>5 DEF FC!PhaseAfter
<1> HIDE DEF on
<1>7. CASE on = ppu.on
  <2>1. q = ppu
    BY <1>7 DEF Switched, on
  <2> QED
    BY <1>1, <1>5, <1>6, <1>7, <2>1 DEF ClockShape, on
<1>8. CASE on # ppu.on
  <2>1. q = [ppu EXCEPT !.on = on, !.ly = 0, !.dots = 0, !.penalty = 0]
    BY <1>8 DEF Switched, on
  <2>2. 0 \in 0 .. TotalLines - 1 /\ 0 \in 0 .. LineDots - 1
    BY <1>1, Sizes DEF Displays
  <2> HIDE DEF q
  <2>3. q \in Displays /\ q.on = on /\ q.ly = 0 /\ q.dots = 0 /\ q.penalty = 0
    BY <1>1, <1>2, <2>1, <2>2 DEF Displays
  <2>4. q \in Places
    BY <2>3 DEF Places, Fits
  <2>5. Position(q) = 0
    BY <2>3, Sizes DEF Position
  <2> QED
    BY <1>5, <1>6, <1>8, <2>3, <2>4, <2>5 DEF q, on
<1> QED
  BY <1>7, <1>8

(* The loop with observation and the one without end alike, and every cycle  *)
(* and dot of a step has reached its devices (lib.rs, advance_clocks and     *)
(* advance_clocks_fast).                                                     *)
LEMMA ShapeAgrees ==
  ASSUME ClockShape
  PROVE  LoopsAgree
<1> SUFFICES ASSUME NEW cost \in Costs, NEW freeze \in {0, FreezeCycles}
             PROVE  LET start == Begun(cost + freeze, freeze, ppu, frame_phase, double)
                        r == Advanced(start, cost + freeze, double)
                    IN /\ r = AdvancedFast(start, cost + freeze, double)
                       /\ r.cpu = 0 /\ r.freeze = 0
                       /\ r.timer = cost + FC!ToCycles(r.stalled, double)
                       /\ r.sound = FC!ToDots(cost, double) + r.stalled
                       /\ r.stalled = BlockStall * (blocks - r.blocks)
  BY Zenon DEF LoopsAgree
<1>1. PICK s : s = Begun(cost + freeze, freeze, ppu, frame_phase, double)
  OBVIOUS
<1>2. s.cpu = cost + freeze /\ s.blocks = blocks
  BY <1>1 DEF Begun
<1>3. /\ ppu \in Places /\ (~ ppu.on => ppu.ly = 0 /\ ppu.dots = 0)
      /\ oam \in OamContents /\ frame_phase \in 0 .. FrameDots - 1 /\ double \in BOOLEAN
      /\ dma \in Transfers /\ blocks \in 0 .. MaxBlocks
  BY DEF ClockShape
<1>4. /\ s \in Starts(double) /\ Whole(s, double) = FC!ToDots(cost, double)
      /\ FC!ToDots(cost, double) \in Nat /\ FC!ToCycles(FC!ToDots(cost, double), double) = cost
  BY <1>1, <1>3, StartFits, ZenonT(120)
<1>5. PICK r : r = Advanced(s, s.cpu, double)
  OBVIOUS
<1>6. /\ r = AdvancedFast(s, s.cpu, double)
      /\ r \in Reached(s, double) /\ r.cpu = 0 /\ r.freeze = 0
      /\ r.sound = Whole(s, double) + r.stalled
  <2>1. s.blocks =< MaxBlocks
    BY <1>2, <1>3, ClockAdvanceAssumption
  <2> QED
    BY <1>3, <1>4, <1>5, <2>1, LoopEnds
<1>7. /\ r.stalled \in Nat /\ r.blocks \in Nat /\ r.sound \in Nat /\ r.timer = FC!ToCycles(r.sound, double)
      /\ r.blocks =< s.blocks /\ r.stalled + BlockStall * r.blocks = BlockStall * s.blocks
  BY <1>6 DEF Reached, Accounted, Loops
<1>8. r.sound = FC!ToDots(cost, double) + r.stalled
  BY <1>4, <1>6
<1>9. r.timer = cost + FC!ToCycles(r.stalled, double)
  <2>1. PICK x \in Nat : x = FC!ToDots(cost, double) /\ FC!ToCycles(x, double) = cost
    BY <1>4
  <2>2. /\ FC!ToCycles(x, double) = (IF double THEN 2 * x ELSE x)
        /\ FC!ToCycles(r.stalled, double) = (IF double THEN 2 * r.stalled ELSE r.stalled)
        /\ FC!ToCycles(r.sound, double) = (IF double THEN 2 * r.sound ELSE r.sound)
    BY <1>3, <1>7, Rates
  <2> QED
    BY <1>7, <1>8, <2>1, <2>2
<1>10. r.stalled = BlockStall * (blocks - r.blocks)
  <2>1. PICK k \in Nat : blocks = r.blocks + k /\ blocks - r.blocks = k
    <3>1. blocks \in Nat
      BY <1>3, ClockAdvanceAssumption
    <3>2. blocks - r.blocks \in Nat /\ blocks = r.blocks + (blocks - r.blocks)
      BY <1>2, <1>7, <3>1
    <3> QED
      BY <3>2
  <2>2. PICK x \in Nat, y \in Nat : x = BlockStall * r.blocks /\ y = BlockStall * k
    BY <1>7, BlockCounts
  <2>3. BlockStall * blocks = x + y
    BY <1>7, <2>1, <2>2, BlockCounts
  <2> QED
    BY <1>2, <1>7, <2>1, <2>2, <2>3
<1> QED
  BY <1>1, <1>2, <1>5, <1>6, <1>8, <1>9, <1>10

LEMMA WithinLineFits ==
  ASSUME ClockShape, NEW cost \in Nat, WithinLine(cost), NEW w \in Nat, w =< cost
  PROVE  Fitting(w)
<1> SUFFICES ASSUME NEW p \in Places, NEW l \in Nat
             PROVE  w + BlockStall + Mode3End(p, l) =< LineDots + TransferEnd
  BY DEF Fitting
<1>1. PICK m \in Nat : m = Mode3End(p, l) /\ cost + BlockStall + m =< LineDots + TransferEnd
  BY EndOfTransfer DEF ClockShape
<1> QED
  BY <1>1, Sizes, BlockCounts

(* A wrapped counter is a remainder. *)
LEMMA WrappedRemainder ==
  ASSUME NEW x \in Nat, NEW n \in Nat, NEW y \in 0 .. FrameDots - 1, Wrapped(x, n, y)
  PROVE  y = (x + n) % FrameDots
<1>1. FrameDots \in Nat \ {0}
  <2>1. FrameDots \in Nat
    BY FrameSize
  <2> QED
    BY <2>1
<1>2. x + n \in Int /\ (x + n = FrameDots * 0 + y \/ x + n = FrameDots * 1 + y)
  BY <1>1 DEF Wrapped
<1> QED
  BY <1>1, <1>2, OnlyDivision

(* A step leads from a state of the shape to such a state, and to the frame   *)
(* clock's state behind its own step.                                         *)
LEMMA StepShape ==
  ASSUME ClockShape, NEW cost \in Costs, NEW effect \in FC!Effects, NEW filled \in BOOLEAN,
         Step(cost, effect, filled)
  PROVE  ClockShape' /\ FC!AnyStep
<1> DEFINE switch == effect = "switch_speed"
           fast == double # switch
           frozen == IF switch THEN FreezeCycles ELSE 0
           ph == FC!PhaseAfter(effect)
           q == Switched(effect)
           start == Begun(cost + frozen, frozen, q, ph, fast)
<1>1. /\ cost \in Nat /\ cost + BlockStall < FrameDots /\ FreezeCycles \in Nat /\ MaxBlocks \in Nat
      /\ BlockStall \in Nat
  BY ClockAdvanceAssumption
<1>2. /\ oam \in OamContents /\ dma \in Transfers /\ blocks \in 0 .. MaxBlocks /\ double \in BOOLEAN
  BY DEF ClockShape
<1>3. /\ q \in Places /\ (~ q.on => q.ly = 0 /\ q.dots = 0)
      /\ q.on = FC!LcdAfter(effect) /\ Position(q) = FC!DotAfter(effect) /\ ph \in 0 .. FrameDots - 1
  BY SwitchedShape
<1>4. fast \in BOOLEAN /\ frozen \in {0, FreezeCycles}
  BY <1>2
<1>5. /\ FC!GoesOn(call) /\ (WithinLine(cost) \/ blocks = 0)
      /\ LET r == Advanced(start, cost + frozen, fast)
         IN /\ ppu' = r.ppu /\ dma' = r.dma /\ blocks' = r.blocks /\ frame_phase' = r.phase
            /\ call' = [call EXCEPT
                 !.steps = FC!Remaining(@, 1), !.cycles = FC!Remaining(@, cost + frozen),
                 !.done = IF call.loop = "audio" THEN filled ELSE r.frame]
      /\ double' = fast /\ UNCHANGED <<oam, halted>>
  BY Zenon DEF Step
<1>6. FC!CyclesReported(cost, effect) = cost + frozen
      /\ FC!DotsPassed(cost, effect) = FC!ToDots(cost + frozen, fast) - FC!ToDots(frozen, fast)
  BY DEF FC!CyclesReported, FC!DotsPassed
<1> HIDE DEF q, ph, frozen, fast
<1>7. PICK s : s = start
  OBVIOUS
<1>8. start = s /\ s.cpu = cost + frozen /\ s.blocks = blocks /\ s.ppu = q /\ s.phase = ph
  BY <1>7 DEF Begun
<1> HIDE DEF start
<1>9. /\ s \in Starts(fast) /\ Whole(s, fast) = FC!DotsPassed(cost, effect)
      /\ Whole(s, fast) \in Nat /\ Whole(s, fast) =< cost
  <2>1. PICK z : z = Begun(cost + frozen, frozen, q, ph, fast) /\ z = s
    BY <1>7 DEF start
  <2>2. PICK x : x = FC!ToDots(cost, fast)
    OBVIOUS
  <2>3. PICK p \in Places, h \in 0 .. FrameDots - 1, f \in {0, FreezeCycles}, v \in BOOLEAN :
          /\ p = q /\ h = ph /\ f = frozen /\ v = fast /\ (~ p.on => p.ly = 0 /\ p.dots = 0)
    BY <1>3, <1>4
  <2>4. z = Begun(cost + f, f, p, h, v)
    BY <2>1, <2>3
  <2>5. z \in Starts(v)
    BY <1>2, <2>3, <2>4, StartFits
  <2>7. x = FC!ToDots(cost + f, v) - FC!ToDots(f, v)
    BY <1>2, <2>2, <2>3, <2>4, StartFits, ZenonT(120), ZenonT(120)
  <2>6. Whole(z, v) = x
    <3>1. z.dots = FC!ToDots(cost + f, v) /\ z.freeze = f
      BY <2>4 DEF Begun
    <3> QED
      BY <2>7, <3>1 DEF Whole
  <2>8. FC!ToDots(cost, v) \in Nat /\ FC!ToDots(cost, v) =< cost
    BY <1>2, <2>3, StartFits
  <2> QED
    BY <1>6, <2>1, <2>2, <2>3, <2>5, <2>6, <2>7, <2>8
<1>10. PICK r : r = Advanced(s, s.cpu, fast)
  OBVIOUS
<1>11. /\ r \in Reached(s, fast) /\ r.freeze = 0 /\ r.sound = Whole(s, fast) + r.stalled
  <2>1. s.blocks =< MaxBlocks
    BY <1>1, <1>2, <1>8
  <2> QED
    BY <1>2, <1>4, <1>9, <1>10, <2>1, LoopEnds
<1>12. /\ r.ppu \in Places /\ r.dma \in Transfers /\ r.blocks \in Nat /\ r.stalled \in Nat
       /\ r.phase \in Nat /\ r.sound \in Nat /\ r.frame \in BOOLEAN
       /\ Placed(r, s) /\ Stalled(r, s, fast)
       /\ r.blocks =< s.blocks /\ r.stalled + BlockStall * r.blocks = BlockStall * s.blocks
  BY <1>11 DEF Reached, Accounted, Loops
<1>13. /\ r.phase < FrameDots /\ r.ppu.on = s.ppu.on /\ (~ r.ppu.on => r.ppu.ly = 0 /\ r.ppu.dots = 0)
       /\ r.sound < FrameDots =>
            /\ Wrapped(s.phase, r.sound, r.phase)
            /\ r.frame <=> s.phase + r.sound >= FrameDots
            /\ r.ppu.on => Wrapped(Position(s.ppu), r.sound, Position(r.ppu))
  BY <1>12 DEF Placed
<1>14. r.stalled = 0 \/ (r.stalled = BlockStall /\ r.ppu.on)
  <2>1. CASE WithinLine(cost)
    <3>1. Fitting(Whole(s, fast))
      BY <1>1, <1>9, <2>1, WithinLineFits
    <3> QED
      BY <1>12, <3>1 DEF Stalled
  <2>2. CASE blocks = 0
    <3>1. s.blocks = 0 /\ r.blocks = 0 /\ BlockStall * 0 = 0
      BY <1>1, <1>8, <1>12, <2>2
    <3> QED
      BY <1>12, <3>1
  <2> QED
    BY <1>5, <2>1, <2>2
<1>15. r.sound < FrameDots /\ r.stalled \in {0, BlockStall}
  BY <1>1, <1>9, <1>11, <1>12, <1>14, FrameSize
<1>16. /\ ppu' = r.ppu /\ dma' = r.dma /\ blocks' = r.blocks /\ frame_phase' = r.phase
       /\ call' = [call EXCEPT
                 !.steps = FC!Remaining(@, 1), !.cycles = FC!Remaining(@, cost + frozen),
                 !.done = IF call.loop = "audio" THEN filled ELSE r.frame]
       /\ double' = fast /\ oam' = oam
  <2>1. r = Advanced(start, cost + frozen, fast)
    BY <1>8, <1>10
  <2> QED
    BY <1>5, <2>1, Zenon
<1>17. r.phase \in 0 .. FrameDots - 1 /\ r.blocks \in 0 .. MaxBlocks
  <2>1. blocks =< MaxBlocks /\ blocks \in Nat /\ FrameDots \in Nat
    BY <1>1, <1>2, FrameSize
  <2> QED
    BY <1>1, <1>8, <1>12, <1>13, <2>1
<1>18. ClockShape'
  BY <1>2, <1>4, <1>12, <1>13, <1>16, <1>17 DEF ClockShape
<1>19. FC!Step(cost, effect, r.stalled, filled)
  <2>1. r.sound = FC!DotsPassed(cost, effect) + r.stalled /\ FC!DotsPassed(cost, effect) \in Nat
    BY <1>9, <1>11
  <2>2. r.stalled > 0 => FC!LcdAfter(effect)
    BY <1>3, <1>8, <1>12, <1>13, <1>14
  <2>3. ppu'.on = FC!LcdAfter(effect)
    BY <1>3, <1>8, <1>13, <1>16
  <2>4. ppu'.ly * LineDots + ppu'.dots = Position(r.ppu)
    BY <1>16 DEF Position
  <2>5. Position(r.ppu) =
          IF ppu'.on THEN (FC!DotAfter(effect) + (FC!DotsPassed(cost, effect) + r.stalled)) % FrameDots ELSE 0
    <3>1. CASE r.ppu.on
      <4>1. Position(q) \in Nat /\ Position(r.ppu) \in 0 .. FrameDots - 1
        BY <1>3, <1>12, PositionBounds, FrameSize
      <4>2. Wrapped(Position(q), r.sound, Position(r.ppu))
        BY <1>8, <1>13, <1>15, <3>1
      <4>3. Position(r.ppu) = (Position(q) + r.sound) % FrameDots
        BY <1>12, <4>1, <4>2, WrappedRemainder
      <4> QED
        BY <1>3, <1>16, <2>1, <3>1, <4>3
    <3>2. CASE ~ r.ppu.on
      <4>1. Position(r.ppu) = 0
        BY <1>13, <3>2, Sizes DEF Position
      <4> QED
        BY <1>16, <3>2, <4>1
    <3> QED
      BY <3>1, <3>2
  <2>6. frame_phase' = (ph + (FC!DotsPassed(cost, effect) + r.stalled)) % FrameDots
    <3>1. ph \in Nat
      BY <1>3, FrameSize
    <3>2. Wrapped(ph, r.sound, r.phase)
      BY <1>8, <1>13, <1>15
    <3>3. r.phase = (ph + r.sound) % FrameDots
      BY <1>12, <1>17, <3>1, <3>2, WrappedRemainder
    <3> QED
      BY <1>16, <2>1, <3>3
  <2>7. r.frame = (ph + (FC!DotsPassed(cost, effect) + r.stalled) >= FrameDots)
    <3>1. r.frame <=> ph + r.sound >= FrameDots
      BY <1>8, <1>13, <1>15
    <3> QED
      BY <1>12, <2>1, <3>1
  <2>8. call' = [call EXCEPT
                   !.steps = FC!Remaining(@, 1),
                   !.cycles = FC!Remaining(@, FC!CyclesReported(cost, effect)),
                   !.done = IF FC!Running("audio") THEN filled
                            ELSE ph + (FC!DotsPassed(cost, effect) + r.stalled) >= FrameDots]
    BY <1>6, <1>16, <2>7, Zenon DEF FC!Running
  <2>9. double' = (double # (effect = "switch_speed"))
    BY <1>16 DEF fast
  <2> QED
    BY <1>5, <2>2, <2>3, <2>4, <2>5, <2>6, <2>8, <2>9, Zenon DEF FC!Step, ph
<1> QED
  BY <1>15, <1>18, <1>19, Zenon DEF FC!AnyStep

LEMMA InitShape == Init => ClockShape /\ FC!Init
<1> SUFFICES ASSUME Init PROVE ClockShape /\ FC!Init
  OBVIOUS
<1>1. PICK g \in Geometries : ppu = PowerOn(g, 0, {})
  BY DEF Init
<1>2. /\ oam \in OamContents /\ frame_phase = 0 /\ double \in BOOLEAN /\ dma = NoTransfer
      /\ blocks = 0 /\ call = FC!Idle
  BY DEF Init
<1>3. LineDots \in Nat \ {0}
  <2>1. g.fine \in Nat /\ oam[0] \in Nat /\ TransferEnd + g.fine + WindowDots + oam[0] < LineDots
    BY <1>2, Sizes, PpuConstantsAssumption DEF DisplaySizes, DrawnLines
  <2> QED
    BY <2>1, Sizes
<1>4. /\ ppu \in Displays /\ ppu.on = TRUE /\ ppu.ly = 0 /\ ppu.dots = 0 /\ ppu.penalty = 0
  BY <1>1, <1>3, Sizes DEF PowerOn, Displays
<1>5. ppu \in Places /\ Position(ppu) = 0 /\ 0 \in 0 .. FrameDots - 1
  <2>1. ppu \in Places
    BY <1>4 DEF Places, Fits
  <2>2. Position(ppu) = 0
    BY <1>3, <1>4 DEF Position
  <2> QED
    BY <2>1, <2>2, PositionBounds
<1>6. NoTransfer \in Transfers /\ 0 \in 0 .. MaxBlocks
  BY ClockAdvanceAssumption DEF NoTransfer, Transfers
<1> QED
  BY <1>2, <1>4, <1>5, <1>6 DEF ClockShape, FC!Init, Position

(* Every step of the machine's clock is one of the frame clock, or none. *)
LEMMA NextShape ==
  ASSUME ClockShape, [Next]_vars
  PROVE  ClockShape' /\ [FC!Next]_(FC!vars)
<1>1. CASE Begin
  BY <1>1 DEF Begin, FC!Begin, FC!Next, ClockShape
<1>2. CASE AnyStep
  <2>1. PICK cost \in Costs, effect \in FC!Effects, filled \in BOOLEAN : Step(cost, effect, filled)
    BY <1>2, Zenon DEF AnyStep
  <2> QED
    BY <2>1, StepShape, Zenon DEF FC!Next
<1>3. CASE Return
  BY <1>3 DEF Return, FC!Return, FC!Next, ClockShape
<1>4. CASE \E g \in Geometries : WriteScx(g.fine)
  <2>1. PICK f : /\ [ppu.geo EXCEPT !.fine = f] \in Geometries
                 /\ ppu' = [ppu EXCEPT !.geo.fine = f]
                 /\ UNCHANGED <<oam, frame_phase, double, dma, blocks, halted, call>>
    BY <1>4 DEF WriteScx
  <2>2. PICK g \in Geometries : g = [ppu.geo EXCEPT !.fine = f]
    BY <2>1
  <2>3. PICK p : p = [ppu EXCEPT !.geo = g]
    OBVIOUS
  <2>4. ppu' = p
    BY <2>1, <2>2, <2>3
  <2>5. /\ p \in Displays /\ p.on = ppu.on /\ p.ly = ppu.ly /\ p.dots = ppu.dots
        /\ p.penalty = ppu.penalty
    BY <2>3 DEF ClockShape, Places, Displays
  <2>6. p \in Places
    BY <2>5 DEF ClockShape, Places, Fits
  <2>7. UNCHANGED FC!vars
    BY <2>1, <2>4, <2>5 DEF FC!vars
  <2> QED
    BY <2>1, <2>4, <2>5, <2>6, <2>7 DEF ClockShape
<1>5. CASE WriteFF46
  <2>1. dma' \in Transfers
    BY <1>5, ClockAdvanceAssumption DEF WriteFF46, Transfers
  <2> QED
    BY <1>5, <2>1 DEF WriteFF46, ClockShape, FC!vars
<1>6. CASE \E n \in 0 .. MaxBlocks : WriteFF55(n)
  BY <1>6 DEF WriteFF55, ClockShape, FC!vars
<1>7. CASE \E o \in OamContents : WriteOam(o)
  BY <1>7 DEF WriteOam, ClockShape, FC!vars
<1>8. CASE SleepOrWake
  BY <1>8 DEF SleepOrWake, ClockShape, FC!vars
<1>9. CASE UNCHANGED vars
  BY <1>9 DEF vars, ClockShape, FC!vars
<1> QED
  BY <1>1, <1>2, <1>3, <1>4, <1>5, <1>6, <1>7, <1>8, <1>9 DEF Next, Store

(* The clock and its devices stay in their shape. *)
THEOREM ClockInvariant == Spec => []ClockShape
<1>1. Init => ClockShape
  BY InitShape
<1>2. ClockShape /\ [Next]_vars => ClockShape'
  BY NextShape
<1> QED
  BY <1>1, <1>2, PTL DEF Spec

(* Whatever the chunks a step falls into, the loop with observation and the    *)
(* loop without it leave the machine and its devices alike, blocks copied in   *)
(* HBlank included, and every cycle that is not frozen has reached the timer   *)
(* and every dot the sound (lib.rs, advance_clocks and advance_clocks_fast).   *)
THEOREM LoopsAreAlike == Spec => []LoopsAgree
<1>1. ClockShape => LoopsAgree
  BY ShapeAgrees
<1> QED
  BY ClockInvariant, <1>1, PTL

(* The chunks of a step add up to a step of the nominal frame clock: the       *)
(* phase, the picture's position and the loop's end are what FrameClock says   *)
(* across LCD transitions, speed switches, transfers and stalls (lib.rs,       *)
(* finish_step and advance_clocks).                                            *)
THEOREM ClockIsFrameClock == Spec => ImplementsFrameClock
<1>1. Init => FC!Init
  BY InitShape
<1>2. ClockShape /\ [Next]_vars => [FC!Next]_(FC!vars)
  BY NextShape
<1> QED
  BY ClockInvariant, <1>1, <1>2, PTL DEF Spec, ImplementsFrameClock, FC!Spec
=============================================================================
