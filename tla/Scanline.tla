------------------------------ MODULE Scanline ------------------------------
(***************************************************************************)
(* The picture: the sprites found for a line as it begins, the line drawn  *)
(* from the memory of the moment its transfer ends, and the whole picture  *)
(* drawn again after a load.  Tiles are TileSize dots square and maps wrap *)
(* after MapSide tiles; a colour is what selects it.  That a line is drawn *)
(* once, and when, is in Ppu.                                              *)
(***************************************************************************)
EXTENDS Integers, FiniteSets, Sequences

LOCAL INSTANCE SequencesExt
LOCAL INSTANCE FiniteSetsExt

CONSTANTS
  Width, Height,   \* the visible dots of a line, the visible lines
  TileSize, MapSide, HalfSet,  \* HalfSet: the tiles a signed number reaches upwards
  MaxSelected,     \* sprites of a line (10)
  StallX0, StallCell, StallSprite,  \* fetch stalls in dots (11, 5, 6)
  Registers,       \* what the registers can hold
  Contents,        \* what video memory can hold
  Sprites,         \* what OAM can hold: sequences of entries
  MaxWrites        \* bounds the program's writes in a behaviour

VARIABLES
  cgb,       \* colour mode
  on,        \* LCDC bit 7
  regs,      \* the other LCDC bits, scroll, window and palettes
  vram, oam,
  ly, phase, \* the line, and how far it is: begun, searched or drawn
  latched,   \* scanline_sprites: indices and copies of the sprites found
  penalty,   \* mode3_sprite_penalty
  window_line_counter,
  plane,     \* framebuffer, bg_color_ids and bg_priority_flags of every dot
  writes,    \* writes so far
  untouched  \* history: nothing was written since the frame began

vars == <<cgb, on, regs, vram, oam, ly, phase, latched, penalty, window_line_counter,
          plane, writes, untouched>>
memory == <<cgb, on, regs, vram, oam, writes>>

Columns == 0 .. Width - 1
Rows == 0 .. Height - 1

-----------------------------------------------------------------------------
(* Background and window *)

WindowVisible(y) == regs.bg /\ regs.win /\ regs.wy < Height /\ y >= regs.wy
                    /\ regs.wx =< Width + TileSize - 2

(* The plane that covers dot x of line y, and the dot of the plane; row is *)
(* the window's row.                                                       *)
Source(y, x, row) ==
  LET left == x + TileSize - 1
  IN IF WindowVisible(y) /\ left >= regs.wx
     THEN [map |-> regs.winMap, px |-> left - regs.wx, py |-> row]
     ELSE [map |-> regs.bgMap, px |-> (x + regs.scx) % (MapSide * TileSize),
           py |-> (y + regs.scy) % (MapSide * TileSize)]

CellOf(s) == ((s.py \div TileSize) % MapSide) * MapSide + ((s.px \div TileSize) % MapSide)

PlainTile == [palette |-> 0, bank |-> 0, xflip |-> FALSE, yflip |-> FALSE, priority |-> FALSE]

(* The first row of a tile's pattern; signed numbers are centred above. *)
PatternOf(number) ==
  TileSize * (IF regs.unsigned \/ number >= HalfSet THEN number ELSE number + 2 * HalfSet)

(* One bit plane pair: the colour of a dot of a pattern row, none outside. *)
ColourId(bank, row, column) ==
  IF row \in DOMAIN vram.rows[bank] THEN vram.rows[bank][row][column] ELSE 0

Flipped(flip, i, size) == IF flip THEN size - 1 - i ELSE i

Colour(layer, palette, id) ==
  IF cgb THEN <<layer, palette, id>> ELSE <<"grey", regs.shades[layer][palette][id]>>

BlankDot == [colour |-> <<"grey", 0>>, id |-> 0, priority |-> FALSE]

(* LCDC bit 0 blanks the background and the window in both modes. *)
Background(y, x, row) ==
  LET s == Source(y, x, row)
      a == IF cgb THEN vram.attributes[s.map][CellOf(s)] ELSE PlainTile
      id == ColourId(a.bank,
                     PatternOf(vram.numbers[s.map][CellOf(s)]) + Flipped(a.yflip, s.py % TileSize, TileSize),
                     Flipped(a.xflip, s.px % TileSize, TileSize))
  IN IF regs.bg THEN [colour |-> Colour("bg", a.palette, id), id |-> id, priority |-> a.priority]
     ELSE BlankDot

-----------------------------------------------------------------------------
(* Sprites *)

SpriteHeight == IF regs.tall THEN 2 * TileSize ELSE TileSize

Top(s) == s.y - 2 * TileSize
Left(s) == s.x - TileSize

(* The first sprites of OAM that cross the line, wherever they are in x. *)
SelectedOnLine(o, y) ==
  LET crossing == SelectSeq([i \in DOMAIN o |-> [index |-> i, sprite |-> o[i]]],
                            LAMBDA e : y \in Top(e.sprite) .. Top(e.sprite) + SpriteHeight - 1)
  IN SubSeq(crossing, 1, Min({MaxSelected, Len(crossing)}))

Before(e, f) == e.sprite.x < f.sprite.x \/ (e.sprite.x = f.sprite.x /\ e.index < f.index)

(* Stalls from left to right: a map cell costs its own once, a sprite hidden *)
(* at the left border a fixed amount.                                        *)
SpritePenalty(found, y) ==
  LET Stalled(r, e) ==
        LET x == Max({Left(e.sprite), 0})
            s == Source(y, x, IF WindowVisible(y) THEN window_line_counter ELSE 0)
            cell == <<s.map, CellOf(s)>>
        IN IF e.sprite.x = 0 THEN [r EXCEPT !.dots = @ + StallX0]
           ELSE [dots |-> r.dots + StallSprite
                          + (IF cell \in r.seen THEN 0 ELSE Max({StallCell - (x % TileSize), 0})),
                 seen |-> r.seen \union {cell}]
  IN FoldLeft(Stalled, [dots |-> 0, seen |-> {}], SortSeq(found, Before)).dots

(* The colour of a sprite at dot x of line y, 0 where it shows nothing.  A   *)
(* row beyond the sprite is one found while sprites were tall: it is a row of *)
(* the next tile or, flipped, of the one before, as unsigned numbers wrap in a *)
(* release build (with overflow checks the subtraction panics).              *)
SpriteId(s, y, x) ==
  LET row == y - Top(s)
      tile == IF regs.tall THEN s.tile - (s.tile % 2) ELSE s.tile
      bank == IF cgb THEN s.bank ELSE 0
      at == Flipped(s.yflip, row, SpriteHeight)
  IN IF x - Left(s) \notin 0 .. TileSize - 1 THEN 0
     ELSE ColourId(bank, tile * TileSize + at, Flipped(s.xflip, x - Left(s), TileSize))

Blocked(s, dot) == dot.id # 0 /\ (dot.priority \/ s.behind)

(* Mutant of Overlaid. *)
OverlaidInOrder(row, found, y) ==
  FoldLeft(LAMBDA r, e :
             [x \in Columns |->
                LET s == e.sprite  id == SpriteId(s, y, x)
                IN IF id = 0 \/ Blocked(s, r[x]) THEN r[x]
                   ELSE [r[x] EXCEPT !.colour = Colour("obj", IF cgb THEN s.colours ELSE s.palette, id)]],
           row, found)

(* Drawn from right to left and from the last entry to the first, so that  *)
(* what comes later covers; the background's own colours stay for the test.*)
Overlaid(row, found, y) ==
  FoldLeft(LAMBDA r, e :
             [x \in Columns |->
                LET s == e.sprite  id == SpriteId(s, y, x)
                IN IF id = 0 \/ Blocked(s, r[x]) THEN r[x]
                   ELSE [r[x] EXCEPT !.colour = Colour("obj", IF cgb THEN s.colours ELSE s.palette, id)]],
           row, Reverse(SortSeq(found, Before)))

Drawn(y, found, row) ==
  LET background == [x \in Columns |-> Background(y, x, row)]
  IN IF regs.obj THEN Overlaid(background, found, y) ELSE background

(* A redraw looks sprites up afresh and takes the window's row from its top. *)
Redrawn(y) == Drawn(y, SelectedOnLine(oam, y), y - regs.wy)

-----------------------------------------------------------------------------
Init ==
  /\ cgb \in BOOLEAN /\ on = TRUE
  /\ regs \in Registers /\ vram \in Contents /\ oam \in Sprites
  /\ ly = 0 /\ phase = "begun" /\ latched = <<>> /\ penalty = 0 /\ window_line_counter = 0
  /\ plane = [y \in Rows |-> Redrawn(y)]
  /\ writes = 0 /\ untouched = TRUE

(* latch_scanline_state, as a visible line begins. *)
Latch ==
  /\ on /\ ly < Height /\ phase = "begun"
  /\ LET found == SelectedOnLine(oam, ly)
     IN latched' = found /\ penalty' = SpritePenalty(found, ly)
  /\ phase' = "searched"
  /\ UNCHANGED <<memory, ly, window_line_counter, plane, untouched>>

(* render_current_scanline_from_memory_with_mode, at the end of mode 3. *)
DrawLine ==
  /\ on /\ ly < Height /\ phase = "searched"
  /\ plane' = [plane EXCEPT ![ly] = Drawn(ly, latched, window_line_counter)]
  /\ window_line_counter' = window_line_counter + (IF WindowVisible(ly) THEN 1 ELSE 0)
  /\ phase' = "drawn"
  /\ UNCHANGED <<memory, ly, latched, penalty, untouched>>

(* The next line; one blank line stands for vertical blanking. *)
NextLine ==
  /\ on /\ (phase = "drawn" \/ ly = Height)
  /\ IF ly = Height
     THEN ly' = 0 /\ window_line_counter' = 0 /\ untouched' = TRUE
          /\ UNCHANGED <<latched, penalty>>
     ELSE /\ ly' = ly + 1 /\ UNCHANGED <<window_line_counter, untouched>>
          /\ IF ly + 1 = Height THEN latched' = <<>> /\ penalty' = 0
             ELSE UNCHANGED <<latched, penalty>>
  /\ phase' = "begun"
  /\ UNCHANGED <<memory, plane>>

Written ==
  /\ writes < MaxWrites /\ writes' = writes + 1
  /\ untouched' = FALSE
  /\ UNCHANGED <<cgb, on, ly, phase, latched, penalty, window_line_counter, plane>>

WriteRegisters == \E r \in Registers : regs' = r /\ UNCHANGED <<vram, oam>> /\ Written
WriteVram == \E v \in Contents : vram' = v /\ UNCHANGED <<regs, oam>> /\ Written
WriteOam == \E o \in Sprites : oam' = o /\ UNCHANGED <<regs, vram>> /\ Written

(* Either switch of the LCD starts the picture over; switched off, it is *)
(* blank.                                                                *)
Switch ==
  /\ writes < MaxWrites /\ writes' = writes + 1
  /\ on' = ~ on /\ untouched' = ~ on
  /\ ly' = 0 /\ phase' = "begun" /\ latched' = <<>> /\ penalty' = 0 /\ window_line_counter' = 0
  /\ plane' = IF on THEN [y \in Rows |-> [x \in Columns |-> BlankDot]] ELSE plane
  /\ UNCHANGED <<cgb, regs, vram, oam>>

(* A saved state loaded again: the window's row is in it, the sprites found *)
(* are not; every line is drawn again, also with the LCD off.               *)
SaveAndLoad ==
  /\ LET found == IF on /\ ly < Height THEN SelectedOnLine(oam, ly) ELSE <<>>
     IN latched' = found /\ penalty' = SpritePenalty(found, ly)
  /\ plane' = [y \in Rows |-> Redrawn(y)]
  /\ UNCHANGED <<memory, ly, phase, window_line_counter, untouched>>

Program == WriteRegisters \/ WriteVram \/ WriteOam \/ Switch
Next == Latch \/ DrawLine \/ NextLine \/ Program \/ SaveAndLoad

Spec == Init /\ [][Next]_vars

-----------------------------------------------------------------------------
TypeOK ==
  /\ regs \in Registers /\ vram \in Contents /\ oam \in Sprites
  /\ ly \in 0 .. Height /\ phase \in {"begun", "searched", "drawn"}
  /\ window_line_counter \in 0 .. Height /\ Len(latched) =< MaxSelected

(* What a line should show: at each dot the leftmost sprite, the first of  *)
(* OAM among equals, of those with a colour there that the background does *)
(* not hide.                                                               *)
Topmost(row, found, y, x) ==
  LET shown == {i \in DOMAIN found : SpriteId(found[i].sprite, y, x) # 0
                                     /\ ~ Blocked(found[i].sprite, row[x])}
      top == found[CHOOSE i \in shown : \A j \in shown \ {i} : Before(found[i], found[j])].sprite
  IN IF shown = {} THEN row[x].colour
     ELSE Colour("obj", IF cgb THEN top.colours ELSE top.palette, SpriteId(top, y, x))

(* Painting from right to left leaves the sprite in front on every dot,      *)
(* also where the front one alone is hidden by the background, with sprites  *)
(* found before the registers changed (ppu/mod.rs:957).                      *)
FrontSpriteShows ==
  \A y \in Rows :
    LET row == [x \in Columns |-> Background(y, x, window_line_counter)]
        found == IF y = ly /\ phase = "searched" THEN latched ELSE SelectedOnLine(oam, y)
    IN \A x \in Columns : Overlaid(row, found, y)[x].colour = Topmost(row, found, y, x)

(* In a frame nothing was written in, the lines drawn from what was found  *)
(* as they began and from the counted rows of the window are those a       *)
(* redraw shows, so a load in the middle changes nothing (lib.rs:607).     *)
RedrawAgrees == untouched /\ on => \A y \in Rows :
                  (y < ly \/ (y = ly /\ phase = "drawn")) => plane[y] = Redrawn(y)

(* The stall does not depend on the order of the sprites in OAM, although  *)
(* the first of a map cell pays for the cell (ppu/mod.rs:487).             *)
StallIgnoresOrder ==
  LET found == [i \in DOMAIN latched |-> [latched[i] EXCEPT !.index = Len(oam) - @]]
  IN ly < Height => SpritePenalty(latched, ly) = SpritePenalty(found, ly)

PictureIsRight == FrontSpriteShows /\ RedrawAgrees /\ StallIgnoresOrder
=============================================================================
