------------------------------- MODULE MC_Host -------------------------------
(***************************************************************************)
(* What needs no clock: what the decompiler makes of a ROM (the two opcode   *)
(* tables, the walk and the blocks of small ROMs), the accumulator the       *)
(* tables leave out, and the picture.  One of the four is at work.           *)
(***************************************************************************)
EXTENDS Decompile

VARIABLES
  part, opcode, a, z, n, h, c, due,
  cgb, on, regs, vram, oam, ly, step, latched, penalty, window_line_counter, plane, writes,
  untouched

aluVars == <<a, z, n, h, c, due>>
pictureVars == <<cgb, on, regs, vram, oam, ly, step, latched, penalty, window_line_counter,
                 plane, writes, untouched>>

(* Five free bytes, and as many with HALT among them; and two ROMs with a       *)
(* function only jumps lead to, the second of which overlaps the one that jumps. *)
FiveOf(bytes) == {[x \in 0 .. 7 |-> IF x < 5 THEN b[x] ELSE 201] : b \in [0 .. 4 -> bytes]}
Listed(s) == [x \in 0 .. 7 |-> s[x + 1]]
MCRoms ==
  FiveOf({0, 24, 32, 192, 205, 253}) \union FiveOf({32, 62, 118, 199})
    \union {Listed(<<24, 254, 197, 201, 32, 252, 24, 250>>),
            Listed(<<24, 254, 197, 1, 32, 252, 24, 250>>)}

A == INSTANCE Alu WITH Operands <- {0, 1, 9, 15, 16, 25, 128, 144, 153, 255}

(* Tiles of two dots, maps of two by two tiles; dots, numbers and attributes *)
(* differ from cell to cell and between the banks.                          *)
Attributes(turned) == [palette |-> IF turned THEN 1 ELSE 0, bank |-> IF turned THEN 1 ELSE 0,
                       xflip |-> turned, yflip |-> turned, priority |-> turned]
MCContents ==
  {[numbers |-> [m \in 0 .. 1 |-> [cell \in 0 .. 3 |-> (m + cell + k) % 2]],
    attributes |-> [m \in 0 .. 1 |-> [cell \in 0 .. 3 |-> Attributes((cell + m) % 2 = k)]],
    rows |-> [b \in 0 .. 1 |-> [r \in 0 .. 5 |-> [x \in 0 .. 1 |-> (r + 2 * x + b + k) % 4]]]] :
     k \in 0 .. 1}

MCShades == [bg |-> [p \in 0 .. 1 |-> [i \in 0 .. 3 |-> 3 - i]],
             obj |-> [p \in 0 .. 1 |-> [i \in 0 .. 3 |-> (i + p) % 4]]]
Held(bg, win, tall, unsigned, scx, scy, wx, wy) ==
  [bg |-> bg, win |-> win, obj |-> TRUE, tall |-> tall, unsigned |-> unsigned, bgMap |-> 0,
   winMap |-> IF bg THEN 1 ELSE 0, scx |-> scx, scy |-> scy, wx |-> wx, wy |-> wy,
   shades |-> MCShades]
MCRegisters ==
  {Held(TRUE, FALSE, FALSE, TRUE, 1, 3, 0, 0), Held(TRUE, TRUE, FALSE, FALSE, 2, 0, 2, 1),
   Held(TRUE, TRUE, TRUE, TRUE, 0, 1, 0, 0), Held(FALSE, TRUE, TRUE, FALSE, 0, 0, 1, 0)}

Entry(y, x, tile, turned) ==
  [y |-> y, x |-> x, tile |-> tile, behind |-> turned, xflip |-> turned, yflip |-> turned,
   palette |-> x % 2, colours |-> y % 2, bank |-> tile]
MCSprites ==
  {<<Entry(4, 3, 0, FALSE), Entry(5, 2, 1, TRUE), Entry(5, 4, 1, FALSE)>>,
   <<Entry(5, 0, 1, FALSE), Entry(3, 3, 0, TRUE), Entry(4, 3, 1, FALSE)>>}

Picture == INSTANCE Scanline WITH phase <- step, Width <- 4, Height <- 3, TileSize <- 2, MapSide <- 2,
             HalfSet <- 1, MaxSelected <- 2, StallX0 <- 5, StallCell <- 2, StallSprite <- 3,
             Registers <- MCRegisters, Contents <- MCContents, Sprites <- MCSprites,
             MaxWrites <- 2

NoPicture ==
  /\ cgb = FALSE /\ on = FALSE /\ regs = <<>> /\ vram = <<>> /\ oam = <<>> /\ ly = 0
  /\ step = "begun" /\ latched = <<>> /\ penalty = 0 /\ window_line_counter = 0
  /\ plane = <<>> /\ writes = 0 /\ untouched = TRUE

MCInit ==
  /\ part \in {"tables", "rom", "alu", "picture"}
  /\ opcode = 0
  /\ Init /\ (part # "rom" => rom = Listed(<<0, 0, 0, 0, 0, 201, 201, 201>>))
  /\ A!Init /\ (part # "alu" => a = 0 /\ ~ c)
  /\ IF part = "picture" THEN Picture!Init ELSE NoPicture

NextOpcode == opcode' = (opcode + 1) % 256

MCNext ==
  \/ part = "tables" /\ NextOpcode /\ UNCHANGED <<part, vars, aluVars, pictureVars>>
  \/ part = "rom" /\ Next /\ UNCHANGED <<part, opcode, aluVars, pictureVars>>
  \/ part = "alu" /\ A!Next /\ UNCHANGED <<part, opcode, vars, pictureVars>>
  \/ part = "picture" /\ Picture!Next /\ UNCHANGED <<part, opcode, vars, aluVars>>

MCSpec == MCInit /\ [][MCNext]_<<part, opcode, vars, aluVars, pictureVars>>

(* Decompile: what runs is decoded, and marks follow the paths. *)
ListingIsRight == ExecutedIsDecoded /\ MarksFollowPaths

(* Opcodes: the tables agree on every opcode and every second byte. *)
TablesAgree ==
  part = "tables" => \A second \in Opcode : DecoderAgrees(opcode, second) /\ LegacyAgrees(opcode)

(* Alu: sums, differences and rotations come out as those of an adder's bits, *)
(* and the decimal adjustment gives the decimal result.                       *)
ResultsAreRight == []A!DecimalIsAdjusted /\ A!BitsComeOutRight

(* Scanline: the front sprite shows on every dot, a redraw agrees with the  *)
(* lines drawn, and a stall does not depend on the order of OAM.             *)
PictureIsRight == part = "picture" => Picture!PictureIsRight
=============================================================================
