------------------------------ MODULE Opcodes ------------------------------
(***************************************************************************)
(* Two readings of an opcode: what the processor does with it, and what the  *)
(* decompiler says of it.  An instruction is its length, the way it leaves    *)
(* and the clocks it takes, with the branch not taken and taken.  Registers   *)
(* and flags are left out here.                                              *)
(***************************************************************************)
EXTENDS Integers

Opcode == 0 .. 255

Instr(len, flow, idle, taken) == [len |-> len, flow |-> flow, idle |-> idle, taken |-> taken]
Plain(len, clocks) == Instr(len, "none", clocks, clocks)
Leaving(len, flow, clocks) == Instr(len, flow, clocks, clocks)

---------------------------------------------------------------------------
\* The processor: execute_opcode

(* Column of the rows 0x to 3x: pair loads, pair steps, steps, immediates. *)
Column(op) ==
  LET low == op % 8 IN
  CASE op % 16 = 1 -> Plain(3, 12)
    [] low = 6 -> Plain(2, 8)
    [] op % 16 = 9 \/ low \in {2, 3} -> Plain(1, 8)
    [] OTHER -> Plain(1, 4)

Arms00To1F(op) ==
  CASE op = 8 -> Plain(3, 20)
    [] op = 16 -> Leaving(2, "stop", 4)
    [] op = 24 -> Leaving(2, "jump", 12)
    [] OTHER -> Column(op)

Arms20To3F(op) ==
  CASE op \in {32, 40, 48, 56} -> Instr(2, "jump_cond", 8, 12)
    [] op \in {52, 53} -> Plain(1, 12)
    [] op = 54 -> Plain(2, 12)
    [] OTHER -> Column(op)

(* The load matrix and the eight accumulator families; (HL) is operand 6. *)
LoadMatrix(op) == IF op % 8 = 6 \/ (op \div 8) % 8 = 6 THEN Plain(1, 8) ELSE Plain(1, 4)
Halts(op) == Leaving(1, "halt", 4)
Families(op) == IF op % 8 = 6 THEN Plain(1, 8) ELSE Plain(1, 4)

(* Arms the matrix and the families keep from being reached; not every load  *)
(* has one.                                                                  *)
LegacyLoads == (64 .. 126) \ ({68, 69, 70, 78, 86, 94, 102, 110} \union (112 .. 118))
LegacyLoad(op) == IF op \in {119, 126} THEN Plain(1, 8) ELSE Plain(1, 4)
LegacyAddSub(op) == IF op \in {134, 142, 150, 158} THEN Plain(1, 8) ELSE Plain(1, 4)
LegacyLogic(op) == IF op \in {166, 174, 182, 190} THEN Plain(1, 8) ELSE Plain(1, 4)

(* RST and the accumulator with an immediate come once every eight. *)
Restart == Leaving(1, "rst", 16)
ConditionalReturn == Instr(1, "return_cond", 8, 20)
ConditionalJump == Instr(3, "jump_cond", 12, 16)
ConditionalCall == Instr(3, "call_cond", 12, 24)
Pop == Plain(1, 12)
Push == Plain(1, 16)
Immediate == Plain(2, 8)
Unsupported == Leaving(1, "invalid", 0)

ArmsC0ToDF(op) ==
  CASE op \in {192, 200, 208, 216} -> ConditionalReturn
    [] op \in {194, 202, 210, 218} -> ConditionalJump
    [] op \in {196, 204, 212, 220} -> ConditionalCall
    [] op \in {193, 209} -> Pop
    [] op \in {197, 213} -> Push
    [] op = 195 -> Leaving(3, "jump", 16)
    [] op = 201 -> Leaving(1, "return", 16)
    [] op = 205 -> Leaving(3, "call", 24)
    [] op = 217 -> Leaving(1, "reti", 16)
    [] op % 8 = 7 -> Restart
    [] op % 8 = 6 -> Immediate
    [] OTHER -> Unsupported

ArmsE0ToFF(op) ==
  CASE op \in {224, 240} -> Plain(2, 12)
    [] op \in {225, 241} -> Pop
    [] op \in {226, 242, 249} -> Plain(1, 8)
    [] op \in {229, 245} -> Push
    [] op = 232 -> Plain(2, 16)
    [] op = 233 -> Leaving(1, "indirect_jump", 4)
    [] op \in {234, 250} -> Plain(3, 16)
    [] op \in {243, 251} -> Plain(1, 4)
    [] op = 244 -> ConditionalCall
    [] op = 248 -> Plain(2, 12)
    [] op % 8 = 7 -> Restart
    [] op % 8 = 6 -> Immediate
    [] OTHER -> Unsupported

(* A CB instruction: memory operands cost more, a bit test least of them. *)
ExecutesCb(second) ==
  CASE second % 8 # 6 -> Plain(2, 8)
    [] second \div 64 = 1 -> Plain(2, 12)
    [] OTHER -> Plain(2, 16)

Executes(op, second) ==
  CASE op = 118 -> Halts(op)
    [] op < 32 -> Arms00To1F(op)
    [] op < 64 -> Arms20To3F(op)
    [] op < 128 -> LoadMatrix(op)
    [] op < 192 -> Families(op)
    [] op = 203 -> ExecutesCb(second)
    [] op < 224 -> ArmsC0ToDF(op)
    [] OTHER -> ArmsE0ToFF(op)

---------------------------------------------------------------------------
\* The decompiler: decode_instruction

(* What the decompiler keeps: whether the next instruction may follow, and   *)
(* where the target is read from.                                           *)
Said(len, flow, falls, target) == [len |-> len, flow |-> flow, falls |-> falls, target |-> target]
Straight(len) == Said(len, "none", TRUE, "nothing")
Invalid == Said(1, "invalid", FALSE, "nothing")

DecodesLow(op) ==
  CASE op = 8 -> Said(3, "none", TRUE, "word")
    [] op = 16 -> Said(2, "stop", TRUE, "nothing")
    [] op = 24 -> Said(2, "jump", FALSE, "offset")
    [] op \in {32, 40, 48, 56} -> Said(2, "jump_cond", TRUE, "offset")
    [] op % 16 = 1 -> Straight(3)
    [] op % 8 = 6 -> Straight(2)
    [] OTHER -> Straight(1)

DecodesMiddle(op) == IF op = 118 THEN Said(1, "halt", TRUE, "nothing") ELSE Straight(1)

DecodesReturns(op) ==
  CASE op \in {192, 200, 208, 216} -> Said(1, "return_cond", TRUE, "nothing")
    [] op = 201 -> Said(1, "return", FALSE, "nothing")
    [] op = 217 -> Said(1, "reti", FALSE, "nothing")

DecodesJumps(op) ==
  CASE op \in {194, 202, 210, 218} -> Said(3, "jump_cond", TRUE, "word")
    [] op = 195 -> Said(3, "jump", FALSE, "word")
    [] op = 233 -> Said(1, "indirect_jump", FALSE, "nothing")
    [] op \in {196, 204, 212, 220} -> Said(3, "call_cond", TRUE, "word")
    [] op = 205 -> Said(3, "call", TRUE, "word")
    [] op % 8 = 7 -> Said(1, "rst", TRUE, "vector")

DecodesCb == Straight(2)

(* Mutant of NoInstruction: two bytes of the D row taken for instructions. *)
SomeInstruction == {211, 227, 228, 235, 236, 237, 244, 252, 253}
NoInstruction == {211, 219, 221, 227, 228, 235, 236, 237, 244, 252, 253}

DecodesRest(op) ==
  CASE op \in {224, 240} -> Said(2, "none", TRUE, "page")
    [] op \in {234, 250} -> Said(3, "none", TRUE, "word")
    [] op \in {232, 248} \/ op % 8 = 6 -> Straight(2)
    [] OTHER -> Straight(1)

Decodes(op) ==
  CASE op < 64 -> DecodesLow(op)
    [] op < 192 -> DecodesMiddle(op)
    [] op \in NoInstruction -> Invalid
    [] op = 203 -> DecodesCb
    [] op \in {192, 200, 208, 216, 201, 217} -> DecodesReturns(op)
    [] op \in {194, 202, 210, 218, 195, 233, 196, 204, 212, 220, 205} \/ op % 8 = 7 -> DecodesJumps(op)
    [] OTHER -> DecodesRest(op)

---------------------------------------------------------------------------
\* Properties

(* The processor calls on F4; the decompiler knows it is no instruction. *)
ReadDifferently == {244}

Conditional == {"jump_cond", "call_cond", "return_cond"}
Final == {"jump", "indirect_jump", "return", "reti", "invalid"}

(* The two tables were written apart.  They agree on where an instruction    *)
(* ends and how it leaves; only a conditional one has two costs; and the      *)
(* decompiler goes on behind every instruction the processor may go on from. *)
DecoderAgrees(op, second) ==
  LET does == Executes(op, second)
      says == Decodes(op)
  IN op \notin ReadDifferently =>
       /\ says.len = does.len /\ says.flow = does.flow
       /\ (does.flow \in Conditional) = (does.idle # does.taken)
       /\ says.falls = (does.flow \notin Final)

(* The arms that cannot be reached cost what the ones in front of them cost. *)
LegacyAgrees(op) ==
  /\ op \in LegacyLoads \union {119} => LegacyLoad(op) = LoadMatrix(op)
  /\ op \in 128 .. 159 => LegacyAddSub(op) = Families(op)
  /\ op \in 160 .. 191 => LegacyLogic(op) = Families(op)
=============================================================================
