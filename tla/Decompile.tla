----------------------------- MODULE Decompile -----------------------------
(***************************************************************************)
(* The static analysis of a ROM beside the processor that runs it.  Roots    *)
(* are taken from a queue, the instructions reachable from each are walked,   *)
(* calls add roots, and each function's instructions are split into blocks.   *)
(* Then the processor starts at a root, with any flags, any interrupts and a   *)
(* stack only calls and returns use.  One bank; names and texts are left out. *)
(***************************************************************************)
EXTENDS Opcodes, Sequences, FiniteSets

CONSTANTS
  RomSize,   \* bytes of the bank: addresses 0 .. RomSize - 1
  Roms,      \* contents of the bank looked at
  MinRun,    \* bytes in a row that count as data, 4 in the source
  Vectors,   \* roots the analysis starts with: the reset and interrupt entries
  MaxStack   \* deepest nesting of calls

ASSUME BankAssumption ==
  /\ RomSize \in Nat /\ RomSize < 256 /\ Roms \subseteq [0 .. RomSize - 1 -> Opcode]
  /\ Vectors \subseteq 0 .. RomSize - 1 /\ MaxStack \in Nat /\ MinRun \in Nat

Address == 0 .. RomSize - 1

VARIABLES
  rom,       \* the bank's bytes
  roots,     \* addresses functions are known to start at
  pending,   \* roots to be analysed, in order
  analyzed,  \* functions analysed so far: start -> instruction starts
  recovery,  \* the rounds that look for functions jumps lead to
  blocks,    \* blocks of the function looked at, in address order
  phase,     \* "analysis", "blocks" or "run"
  pc, stack, \* the processor
  halt_bug,  \* the next fetch leaves pc where it is
  unread     \* history: the processor left the instructions a listing can show

vars == <<rom, roots, pending, analyzed, recovery, blocks, phase, pc, stack, halt_bug, unread>>

---------------------------------------------------------------------------
\* The walk of one function

(* A byte the file lacks is read as zero. *)
ByteAt(a) == IF a \in Address THEN rom[a] ELSE 0
Ins(a) == Decodes(ByteAt(a))
Word(a) == ByteAt(a) + 256 * ByteAt(a + 1)
Signed(b) == IF b >= 128 THEN b - 256 ELSE b

TargetOf(a) ==
  CASE Ins(a).target = "word" -> Word(a + 1)
    [] Ins(a).target = "offset" -> (a + 2 + Signed(ByteAt(a + 1))) % 65536
    [] Ins(a).target = "page" -> 65280 + ByteAt(a + 1)
    [] Ins(a).target = "vector" -> 8 * ((ByteAt(a) \div 8) % 8)
    [] OTHER -> -1

Calls == {"call", "call_cond", "rst"}
Jumps == {"jump", "jump_cond"}
HasTarget(a) == Ins(a).target # "nothing"

(* Mutant of GoesOn: the branch not taken is not followed. *)
GoesOnWhenPlain(a) == Ins(a).falls /\ ~ HasTarget(a)

(* Behind an instruction with a target only jumps and calls go on: the walk   *)
(* ends at a load or store of a fixed address.                               *)
GoesOn(a) == Ins(a).falls /\ (HasTarget(a) => Ins(a).flow \in Calls \union Jumps)

After(a) == a + Ins(a).len

Queued(a, known) ==
  (IF GoesOn(a) THEN {After(a)} ELSE {})
    \union (IF Ins(a).flow \in Jumps /\ TargetOf(a) \notin known THEN {TargetOf(a)} ELSE {})

(* Instruction starts reachable from a start without entering another root.  *)
Walk(start, known) ==
  LET reach[n \in 0 .. RomSize] ==
        IF n = 0 THEN {start}
        ELSE reach[n - 1]
               \union {b \in UNION {Queued(a, known) : a \in reach[n - 1]} : b \in Address /\ b \notin known}
  IN reach[RomSize]

CallTargets(starts) ==
  {TargetOf(a) : a \in {b \in starts : Ins(b).flow \in Calls}} \intersect Address

(* Any order of discovery will do for those found in one function. *)
InOrder(S) == CHOOSE s \in [1 .. Cardinality(S) -> S] : \A i, j \in DOMAIN s : i < j => s[i] < s[j]

NoRound == [round |-> 0, added |-> TRUE, left |-> <<>>, ranges |-> {}, incoming |-> {}]

Init ==
  /\ rom \in Roms
  /\ roots = Vectors /\ pending = InOrder(Vectors)
  /\ analyzed = <<>> /\ recovery = NoRound /\ blocks = <<>> /\ phase = "analysis"
  /\ pc = 0 /\ stack = <<>> /\ halt_bug = FALSE /\ unread = FALSE

(* The next root: a function not seen yet is walked and its callees queued.  *)
AnalyzeNext ==
  /\ phase = "analysis" /\ pending # <<>>
  /\ LET start == Head(pending)
         starts == Walk(start, roots)
         found == {t \in CallTargets(starts) : t \notin DOMAIN analyzed}
     IN IF start \in DOMAIN analyzed
        THEN pending' = Tail(pending) /\ UNCHANGED <<roots, analyzed>>
        ELSE /\ analyzed' = [f \in DOMAIN analyzed \union {start} |->
                               IF f = start THEN starts ELSE analyzed[f]]
             /\ roots' = roots \union found
             /\ pending' = Tail(pending) \o InOrder(found)
  /\ UNCHANGED <<rom, recovery, blocks, phase, pc, stack, halt_bug, unread>>

---------------------------------------------------------------------------
\* Functions recovered from jumps, in at most four rounds

(* References to an address, counted once for each function that holds them. *)
References(t, flows) ==
  {<<f, a>> \in (DOMAIN analyzed) \X Address :
     a \in analyzed[f] /\ HasTarget(a) /\ TargetOf(a) = t /\ Ins(a).flow \in flows}

EntryBytes == {33, 197, 205, 213, 229, 245, 248}
LooksLikeEntry(t) == t + 2 < RomSize /\ rom[t] \in EntryBytes  \* three bytes must be there

Seeds ==
  {t \in Address \ DOMAIN analyzed :
     \/ References(t, Calls) # {}
     \/ Cardinality(References(t, Jumps)) >= 2 /\ LooksLikeEntry(t)}

FunctionEnd(starts) == LET ends == {After(a) : a \in starts} IN CHOOSE e \in ends : \A o \in ends : o =< e

BeginRound ==
  /\ phase = "analysis" /\ pending = <<>>
  /\ recovery.left = <<>> /\ recovery.added /\ recovery.round < 4
  /\ recovery' = [round |-> recovery.round + 1, added |-> FALSE, left |-> InOrder(Seeds),
                  ranges |-> {<<f, FunctionEnd(analyzed[f])>> : f \in DOMAIN analyzed},
                  incoming |-> {t \in Address : References(t, Calls \union Jumps \union {"none"}) # {}}]
  /\ UNCHANGED <<rom, roots, pending, analyzed, blocks, phase, pc, stack, halt_bug, unread>>

Terminal == {"return", "return_cond", "reti", "jump", "indirect_jump"}

(* Refused: what overlaps a function that was there when the round began, has  *)
(* more than a quarter of invalid bytes, or has neither an end nor the look of  *)
(* an entry.  The look is that of its lowest instruction.                    *)
Promoted(start, starts) ==
  /\ \A r \in recovery.ranges : start >= r[2] \/ FunctionEnd(starts) =< r[1] \/ start = r[1]
  /\ 4 * Cardinality({a \in starts : Ins(a).flow = "invalid"}) =< Cardinality(starts)
  /\ start \in recovery.incoming
  /\ \/ \E a \in starts : Ins(a).flow \in Terminal
     \/ rom[CHOOSE a \in starts : \A b \in starts : a =< b] \in EntryBytes

RecoverNext ==
  /\ phase = "analysis" /\ recovery.left # <<>>
  /\ LET start == Head(recovery.left)
         starts == Walk(start, roots)
         promoted == Promoted(start, starts)
     IN /\ analyzed' = IF ~ promoted THEN analyzed
                       ELSE [f \in DOMAIN analyzed \union {start} |->
                               IF f = start THEN starts ELSE analyzed[f]]
        /\ roots' = IF promoted THEN roots \union {start} ELSE roots
        /\ recovery' = [recovery EXCEPT !.left = Tail(@), !.added = @ \/ promoted]
  /\ UNCHANGED <<rom, pending, blocks, phase, pc, stack, halt_bug, unread>>

Recovered ==
  pending = <<>> /\ recovery.left = <<>> /\ recovery.round > 0 /\ (recovery.added => recovery.round = 4)

(* What is left of the bank in runs long enough is called data. *)
CodeBytes == UNION {UNION {a .. After(a) - 1 : a \in analyzed[f]} : f \in DOMAIN analyzed}
DataRanges ==
  {r \in Address \X Address :
     /\ r[1] + MinRun =< r[2] + 1
     /\ \A x \in r[1] .. r[2] : x \notin CodeBytes
     /\ r[1] = 0 \/ r[1] - 1 \in CodeBytes
     /\ r[2] = RomSize - 1 \/ r[2] + 1 \in CodeBytes}

---------------------------------------------------------------------------
\* The blocks of one function

(* A block begins at the function's start, behind and at the target of a      *)
(* branch or a call that was walked.                                         *)
Leaders(start, ins) ==
  {start} \union UNION {
    ({After(a)} \intersect (IF Ins(a).falls THEN ins ELSE {})) \union ({TargetOf(a)} \intersect ins) :
      a \in {b \in ins : Ins(b).flow \in Calls \union Jumps}}

Ends(a) == ~ Ins(a).falls \/ Ins(a).flow \in {"jump", "return", "return_cond", "reti", "indirect_jump"}

(* Up to the next leader or the first instruction that ends a block. *)
BlockFrom(leader, leaders, ins) ==
  {a \in ins : /\ a >= leader
               /\ ~ \E l \in leaders : leader < l /\ l =< a
               /\ ~ \E b \in ins : leader =< b /\ b < a /\ Ends(b)}

Blocks(start, ins) ==
  LET leaders == Leaders(start, ins)
      ordered == InOrder(leaders)
  IN [i \in 1 .. Len(ordered) |-> BlockFrom(ordered[i], leaders, ins)]

Last(S) == CHOOSE a \in S : \A b \in S : b =< a
First(S) == CHOOSE a \in S : \A b \in S : a =< b

(* Edges go to the block of a jump's target and, where the block runs on, to  *)
(* the next block in address order; none leave a conditional return.         *)
Successors(bs, i) ==
  LET a == Last(bs[i])
      at == {j \in DOMAIN bs : First(bs[j]) = TargetOf(a)}
      next == {i + 1} \intersect DOMAIN bs
      flow == Ins(a).flow
  IN CASE flow = "jump" -> at
       [] flow = "jump_cond" -> at \union next
       [] flow \in {"return", "return_cond", "reti", "indirect_jump"} -> {}
       [] OTHER -> next

(* Dominators: the largest sets that agree with their predecessors', block 1  *)
(* alone being dominated by itself only.                                     *)
Common(sets) == {d \in UNION sets : \A s \in sets : d \in s}

Dominators(bs) ==
  LET n == Len(bs)
      preds == [i \in 1 .. n |-> {j \in 1 .. n : i \in Successors(bs, j)}]
      dom[k \in 0 .. n * n] ==
        IF k = 0 THEN [i \in 1 .. n |-> IF i = 1 THEN {1} ELSE 1 .. n]
        ELSE [i \in 1 .. n |->
               IF i = 1 \/ preds[i] = {} THEN dom[k - 1][i]
               ELSE {i} \union Common({dom[k - 1][j] : j \in preds[i]})]
  IN dom[n * n]

(* The same backwards, from the blocks without successors. *)
PostDominators(bs) ==
  LET n == Len(bs)
      dom[k \in 0 .. n * n] ==
        IF k = 0 THEN [i \in 1 .. n |-> IF Successors(bs, i) = {} THEN {i} ELSE 1 .. n]
        ELSE [i \in 1 .. n |->
               IF Successors(bs, i) = {} THEN dom[k - 1][i]
               ELSE {i} \union Common({dom[k - 1][j] : j \in Successors(bs, i)})]
  IN dom[n * n]

(* The marks put on blocks, in block order: a break and a continue need a      *)
(* header marked already.                                                   *)
Edges(bs) == {<<i, j>> \in (DOMAIN bs) \X (DOMAIN bs) : j \in Successors(bs, i)}
BackEdges(bs) == {e \in Edges(bs) : e[2] \in Dominators(bs)[e[1]]}
LoopHeaders(bs, upto) == {e[2] : e \in {f \in BackEdges(bs) : f[1] =< upto}}
Breaks(bs) ==
  {e[1] : e \in {f \in Edges(bs) : f[2] \in LoopHeaders(bs, f[1]) \ PostDominators(bs)[f[1]]}}
IfElseHeaders(bs) ==
  {i \in DOMAIN bs : Cardinality(Successors(bs, i)) = 2
     /\ Common({PostDominators(bs)[j] : j \in Successors(bs, i)}) \ {i} # {}}

BuildBlocks ==
  /\ phase = "analysis" /\ Recovered
  /\ \E start \in DOMAIN analyzed : blocks' = Blocks(start, analyzed[start])
  /\ phase' = "blocks"
  /\ UNCHANGED <<rom, roots, pending, analyzed, recovery, pc, stack, halt_bug, unread>>

---------------------------------------------------------------------------
\* The processor

Run ==
  /\ phase = "analysis" /\ Recovered
  /\ phase' = "run" /\ \E v \in Vectors : pc' = v
  /\ UNCHANGED <<rom, roots, pending, analyzed, recovery, blocks, stack, halt_bug, unread>>

(* Where the processor goes, its operands read from a place on. *)
Destination(op, operand, next) ==
  CASE op \in {24, 32, 40, 48, 56} -> (next + Signed(ByteAt(operand))) % 65536
    [] op % 8 = 7 -> op - 199
    [] OTHER -> Word(operand)

(* One instruction, any flags.  Behind a HALT that found a request and IME off *)
(* the opcode's own byte is its first operand.  What leaves the bank, returns   *)
(* to no call or jumps through HL is not followed.                           *)
Step ==
  LET op == ByteAt(pc)
      operand == IF halt_bug THEN pc ELSE pc + 1
      does == Executes(op, ByteAt(operand))
      next == operand + does.len - 1
      on == {next} \X {stack}
      jump == {Destination(op, operand, next)} \X {stack}
      call == {Destination(op, operand, next)} \X {Append(stack, next)}
      return == IF stack = <<>> THEN {} ELSE {<<stack[Len(stack)], SubSeq(stack, 1, Len(stack) - 1)>>}
      to == CASE does.flow = "jump" -> jump
              [] does.flow = "jump_cond" -> jump \union on
              [] does.flow \in {"call", "rst"} -> call
              [] does.flow = "call_cond" -> call \union on
              [] does.flow \in {"return", "reti"} -> return
              [] does.flow = "return_cond" -> return \union on
              [] does.flow \in {"indirect_jump", "invalid"} -> {}
              [] OTHER -> on
  IN /\ phase = "run"
     /\ \E t \in to : t[1] \in Address /\ Len(t[2]) =< MaxStack /\ pc' = t[1] /\ stack' = t[2]
     /\ halt_bug' \in (IF does.flow = "halt" THEN {FALSE, TRUE} ELSE {FALSE})
     /\ unread' = (unread \/ op \in ReadDifferently \/ (HasTarget(pc) /\ does.flow = "none")
                          \/ (halt_bug /\ does.len > 1))
     /\ UNCHANGED <<rom, roots, pending, analyzed, recovery, blocks, phase>>

(* An interrupt between two instructions; its entry inherits the HALT's bug. *)
Interrupt ==
  /\ phase = "run" /\ Len(stack) < MaxStack
  /\ \E v \in Vectors : pc' = v
  /\ stack' = Append(stack, pc)
  /\ UNCHANGED <<rom, roots, pending, analyzed, recovery, blocks, phase, halt_bug, unread>>

Next == AnalyzeNext \/ BeginRound \/ RecoverNext \/ BuildBlocks \/ Run \/ Step \/ Interrupt

Spec == Init /\ [][Next]_vars

---------------------------------------------------------------------------
\* Properties

Decoded == UNION {analyzed[f] : f \in DOMAIN analyzed}

(* Whatever the processor executes, in a program that overlaps its            *)
(* instructions as it likes, the decompiler has decoded and does not list as    *)
(* data: each function ends its walk only where another one takes over, also    *)
(* when recovered functions become roots.  Not behind a load or store of a      *)
(* fixed address, where the walk ends too early, nor behind an instruction of   *)
(* several bytes that HALT's bug made read its opcode as an operand: the last   *)
(* operand is executed then, and no listing shows it.  One of a single byte is  *)
(* executed twice and excludes nothing.                                      *)
ExecutedIsDecoded ==
  phase = "run" /\ ~ unread =>
    pc \in Decoded /\ \A r \in DataRanges : pc \notin r[1] .. r[2]

Reaches(bs, from, without) ==
  LET reach[n \in 0 .. Len(bs)] ==
        IF n = 0 THEN {from} \ without
        ELSE reach[n - 1] \union (UNION {Successors(bs, i) : i \in reach[n - 1]} \ without)
  IN reach[Len(bs)]

(* The iteration computes dominators: d is in the set of a block the first    *)
(* one reaches exactly when there is no way to it around d; likewise backwards, *)
(* for the blocks from which an exit is reached.  So a loop marked in code the  *)
(* first block reaches is a cycle, what is called a break may leave it, and the *)
(* two arms of an if-else have a block no way out avoids.                    *)
MarksFollowPaths ==
  phase = "blocks" =>
    LET n == DOMAIN blocks
        dom == Dominators(blocks)
        post == PostDominators(blocks)
        exits == {i \in n : Successors(blocks, i) = {}}
        reached == Reaches(blocks, 1, {})
        leaving == {i \in n : Reaches(blocks, i, {}) \intersect exits # {}}
        Avoids(b, d) == Reaches(blocks, b, {d}) \intersect exits # {}
    IN /\ \A b \in reached : dom[b] = {d \in n : b \notin Reaches(blocks, 1, {d})}
       /\ \A b \in leaving : post[b] = {d \in n : ~ Avoids(b, d)}
       /\ \A e \in BackEdges(blocks) : e[1] \in reached => e[1] \in Reaches(blocks, e[2], {})
       /\ \A b \in Breaks(blocks) \intersect leaving :
            \E h \in LoopHeaders(blocks, b) : h \in Successors(blocks, b) /\ Avoids(b, h)
       /\ \A i \in IfElseHeaders(blocks) :
            Successors(blocks, i) \subseteq leaving =>
              \E d \in n \ {i} : \A j \in Successors(blocks, i) : ~ Avoids(j, d)
=============================================================================
