-------------------------------- MODULE Dma --------------------------------
(***************************************************************************)
(* The two transfer engines of a CGB (kokura-core lib.rs, dma.rs).  OAM    *)
(* DMA copies a page into OAM, a byte every few cycles.  HDMA copies       *)
(* blocks into VRAM: all at once in the control write, or one whenever the *)
(* picture enters HBlank.  Addresses of HDMA are in blocks of 16 bytes.    *)
(***************************************************************************)
EXTENDS Integers, Sequences

CONSTANTS
  Pages,         \* OAM DMA sources
  OamBytes,      \* bytes of OAM (160)
  StartDelay,    \* cycles from the write to FF46 to the first byte (4)
  ByteCycles,    \* cycles of a byte (4)
  AccumMax,      \* largest value of the cycle accumulator (255)
  Chunks,        \* cycles the devices may be advanced by at once
  SourceBlocks,  \* blocks of the address space (4096)
  VramBlocks,    \* blocks of a VRAM bank (512)
  MaxBlocks      \* most blocks of one transfer (128)

ASSUME DmaConstantsAssumption ==
  /\ OamBytes \in Nat \ {0} /\ StartDelay \in Nat \ {0} /\ ByteCycles \in Nat \ {0}
  /\ AccumMax \in Nat /\ Chunks \subseteq Nat \ {0}
  /\ \A c \in Chunks : c + ByteCycles - 1 =< AccumMax
  /\ SourceBlocks \in Nat \ {0} /\ VramBlocks \in Nat \ {0} /\ MaxBlocks \in Nat \ {0}
ASSUME PagesAssumption == "program" \notin Pages

VARIABLES
  oam_dma,   \* active, source, bytes_copied, cycle_accum, start_delay_cycles
  oam,       \* where each byte of OAM came from: <<page, offset>>
  regs,      \* hdma1..hdma4: source and destination as the program sees them
  hdma,      \* hdma_active, hblank mode, source, dest, blocks remaining and total
  hdma5,     \* what FF55 reads
  halted,    \* the CPU sleeps
  elapsed,   \* history: cycles since FF46 was written, Untimed after a load
  asked,     \* history: source, dest and blocks of the last transfer begun
  copied     \* history: its blocks so far, <<source, dest>> each

vars == <<oam_dma, oam, regs, hdma, hdma5, halted, elapsed, asked, copied>>
oamVars == <<oam_dma, oam, elapsed>>
hdmaVars == <<regs, hdma, hdma5, asked, copied>>

Untimed == -1
Slots == 0 .. OamBytes - 1
TransferCycles == StartDelay + ByteCycles * OamBytes
AtMost(a, b) == IF a =< b THEN a ELSE b

-----------------------------------------------------------------------------
Init ==
  /\ \E p \in Pages : oam_dma = [active |-> FALSE, source |-> p, bytes_copied |-> 0,
                                 cycle_accum |-> 0, start_delay_cycles |-> 0]
  /\ oam = [i \in Slots |-> <<"program", i>>]
  /\ regs = [source |-> SourceBlocks - 1, dest |-> VramBlocks - 1]
  /\ hdma = [active |-> FALSE, hblank_mode |-> FALSE, source |-> 0, dest |-> 0,
             remaining |-> 0, total |-> 0]
  /\ hdma5 = 2 * MaxBlocks - 1
  /\ halted = FALSE
  /\ elapsed = Untimed /\ asked = [source |-> 0, dest |-> 0, blocks |-> 0] /\ copied = <<>>

(* Mutant of WriteFF46. *)
WriteFF46KeepsProgress(p) ==
  /\ ~ halted
  /\ oam_dma' = [oam_dma EXCEPT !.active = TRUE, !.source = p, !.start_delay_cycles = StartDelay]
  /\ elapsed' = 0
  /\ UNCHANGED <<oam, hdmaVars, halted>>

(* Arms or restarts a transfer (a DMG drops the restart: its bus is taken). *)
WriteFF46(p) ==
  /\ ~ halted
  /\ oam_dma' = [active |-> TRUE, source |-> p, bytes_copied |-> 0, cycle_accum |-> 0,
                 start_delay_cycles |-> StartDelay]
  /\ elapsed' = 0
  /\ UNCHANGED <<oam, hdmaVars, halted>>

(* A write by the program; while a transfer runs it is dropped. *)
WriteOam(i) ==
  /\ ~ halted /\ ~ oam_dma.active
  /\ oam' = [oam EXCEPT ![i] = <<"program", i>>]
  /\ UNCHANGED <<oam_dma, elapsed, hdmaVars, halted>>

(* Mutant of Accumulated. *)
AccumulatedThroughDelay(d, c) == AtMost(d.cycle_accum + c, AccumMax)

(* The delay is used up first; what is left is narrowed and saturates. *)
Accumulated(d, c) ==
  LET left == IF c =< d.start_delay_cycles THEN 0 ELSE c - d.start_delay_cycles
  IN AtMost(d.cycle_accum + (left % (AccumMax + 1)), AccumMax)

BytesDue(d, c) == AtMost(Accumulated(d, c) \div ByteCycles, OamBytes - d.bytes_copied)

(* tick_dma *)
TickDma(c) ==
  LET d == oam_dma
      n == BytesDue(d, c)
      done == d.bytes_copied + n
  IN
  /\ oam_dma' =
       IF done >= OamBytes
       THEN [d EXCEPT !.active = FALSE, !.bytes_copied = 0, !.cycle_accum = 0,
                      !.start_delay_cycles = 0]
       ELSE [d EXCEPT !.bytes_copied = done,
                      !.cycle_accum = Accumulated(d, c) - n * ByteCycles,
                      !.start_delay_cycles = @ - AtMost(c, @)]
  /\ oam' = [i \in Slots |-> IF i \in d.bytes_copied .. done - 1 THEN <<d.source, i>> ELSE oam[i]]
  /\ elapsed' = IF elapsed = Untimed THEN Untimed ELSE elapsed + c

-----------------------------------------------------------------------------
(* FF51-FF54: a transfer under way has its own copy of the addresses. *)
WriteHdmaAddress ==
  /\ ~ halted
  /\ regs' \in [source : 0 .. SourceBlocks - 1, dest : 0 .. VramBlocks - 1]
  /\ UNCHANGED <<oamVars, hdma, hdma5, halted, asked, copied>>

(* Mutant of SyncHdmaRegisters. *)
SyncForgetsTheRest(h) ==
  /\ regs' = [source |-> h.source, dest |-> h.dest]
  /\ hdma5' = IF h.active THEN h.remaining - 1 ELSE 2 * MaxBlocks - 1

(* FF55 reads what is left, with the high bit once the transfer is over. *)
SyncHdmaRegisters(h) ==
  /\ regs' = [source |-> h.source, dest |-> h.dest]
  /\ hdma5' = IF h.active THEN h.remaining - 1
              ELSE IF h.remaining > 0 THEN MaxBlocks + h.remaining - 1
              ELSE 2 * MaxBlocks - 1

(* transfer_hdma_block, n times. *)
AfterBlocks(h, n) ==
  [h EXCEPT !.source = (@ + n) % SourceBlocks,
            !.dest = (@ + n) % VramBlocks,
            !.remaining = @ - n,
            !.active = h.remaining > n,
            !.hblank_mode = @ /\ h.remaining > n]

BlocksFrom(h, n) ==
  [k \in 1 .. n |-> <<(h.source + k - 1) % SourceBlocks, (h.dest + k - 1) % VramBlocks>>]

CancelHdma ==
  LET h == [hdma EXCEPT !.active = FALSE, !.hblank_mode = FALSE]
  IN
  /\ hdma' = h /\ SyncHdmaRegisters(h)
  /\ UNCHANGED <<asked, copied>>

(* A transfer outside HBlank is done before the write returns; the cycles  *)
(* it stalls the CPU for pass afterwards.                                  *)
StartHdma(hblank_mode, blocks) ==
  LET armed == [active |-> TRUE, hblank_mode |-> hblank_mode, source |-> regs.source,
                dest |-> regs.dest, remaining |-> blocks, total |-> blocks]
      h == IF hblank_mode THEN armed ELSE AfterBlocks(armed, blocks)
  IN
  /\ hdma' = h /\ SyncHdmaRegisters(h)
  /\ asked' = [source |-> regs.source, dest |-> regs.dest, blocks |-> blocks]
  /\ copied' = IF hblank_mode THEN <<>> ELSE BlocksFrom(armed, blocks)

IgnoreHdmaWrite ==
  /\ SyncHdmaRegisters(hdma)
  /\ UNCHANGED <<hdma, asked, copied>>

(* write_hdma_control *)
WriteFF55(hblank_mode, blocks) ==
  /\ ~ halted
  /\ IF hdma.active /\ hdma.hblank_mode
     THEN IF hblank_mode THEN IgnoreHdmaWrite ELSE CancelHdma
     ELSE StartHdma(hblank_mode, blocks)
  /\ UNCHANGED <<oamVars, halted>>

BlockDue == hdma.active /\ hdma.hblank_mode /\ ~ halted

(* tick_hdma_hblank *)
HdmaHBlank ==
  IF BlockDue
  THEN LET h == AfterBlocks(hdma, 1)
       IN /\ hdma' = h /\ SyncHdmaRegisters(h)
          /\ copied' = copied \o BlocksFrom(hdma, 1)
          /\ UNCHANGED asked
  ELSE UNCHANGED hdmaVars

-----------------------------------------------------------------------------
(* A chunk of advance_clocks, at whose end the picture may enter HBlank. *)
Advance(c) ==
  /\ IF oam_dma.active THEN TickDma(c) ELSE UNCHANGED oamVars
  /\ UNCHANGED <<hdmaVars, halted>>

AdvanceIntoHBlank(c) ==
  /\ IF oam_dma.active THEN TickDma(c) ELSE UNCHANGED oamVars
  /\ HdmaHBlank
  /\ UNCHANGED halted

(* HALT, and the request that wakes the CPU. *)
SleepOrWake ==
  /\ halted' = ~ halted
  /\ UNCHANGED <<oamVars, hdmaVars>>

(* A state file has no progress of OAM DMA: it begins again, undelayed. *)
SaveAndLoad ==
  /\ oam_dma' = [oam_dma EXCEPT !.bytes_copied = 0, !.cycle_accum = 0, !.start_delay_cycles = 0]
  /\ elapsed' = Untimed
  /\ UNCHANGED <<oam, hdmaVars, halted>>

Program ==
  \/ \E p \in Pages : WriteFF46(p)
  \/ \E i \in Slots : WriteOam(i)
  \/ WriteHdmaAddress
  \/ \E hblank_mode \in BOOLEAN, n \in 1 .. MaxBlocks : WriteFF55(hblank_mode, n)

HBlank == \E c \in Chunks : AdvanceIntoHBlank(c)

Next == Program \/ (\E c \in Chunks : Advance(c)) \/ HBlank \/ SleepOrWake \/ SaveAndLoad

Spec == Init /\ [][Next]_vars

(* The picture keeps coming to HBlank (the LCD stays on). *)
FairSpec == Spec /\ WF_vars(HBlank)

-----------------------------------------------------------------------------
TypeOK ==
  /\ oam_dma \in [active : BOOLEAN, source : Pages, bytes_copied : 0 .. OamBytes - 1,
                  cycle_accum : 0 .. ByteCycles - 1, start_delay_cycles : 0 .. StartDelay]
  /\ oam \in [Slots -> (Pages \cup {"program"}) \X Slots]
  /\ regs \in [source : 0 .. SourceBlocks - 1, dest : 0 .. VramBlocks - 1]
  /\ hdma \in [active : BOOLEAN, hblank_mode : BOOLEAN, source : 0 .. SourceBlocks - 1,
               dest : 0 .. VramBlocks - 1, remaining : 0 .. MaxBlocks, total : 0 .. MaxBlocks]
  /\ hdma5 \in 0 .. 2 * MaxBlocks - 1
  /\ halted \in BOOLEAN /\ elapsed \in Int

(* A transfer ends with all of OAM from the page last written to FF46,     *)
(* each byte in its place, however often it was restarted, whatever the    *)
(* program wrote meanwhile and in whatever chunks time passed              *)
(* (lib.rs:2134).                                                          *)
OamIsTheSource ==
  [][oam_dma.active /\ ~ oam_dma'.active =>
       \A i \in Slots : oam'[i] = <<oam_dma.source, i>>]_vars

(* It takes exactly its delay and its bytes, never sooner or later than    *)
(* the chunk in which the last byte falls due.                             *)
OamTakesItsTime ==
  elapsed # Untimed => (oam_dma.active <=> elapsed < TransferCycles)

(* A transfer's blocks go out in order and once each, from and to where it *)
(* was begun, whatever the program does to the address registers meanwhile *)
(* (lib.rs:2220).                                                          *)
BlocksInOrder ==
  /\ copied = [k \in 1 .. asked.blocks - hdma.remaining |->
                 <<(asked.source + k - 1) % SourceBlocks, (asked.dest + k - 1) % VramBlocks>>]
  /\ hdma.total = asked.blocks
  /\ hdma.active => hdma.remaining > 0 /\ hdma.hblank_mode

(* Blocks go out one per HBlank and none while the CPU sleeps; only a      *)
(* transfer outside HBlank sends them all with its control write.          *)
OneBlockPerHBlank ==
  [][copied' # copied /\ copied' # <<>> =>
       \/ Len(copied') = Len(copied) + 1 /\ ~ halted /\ HBlank
       \/ asked'.blocks = Len(copied') /\ ~ hdma'.active]_vars

(* A transfer cancelled and begun again, with the addresses left alone,    *)
(* goes on where it was cancelled (lib.rs:2197), and FF55 still tells how  *)
(* much of it was left.                                                    *)
CancelLeavesTheRest ==
  [][hdma.active /\ ~ hdma'.active /\ hdma'.remaining > 0 =>
       /\ regs' = [source |-> (asked.source + Len(copied)) % SourceBlocks,
                   dest |-> (asked.dest + Len(copied)) % VramBlocks]
       /\ hdma5' = MaxBlocks + asked.blocks - Len(copied) - 1]_vars

(* Blocks go out in order, one at an HBlank, and a cancelled transfer can  *)
(* go on where it was.                                                     *)
BlocksArrive == []BlocksInOrder /\ OneBlockPerHBlank /\ CancelLeavesTheRest

(* A transfer that is not cancelled completes, unless the CPU sleeps for   *)
(* good.                                                                   *)
HdmaCompletes == <>[](~ halted) => (hdma.active ~> ~ hdma.active)
=============================================================================
