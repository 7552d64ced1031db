---------------------------- MODULE DevicesProofs ----------------------------
(***************************************************************************)
(* Proofs about the devices that MC_Devices checks on small instances, for *)
(* every size of theirs.  OAM DMA delivers the page it was last pointed at *)
(* and takes its time for it, HDMA sends its blocks in order, and both     *)
(* keep their counters in range, for every delay, byte time and chunk; the *)
(* timer's reload window, interrupt and periods; the frame clock that      *)
(* never leaves the picture; the serial port's bit time and interrupt; the *)
(* sound unit's channels, sweep, noise and queue, and its time, cut as it  *)
(* may be.                                                                 *)
(***************************************************************************)
EXTENDS MC_Devices, Iteration, SequenceTheorems, TLAPS

(* Whole bytes in a count of cycles, and what is left of the count. *)
LEMMA WholeBytes ==
  ASSUME NEW a \in Nat, NEW b \in Nat \ {0}
  PROVE  /\ a \div b \in Nat
         /\ (a \div b) * b =< a
BY SMT

(* Taking some of the whole bytes leaves no debt. *)
LEMMA NoDebt ==
  ASSUME NEW a \in Nat, NEW b \in Nat \ {0}, NEW n \in Nat, n =< a \div b
  PROVE  a - n * b \in Nat
<1>1. a \div b \in Nat /\ (a \div b) * b =< a  BY WholeBytes
<1> DEFINE q == a \div b
<1>2. q \in Nat /\ q * b =< a /\ n =< q  BY <1>1
<1> HIDE DEF q
<1>3. q - n \in Nat  BY <1>2
<1>4. (q - n) * b >= 0  BY <1>3, SMT
<1>5. (q - n) * b = q * b - n * b  BY <1>2, SMT
<1>6. n * b \in Int /\ q * b \in Int  BY <1>2, SMT
<1> QED BY <1>2, <1>4, <1>5, <1>6

-----------------------------------------------------------------------------
(* The progress of a transfer is in range and behind it lies a copy of the *)
(* page: what restarts, other writes and chunks must keep for the last     *)
(* byte to complete a whole page.                                          *)
Progress ==
  /\ oam_dma \in [active : BOOLEAN, source : Pages, bytes_copied : Nat,
                  cycle_accum : Nat, start_delay_cycles : Nat]
  /\ oam_dma.bytes_copied < OamBytes
  /\ DOMAIN oam = Slots

Prefix ==
  oam_dma.active =>
    \A i \in Slots : i < oam_dma.bytes_copied => oam[i] = <<oam_dma.source, i>>

OamInv == Progress /\ Prefix

(* The accumulator stays a count, and no more bytes fall due than are left. *)
LEMMA DueBytes ==
  ASSUME Progress, NEW c \in Chunks
  PROVE  /\ Accumulated(oam_dma, c) \in Nat
         /\ BytesDue(oam_dma, c) \in Nat
         /\ BytesDue(oam_dma, c) =< Accumulated(oam_dma, c) \div ByteCycles
         /\ oam_dma.bytes_copied + BytesDue(oam_dma, c) =< OamBytes
<1> USE DmaConstantsAssumption
<1>1. /\ oam_dma.cycle_accum \in Nat /\ oam_dma.start_delay_cycles \in Nat
      /\ oam_dma.bytes_copied \in Nat /\ oam_dma.bytes_copied < OamBytes
      /\ c \in Nat
  BY DEF Progress
<1> DEFINE left == IF c =< oam_dma.start_delay_cycles THEN 0 ELSE c - oam_dma.start_delay_cycles
<1>2. left \in Nat  BY <1>1
<1>3. left % (AccumMax + 1) \in Nat  BY <1>2, SMT
<1>4. Accumulated(oam_dma, c) \in Nat  BY <1>1, <1>3 DEF Accumulated, AtMost
<1>5. Accumulated(oam_dma, c) \div ByteCycles \in Nat  BY <1>4, WholeBytes
<1> QED BY <1>1, <1>4, <1>5 DEF BytesDue, AtMost

(* A tick extends the copy, and finishes only with the whole page. *)
LEMMA TickExtends ==
  ASSUME OamInv, oam_dma.active, NEW c \in Chunks, TickDma(c)
  PROVE  /\ OamInv'
         /\ ~ oam_dma'.active => \A i \in Slots : oam'[i] = <<oam_dma.source, i>>
<1> USE DmaConstantsAssumption
<1> DEFINE n == BytesDue(oam_dma, c)
           done == oam_dma.bytes_copied + n
           accum == Accumulated(oam_dma, c)
<1>1. /\ oam_dma \in [active : BOOLEAN, source : Pages, bytes_copied : Nat,
                       cycle_accum : Nat, start_delay_cycles : Nat]
      /\ oam_dma.bytes_copied < OamBytes
      /\ \A i \in Slots : i < oam_dma.bytes_copied => oam[i] = <<oam_dma.source, i>>
  BY DEF OamInv, Progress, Prefix
<1>2. n \in Nat /\ done \in Nat /\ done =< OamBytes
  BY <1>1, DueBytes DEF OamInv
<1>3. accum - n * ByteCycles \in Nat
  BY <1>1, DueBytes, NoDebt DEF OamInv
<1>4. \A i \in Slots : i < done => oam'[i] = <<oam_dma.source, i>>
  <2> SUFFICES ASSUME NEW i \in Slots, i < done PROVE oam'[i] = <<oam_dma.source, i>>
    OBVIOUS
  <2>1. oam'[i] = IF i \in oam_dma.bytes_copied .. done - 1
                  THEN <<oam_dma.source, i>> ELSE oam[i]
    BY DEF TickDma
  <2>2. i \in Nat  BY DEF Slots
  <2> HIDE DEF done
  <2>3. CASE i < oam_dma.bytes_copied
    <3>1. i \notin oam_dma.bytes_copied .. done - 1  BY <1>1, <2>2, <2>3
    <3> QED BY <1>1, <2>1, <2>3, <3>1
  <2>4. CASE i >= oam_dma.bytes_copied
    <3>1. i \in oam_dma.bytes_copied .. done - 1  BY <1>1, <1>2, <2>2, <2>4
    <3> QED BY <2>1, <3>1
  <2> QED BY <1>1, <2>2, <2>3, <2>4
<1>5. DOMAIN oam' = Slots  BY DEF TickDma
<1>6. oam_dma' = IF done >= OamBytes
                 THEN [oam_dma EXCEPT !.active = FALSE, !.bytes_copied = 0, !.cycle_accum = 0,
                                      !.start_delay_cycles = 0]
                 ELSE [oam_dma EXCEPT !.bytes_copied = done,
                                      !.cycle_accum = accum - n * ByteCycles,
                                      !.start_delay_cycles = @ - AtMost(c, @)]
  BY DEF TickDma
<1>7. oam_dma.start_delay_cycles - AtMost(c, oam_dma.start_delay_cycles) \in Nat
  BY <1>1 DEF AtMost
<1> HIDE DEF n, done, accum
<1>8. CASE done >= OamBytes
  <2>1. oam_dma' = [oam_dma EXCEPT !.active = FALSE, !.bytes_copied = 0, !.cycle_accum = 0,
                                   !.start_delay_cycles = 0]
    BY <1>6, <1>8
  <2>2. Progress'
    <3>1. oam_dma' \in [active : BOOLEAN, source : Pages, bytes_copied : Nat,
                        cycle_accum : Nat, start_delay_cycles : Nat]
      BY <1>1, <2>1
    <3>2. oam_dma'.bytes_copied < OamBytes  BY <1>1, <2>1
    <3> QED BY <1>5, <3>1, <3>2 DEF Progress, Slots
  <2>3. ~ oam_dma'.active  BY <1>1, <2>1
  <2>4. \A i \in Slots : i < done  BY <1>2, <1>8 DEF Slots
  <2> QED BY <1>4, <2>2, <2>3, <2>4 DEF OamInv, Prefix
<1>9. CASE ~ (done >= OamBytes)
  <2>1. oam_dma' = [oam_dma EXCEPT !.bytes_copied = done,
                                   !.cycle_accum = accum - n * ByteCycles,
                                   !.start_delay_cycles = @ - AtMost(c, @)]
    BY <1>6, <1>9
  <2>2. Progress'
    <3>1. oam_dma' \in [active : BOOLEAN, source : Pages, bytes_copied : Nat,
                        cycle_accum : Nat, start_delay_cycles : Nat]
      BY <1>1, <1>2, <1>3, <1>7, <2>1
    <3>2. oam_dma'.bytes_copied < OamBytes  BY <1>1, <1>2, <1>9, <2>1
    <3> QED BY <1>5, <3>1, <3>2 DEF Progress, Slots
  <2>3. oam_dma'.active /\ oam_dma'.bytes_copied = done /\ oam_dma'.source = oam_dma.source
    BY <1>1, <2>1
  <2> QED BY <1>4, <2>2, <2>3 DEF OamInv, Prefix
<1> QED BY <1>8, <1>9

(* What a tick, or the lack of one, makes of the invariant. *)
LEMMA ClockKeeps ==
  ASSUME OamInv, NEW c \in Chunks,
         IF oam_dma.active THEN TickDma(c) ELSE UNCHANGED oamVars
  PROVE  /\ OamInv'
         /\ oam_dma.active /\ ~ oam_dma'.active =>
              \A i \in Slots : oam'[i] = <<oam_dma.source, i>>
<1>1. CASE oam_dma.active  BY <1>1, TickExtends
<1>2. CASE ~ oam_dma.active
  <2>1. UNCHANGED <<oam_dma, oam>>  BY <1>2 DEF oamVars
  <2> QED BY <1>2, <2>1 DEF OamInv, Progress, Prefix
<1> QED BY <1>1, <1>2

(* A step keeps the invariant, and ends a transfer only with the page. *)
LEMMA StepKeeps ==
  ASSUME OamInv, [Next]_vars
  PROVE  /\ OamInv'
         /\ oam_dma.active /\ ~ oam_dma'.active =>
              \A i \in Slots : oam'[i] = <<oam_dma.source, i>>
<1> USE DmaConstantsAssumption
<1> DEFINE Goal == /\ OamInv'
                   /\ oam_dma.active /\ ~ oam_dma'.active =>
                        \A i \in Slots : oam'[i] = <<oam_dma.source, i>>
<1>0. /\ oam_dma \in [active : BOOLEAN, source : Pages, bytes_copied : Nat,
                       cycle_accum : Nat, start_delay_cycles : Nat]
      /\ oam_dma.bytes_copied < OamBytes /\ DOMAIN oam = Slots
  BY DEF OamInv, Progress
<1>1. ASSUME UNCHANGED <<oam_dma, oam>> PROVE Goal
  BY <1>1 DEF OamInv, Progress, Prefix
<1>2. ASSUME NEW p \in Pages, WriteFF46(p) PROVE Goal
  <2>1. oam_dma' = [active |-> TRUE, source |-> p, bytes_copied |-> 0, cycle_accum |-> 0,
                    start_delay_cycles |-> StartDelay] /\ oam' = oam
    BY <1>2 DEF WriteFF46
  <2>2. Progress'  BY <1>0, <2>1 DEF Progress, Slots
  <2>3. Prefix'  BY <2>1 DEF Prefix, Slots
  <2> QED BY <2>1, <2>2, <2>3 DEF OamInv
<1>3. ASSUME NEW i \in Slots, WriteOam(i) PROVE Goal
  <2>1. ~ oam_dma.active /\ oam_dma' = oam_dma /\ DOMAIN oam' = DOMAIN oam
    BY <1>3 DEF WriteOam
  <2> QED BY <1>0, <2>1 DEF OamInv, Progress, Prefix, Slots
<1>4. ASSUME NEW c \in Chunks, Advance(c) PROVE Goal
  BY <1>4, ClockKeeps DEF Advance
<1>5. ASSUME NEW c \in Chunks, AdvanceIntoHBlank(c) PROVE Goal
  BY <1>5, ClockKeeps DEF AdvanceIntoHBlank
<1>6. ASSUME SaveAndLoad PROVE Goal
  <2>1. oam_dma' = [oam_dma EXCEPT !.bytes_copied = 0, !.cycle_accum = 0,
                                   !.start_delay_cycles = 0] /\ oam' = oam
    BY <1>6 DEF SaveAndLoad
  <2>2. oam_dma'.active = oam_dma.active /\ oam_dma'.bytes_copied = 0
    BY <1>0, <2>1
  <2>3. Progress'
    <3>1. oam_dma' \in [active : BOOLEAN, source : Pages, bytes_copied : Nat,
                        cycle_accum : Nat, start_delay_cycles : Nat]
      BY <1>0, <2>1
    <3> QED BY <1>0, <2>1, <2>2, <3>1, SMTT(90) DEF Progress, Slots
  <2>4. Prefix'  BY <2>2 DEF Prefix, Slots
  <2> QED BY <2>2, <2>3, <2>4 DEF OamInv
<1>7. CASE WriteHdmaAddress  BY <1>1, <1>7 DEF WriteHdmaAddress, oamVars
<1>8. CASE \E hblank_mode \in BOOLEAN, n \in 1 .. MaxBlocks : WriteFF55(hblank_mode, n)
  BY <1>1, <1>8 DEF WriteFF55, oamVars
<1>9. CASE SleepOrWake  BY <1>1, <1>9 DEF SleepOrWake, oamVars
<1>10. CASE UNCHANGED vars  BY <1>1, <1>10 DEF vars
<1> QED BY <1>2, <1>3, <1>4, <1>5, <1>6, <1>7, <1>8, <1>9, <1>10 DEF Next, Program, HBlank

(* OAM DMA is right whatever the program, the clock and the host do in     *)
(* between: it ends with all of OAM from the page it was last told         *)
(* (lib.rs:2134).                                                          *)
THEOREM WholePageCopied == Spec => OamIsTheSource
<1>1. Init => OamInv
  <2> SUFFICES ASSUME Init PROVE OamInv
    OBVIOUS
  <2> USE DmaConstantsAssumption
  <2>1. PICK p \in Pages : oam_dma = [active |-> FALSE, source |-> p, bytes_copied |-> 0,
                                     cycle_accum |-> 0, start_delay_cycles |-> 0]
    BY DEF Init
  <2>2. DOMAIN oam = Slots  BY DEF Init
  <2> QED BY <2>1, <2>2 DEF OamInv, Progress, Prefix, Slots
<1>2. OamInv /\ [Next]_vars => OamInv'
  BY StepKeeps
<1>3. OamInv /\ [Next]_vars =>
        [oam_dma.active /\ ~ oam_dma'.active =>
           \A i \in Slots : oam'[i] = <<oam_dma.source, i>>]_vars
  BY StepKeeps
<1> QED BY <1>1, <1>2, <1>3, PTL DEF Spec, OamIsTheSource

-----------------------------------------------------------------------------
(* An armed transfer has blocks left; with it the ranges are inductive.    *)
TInv == TypeOK /\ (hdma.active => hdma.remaining > 0)

OamTypes ==
  /\ oam_dma \in [active : BOOLEAN, source : Pages, bytes_copied : 0 .. OamBytes - 1,
                  cycle_accum : 0 .. ByteCycles - 1, start_delay_cycles : 0 .. StartDelay]
  /\ oam \in [Slots -> (Pages \cup {"program"}) \X Slots]
  /\ elapsed \in Int

Hdmas == [active : BOOLEAN, hblank_mode : BOOLEAN, source : 0 .. SourceBlocks - 1,
          dest : 0 .. VramBlocks - 1, remaining : 0 .. MaxBlocks, total : 0 .. MaxBlocks]

HdmaTypes ==
  /\ regs \in [source : 0 .. SourceBlocks - 1, dest : 0 .. VramBlocks - 1]
  /\ hdma \in Hdmas
  /\ hdma5 \in 0 .. 2 * MaxBlocks - 1
  /\ hdma.active => hdma.remaining > 0

(* The invariant falls apart into the two engines, which steps change apart. *)
LEMMA TypesSplit == TInv <=> OamTypes /\ HdmaTypes /\ halted \in BOOLEAN
BY DEF TInv, TypeOK, OamTypes, HdmaTypes, Hdmas

(* What the whole bytes leave is less than a byte. *)
LEMMA LessThanAByte ==
  ASSUME NEW a \in Nat, NEW b \in Nat \ {0}
  PROVE  a - (a \div b) * b \in 0 .. b - 1
BY SMT

(* A tick keeps the accumulator below a byte and the count below a page. *)
LEMMA TickTypes ==
  ASSUME OamTypes, NEW c \in Chunks, TickDma(c)
  PROVE  OamTypes'
<1> USE DmaConstantsAssumption
<1> DEFINE n == BytesDue(oam_dma, c)
           done == oam_dma.bytes_copied + n
           accum == Accumulated(oam_dma, c)
<1>1. /\ oam_dma \in [active : BOOLEAN, source : Pages, bytes_copied : 0 .. OamBytes - 1,
                       cycle_accum : 0 .. ByteCycles - 1, start_delay_cycles : 0 .. StartDelay]
      /\ oam \in [Slots -> (Pages \cup {"program"}) \X Slots]
      /\ elapsed \in Int /\ c \in Nat
  BY DEF OamTypes
<1>2. Progress
  <2>1. oam_dma \in [active : BOOLEAN, source : Pages, bytes_copied : Nat,
                     cycle_accum : Nat, start_delay_cycles : Nat]
    BY <1>1
  <2>2. oam_dma.bytes_copied < OamBytes /\ DOMAIN oam = Slots  BY <1>1
  <2> QED BY <2>1, <2>2 DEF Progress
<1>3. /\ accum \in Nat /\ n \in Nat /\ done \in Nat /\ done =< OamBytes
      /\ accum \div ByteCycles \in Nat
      /\ n = accum \div ByteCycles \/ done = OamBytes
  <2>1. accum \in Nat /\ n \in Nat /\ done =< OamBytes  BY <1>2, DueBytes
  <2>2. accum \div ByteCycles \in Nat  BY <2>1, WholeBytes
  <2>3. n = accum \div ByteCycles \/ n = OamBytes - oam_dma.bytes_copied
    BY DEF BytesDue, AtMost
  <2> QED BY <1>1, <2>1, <2>2, <2>3
<1>4. oam' \in [Slots -> (Pages \cup {"program"}) \X Slots]
  <2>1. oam' = [i \in Slots |-> IF i \in oam_dma.bytes_copied .. done - 1
                                THEN <<oam_dma.source, i>> ELSE oam[i]]
    BY DEF TickDma
  <2> QED BY <1>1, <2>1
<1>5. elapsed' \in Int  BY <1>1 DEF TickDma, Untimed
<1>6. oam_dma' = IF done >= OamBytes
                 THEN [oam_dma EXCEPT !.active = FALSE, !.bytes_copied = 0, !.cycle_accum = 0,
                                      !.start_delay_cycles = 0]
                 ELSE [oam_dma EXCEPT !.bytes_copied = done,
                                      !.cycle_accum = accum - n * ByteCycles,
                                      !.start_delay_cycles = @ - AtMost(c, @)]
  BY DEF TickDma
<1>7. oam_dma.start_delay_cycles - AtMost(c, oam_dma.start_delay_cycles) \in 0 .. StartDelay
  BY <1>1 DEF AtMost
<1>8. n = accum \div ByteCycles => accum - n * ByteCycles \in 0 .. ByteCycles - 1
  BY <1>3, LessThanAByte
<1> HIDE DEF n, done, accum
<1>9. oam_dma' \in [active : BOOLEAN, source : Pages, bytes_copied : 0 .. OamBytes - 1,
                    cycle_accum : 0 .. ByteCycles - 1, start_delay_cycles : 0 .. StartDelay]
  <2>1. CASE done >= OamBytes
    <3>1. oam_dma' = [oam_dma EXCEPT !.active = FALSE, !.bytes_copied = 0, !.cycle_accum = 0,
                                     !.start_delay_cycles = 0]
      BY <1>6, <2>1
    <3>2. 0 \in 0 .. OamBytes - 1 /\ 0 \in 0 .. ByteCycles - 1 /\ 0 \in 0 .. StartDelay
      OBVIOUS
    <3> QED BY <1>1, <3>1, <3>2
  <2>2. CASE ~ (done >= OamBytes)
    <3>1. oam_dma' = [oam_dma EXCEPT !.bytes_copied = done,
                                     !.cycle_accum = accum - n * ByteCycles,
                                     !.start_delay_cycles = @ - AtMost(c, @)]
      BY <1>6, <2>2
    <3>2. done \in 0 .. OamBytes - 1  BY <1>3, <2>2
    <3>3. accum - n * ByteCycles \in 0 .. ByteCycles - 1  BY <1>3, <1>8, <2>2
    <3> QED BY <1>1, <1>7, <3>1, <3>2, <3>3
  <2> QED BY <2>1, <2>2
<1> QED BY <1>4, <1>5, <1>9 DEF OamTypes

(* The same of a chunk of time, in which OAM DMA may be idle. *)
LEMMA ClockTypes ==
  ASSUME OamTypes, NEW c \in Chunks,
         IF oam_dma.active THEN TickDma(c) ELSE UNCHANGED oamVars
  PROVE  OamTypes'
<1>1. CASE oam_dma.active  BY <1>1, TickTypes
<1>2. CASE ~ oam_dma.active
  <2>1. UNCHANGED <<oam_dma, oam, elapsed>>  BY <1>2 DEF oamVars
  <2> QED BY <2>1 DEF OamTypes
<1> QED BY <1>1, <1>2

(* Sending no more blocks than remain keeps the counters and addresses in  *)
(* range, and the transfer armed only while some remain.                   *)
LEMMA AfterBlocksTypes ==
  ASSUME NEW h \in Hdmas, NEW n \in Nat, n =< h.remaining
  PROVE  /\ AfterBlocks(h, n) \in Hdmas
         /\ AfterBlocks(h, n).active => AfterBlocks(h, n).remaining > 0
<1> USE DmaConstantsAssumption
<1> DEFINE r == AfterBlocks(h, n)
<1>1. /\ h \in [active : BOOLEAN, hblank_mode : BOOLEAN, source : 0 .. SourceBlocks - 1,
                dest : 0 .. VramBlocks - 1, remaining : 0 .. MaxBlocks, total : 0 .. MaxBlocks]
  BY DEF Hdmas
<1>2. (h.source + n) % SourceBlocks \in 0 .. SourceBlocks - 1
  BY <1>1, SMT
<1>3. (h.dest + n) % VramBlocks \in 0 .. VramBlocks - 1
  BY <1>1, SMT
<1>4. h.remaining - n \in 0 .. MaxBlocks  BY <1>1
<1> DEFINE on == h.remaining > n
           mode == h.hblank_mode /\ h.remaining > n
<1>5. r = [h EXCEPT !.source = (h.source + n) % SourceBlocks,
                    !.dest = (h.dest + n) % VramBlocks,
                    !.remaining = h.remaining - n,
                    !.active = on,
                    !.hblank_mode = mode]
  BY DEF AfterBlocks
<1>6. on \in BOOLEAN /\ mode \in BOOLEAN  OBVIOUS
<1>7. on => h.remaining - n > 0  BY <1>1
<1> HIDE DEF r, on, mode
<1>8. r \in Hdmas  BY <1>1, <1>2, <1>3, <1>4, <1>5, <1>6 DEF Hdmas
<1>9. r.active = on /\ r.remaining = h.remaining - n  BY <1>1, <1>5
<1>10. r.active => r.remaining > 0  BY <1>7, <1>9
<1> QED BY <1>8, <1>10 DEF r

(* The registers show a transfer in range. *)
LEMMA SyncTypes ==
  ASSUME NEW h \in Hdmas, h.active => h.remaining > 0,
         hdma' = h, SyncHdmaRegisters(h)
  PROVE  HdmaTypes'
<1> USE DmaConstantsAssumption
<1>1. h.source \in 0 .. SourceBlocks - 1 /\ h.dest \in 0 .. VramBlocks - 1
      /\ h.remaining \in 0 .. MaxBlocks
  BY DEF Hdmas
<1>2. regs' \in [source : 0 .. SourceBlocks - 1, dest : 0 .. VramBlocks - 1]
  BY <1>1 DEF SyncHdmaRegisters
<1>3. hdma5' \in 0 .. 2 * MaxBlocks - 1
  BY <1>1 DEF SyncHdmaRegisters
<1> QED BY <1>2, <1>3 DEF HdmaTypes

(* A transfer begun, and one done at once, is in range. *)
LEMMA StartTypes ==
  ASSUME HdmaTypes, NEW b \in BOOLEAN, NEW n \in 1 .. MaxBlocks, StartHdma(b, n)
  PROVE  HdmaTypes'
<1> USE DmaConstantsAssumption
<1> DEFINE armed == [active |-> TRUE, hblank_mode |-> b, source |-> regs.source,
                     dest |-> regs.dest, remaining |-> n, total |-> n]
           h == IF b THEN armed ELSE AfterBlocks(armed, n)
<1>1. armed \in Hdmas
  <2>1. regs.source \in 0 .. SourceBlocks - 1 /\ regs.dest \in 0 .. VramBlocks - 1
        /\ n \in 0 .. MaxBlocks
    BY DEF HdmaTypes
  <2> QED BY <2>1 DEF Hdmas
<1>2. armed.remaining = n /\ n \in Nat /\ n > 0  OBVIOUS
<1>3. hdma' = h /\ SyncHdmaRegisters(h)  BY DEF StartHdma
<1> HIDE DEF armed
<1>4. h \in Hdmas /\ (h.active => h.remaining > 0)
  BY <1>1, <1>2, AfterBlocksTypes
<1> HIDE DEF h
<1> QED BY <1>3, <1>4, SyncTypes

(* So is a cancelled one. *)
LEMMA CancelTypes == ASSUME HdmaTypes, CancelHdma PROVE HdmaTypes'
<1> DEFINE h == [hdma EXCEPT !.active = FALSE, !.hblank_mode = FALSE]
<1>1. hdma' = h /\ SyncHdmaRegisters(h)  BY DEF CancelHdma
<1>2. h \in Hdmas /\ ~ h.active  BY DEF HdmaTypes, Hdmas
<1> HIDE DEF h
<1> QED BY <1>1, <1>2, SyncTypes

(* An HBlank sends a block only of an armed transfer, so one that is left. *)
LEMMA HBlankTypes == ASSUME HdmaTypes, HdmaHBlank PROVE HdmaTypes'
<1>1. CASE BlockDue
  <2> DEFINE h == AfterBlocks(hdma, 1)
  <2>1. hdma' = h /\ SyncHdmaRegisters(h)  BY <1>1 DEF HdmaHBlank
  <2>2. hdma \in Hdmas /\ 1 =< hdma.remaining  BY <1>1 DEF HdmaTypes, BlockDue, Hdmas
  <2>3. h \in Hdmas /\ (h.active => h.remaining > 0)  BY <2>2, AfterBlocksTypes
  <2> HIDE DEF h
  <2> QED BY <2>1, <2>3, SyncTypes
<1>2. CASE ~ BlockDue
  <2>1. UNCHANGED <<regs, hdma, hdma5>>  BY <1>2 DEF HdmaHBlank, hdmaVars
  <2> QED BY <2>1 DEF HdmaTypes
<1> QED BY <1>1, <1>2

(* Every step keeps the ranges. *)
LEMMA TypesKept == TInv /\ [Next]_vars => TInv'
<1> SUFFICES ASSUME OamTypes, HdmaTypes, halted \in BOOLEAN, [Next]_vars PROVE TInv'
  BY TypesSplit
<1> USE DmaConstantsAssumption, PagesAssumption
<1> DEFINE Goal == OamTypes' /\ HdmaTypes' /\ halted' \in BOOLEAN
<1>1. ASSUME UNCHANGED oamVars PROVE OamTypes'
  BY <1>1 DEF oamVars, OamTypes
<1>2. ASSUME UNCHANGED hdmaVars PROVE HdmaTypes'
  BY <1>2 DEF hdmaVars, HdmaTypes
<1>3. ASSUME NEW p \in Pages, WriteFF46(p) PROVE Goal
  <2>1. oam_dma' = [active |-> TRUE, source |-> p, bytes_copied |-> 0, cycle_accum |-> 0,
                    start_delay_cycles |-> StartDelay] /\ oam' = oam /\ elapsed' = 0
    BY <1>3 DEF WriteFF46
  <2>2. 0 \in 0 .. OamBytes - 1 /\ 0 \in 0 .. ByteCycles - 1 /\ StartDelay \in 0 .. StartDelay
        /\ 0 \in Int
    OBVIOUS
  <2>3. OamTypes'  BY <2>1, <2>2 DEF OamTypes
  <2> QED BY <1>2, <1>3, <2>3 DEF WriteFF46
<1>4. ASSUME NEW i \in Slots, WriteOam(i) PROVE Goal
  <2>1. oam' = [oam EXCEPT ![i] = <<"program", i>>] /\ UNCHANGED <<oam_dma, elapsed>>
    BY <1>4 DEF WriteOam
  <2>2. OamTypes'  BY <2>1 DEF OamTypes
  <2> QED BY <1>2, <1>4, <2>2 DEF WriteOam
<1>5. ASSUME WriteHdmaAddress PROVE Goal
  <2>1. HdmaTypes'  BY <1>5 DEF WriteHdmaAddress, HdmaTypes
  <2> QED BY <1>1, <1>5, <2>1 DEF WriteHdmaAddress
<1>6. ASSUME NEW b \in BOOLEAN, NEW n \in 1 .. MaxBlocks, WriteFF55(b, n) PROVE Goal
  <2>1. CASE hdma.active /\ hdma.hblank_mode /\ b
    <3>1. SyncHdmaRegisters(hdma) /\ hdma' = hdma
      BY <1>6, <2>1 DEF WriteFF55, IgnoreHdmaWrite
    <3>2. hdma \in Hdmas /\ (hdma.active => hdma.remaining > 0)  BY DEF HdmaTypes
    <3>3. HdmaTypes'  BY <3>1, <3>2, SyncTypes
    <3> QED BY <1>1, <1>6, <3>3 DEF WriteFF55
  <2>2. CASE hdma.active /\ hdma.hblank_mode /\ ~ b
    BY <1>1, <1>6, <2>2, CancelTypes DEF WriteFF55
  <2>3. CASE ~ (hdma.active /\ hdma.hblank_mode)
    BY <1>1, <1>6, <2>3, StartTypes DEF WriteFF55
  <2> QED BY <2>1, <2>2, <2>3
<1>7. ASSUME NEW c \in Chunks, Advance(c) PROVE Goal
  BY <1>2, <1>7, ClockTypes DEF Advance
<1>8. ASSUME NEW c \in Chunks, AdvanceIntoHBlank(c) PROVE Goal
  BY <1>8, ClockTypes, HBlankTypes DEF AdvanceIntoHBlank
<1>9. ASSUME SleepOrWake PROVE Goal
  BY <1>1, <1>2, <1>9 DEF SleepOrWake
<1>10. ASSUME SaveAndLoad PROVE Goal
  <2>1. oam_dma' = [oam_dma EXCEPT !.bytes_copied = 0, !.cycle_accum = 0,
                                   !.start_delay_cycles = 0]
        /\ oam' = oam /\ elapsed' = Untimed
    BY <1>10 DEF SaveAndLoad
  <2>2. 0 \in 0 .. OamBytes - 1 /\ 0 \in 0 .. ByteCycles - 1 /\ 0 \in 0 .. StartDelay
        /\ Untimed \in Int
    BY DEF Untimed
  <2>3. OamTypes'  BY <2>1, <2>2 DEF OamTypes
  <2> QED BY <1>2, <1>10, <2>3 DEF SaveAndLoad
<1>11. ASSUME UNCHANGED vars PROVE Goal
  BY <1>1, <1>2, <1>11 DEF vars, oamVars, hdmaVars
<1>12. Goal
  BY <1>3, <1>4, <1>5, <1>6, <1>7, <1>8, <1>9, <1>10, <1>11 DEF Next, Program, HBlank
<1> QED BY <1>12 DEF TInv, TypeOK, OamTypes, HdmaTypes, Hdmas

(* They hold of a new machine. *)
LEMMA InitTypes == Init => TInv
<1> SUFFICES ASSUME Init PROVE TInv
  OBVIOUS
<1> USE DmaConstantsAssumption
<1>1. PICK p \in Pages : oam_dma = [active |-> FALSE, source |-> p, bytes_copied |-> 0,
                                   cycle_accum |-> 0, start_delay_cycles |-> 0]
  BY DEF Init
<1>2. 0 \in 0 .. OamBytes - 1 /\ 0 \in 0 .. ByteCycles - 1 /\ 0 \in 0 .. StartDelay
      /\ 0 \in 0 .. SourceBlocks - 1 /\ 0 \in 0 .. VramBlocks - 1 /\ 0 \in 0 .. MaxBlocks
      /\ SourceBlocks - 1 \in 0 .. SourceBlocks - 1 /\ VramBlocks - 1 \in 0 .. VramBlocks - 1
      /\ 2 * MaxBlocks - 1 \in 0 .. 2 * MaxBlocks - 1 /\ -1 \in Int
  OBVIOUS
<1>3. OamTypes  BY <1>1, <1>2 DEF Init, OamTypes, Untimed
<1>4. HdmaTypes  BY <1>2 DEF Init, HdmaTypes, Hdmas
<1>5. halted \in BOOLEAN  BY DEF Init
<1> QED BY <1>3, <1>4, <1>5, TypesSplit

(* The counters and addresses of both engines stay in their ranges: the    *)
(* accumulator below a byte, the blocks below the size of a transfer, the  *)
(* addresses wrapped, FF55 a register's value.                             *)
THEOREM CountersInRange == Spec => []TypeOK
<1>1. Init => TInv  BY InitTypes
<1>2. TInv => TypeOK  BY DEF TInv
<1> QED BY <1>1, <1>2, TypesKept, PTL DEF Spec

-----------------------------------------------------------------------------
(* The cycles since FF46 was written are those used of the delay, or all   *)
(* of it, the bytes copied and what has accumulated for the next.          *)
Timed ==
  elapsed # Untimed =>
    IF oam_dma.active
    THEN IF oam_dma.start_delay_cycles > 0
         THEN /\ oam_dma.bytes_copied = 0 /\ oam_dma.cycle_accum = 0
              /\ elapsed = StartDelay - oam_dma.start_delay_cycles
         ELSE elapsed = StartDelay + oam_dma.bytes_copied * ByteCycles + oam_dma.cycle_accum
    ELSE elapsed >= TransferCycles

(* Nothing is lost to the narrowing or the saturation of the accumulator.  *)
LEMMA AccumulatedExactly ==
  ASSUME OamTypes, NEW c \in Chunks
  PROVE  Accumulated(oam_dma, c) =
           oam_dma.cycle_accum + (IF c =< oam_dma.start_delay_cycles THEN 0
                                  ELSE c - oam_dma.start_delay_cycles)
<1> USE DmaConstantsAssumption
<1> DEFINE left == IF c =< oam_dma.start_delay_cycles THEN 0 ELSE c - oam_dma.start_delay_cycles
<1>1. /\ oam_dma.cycle_accum \in 0 .. ByteCycles - 1
      /\ oam_dma.start_delay_cycles \in 0 .. StartDelay
      /\ c \in Nat /\ c + ByteCycles - 1 =< AccumMax
  BY DEF OamTypes
<1>2. left \in 0 .. c  BY <1>1
<1>3. left \in 0 .. AccumMax /\ oam_dma.cycle_accum + left =< AccumMax  BY <1>1, <1>2
<1> HIDE DEF left
<1>4. left % (AccumMax + 1) = left  BY <1>3, SMT
<1>5. Accumulated(oam_dma, c) = AtMost(oam_dma.cycle_accum + (left % (AccumMax + 1)), AccumMax)
  BY DEF Accumulated, left
<1>6. Accumulated(oam_dma, c) = oam_dma.cycle_accum + left
  BY <1>3, <1>4, <1>5 DEF AtMost
<1> QED BY <1>6 DEF left

(* b bytes and a remainder below one byte are fewer cycles than m > b      *)
(* bytes; m bytes are no more than b bytes and what covers the rest.       *)
LEMMA FewerBytes ==
  ASSUME NEW m \in Nat, NEW b \in Nat, NEW w \in Nat \ {0}, NEW r \in Nat
  PROVE  /\ b < m /\ r < w => b * w + r < m * w
         /\ b =< m /\ (m - b) * w =< r => b * w + r >= m * w
<1>1. (m - b) * w = m * w - b * w /\ m * w \in Int /\ b * w \in Int  BY SMT
<1>2. b < m => (m - b) * w >= w
  <2> SUFFICES ASSUME b < m PROVE (m - b) * w >= w  OBVIOUS
  <2>1. m - b - 1 \in Nat  OBVIOUS
  <2>2. (m - b - 1) * w >= 0  BY <2>1, SMT
  <2>3. (m - b - 1) * w = (m - b) * w - w  BY SMT
  <2> QED BY <1>1, <2>2, <2>3
<1> QED BY <1>1, <1>2

(* A tick keeps the account of cycles, and ends it not before its time. *)
LEMMA TickTimed ==
  ASSUME OamTypes, Timed, oam_dma.active, NEW c \in Chunks, TickDma(c)
  PROVE  Timed'
<1> USE DmaConstantsAssumption
<1> DEFINE n == BytesDue(oam_dma, c)
           accum == Accumulated(oam_dma, c)
           bytes == oam_dma.bytes_copied
           delay == oam_dma.start_delay_cycles
           left == IF c =< delay THEN 0 ELSE c - delay
           spent == delay - AtMost(c, delay)
<1>1. /\ oam_dma \in [active : BOOLEAN, source : Pages, bytes_copied : 0 .. OamBytes - 1,
                       cycle_accum : 0 .. ByteCycles - 1, start_delay_cycles : 0 .. StartDelay]
      /\ bytes \in 0 .. OamBytes - 1 /\ oam_dma.cycle_accum \in 0 .. ByteCycles - 1
      /\ delay \in 0 .. StartDelay /\ elapsed \in Int /\ c \in Nat \ {0}
  BY DEF OamTypes
<1>2. Progress
  <2>1. oam_dma \in [active : BOOLEAN, source : Pages, bytes_copied : Nat,
                     cycle_accum : Nat, start_delay_cycles : Nat]
    BY <1>1
  <2>2. oam_dma.bytes_copied < OamBytes /\ DOMAIN oam = Slots  BY <1>1 DEF OamTypes
  <2> QED BY <2>1, <2>2 DEF Progress
<1>3. /\ accum \in Nat /\ n \in Nat /\ bytes + n =< OamBytes
      /\ n =< accum \div ByteCycles
      /\ accum = oam_dma.cycle_accum + left
  BY <1>2, DueBytes, AccumulatedExactly
<1>4. accum - n * ByteCycles \in Nat /\ n * ByteCycles \in Nat
  BY <1>3, NoDebt, SMT
<1>5. n = accum \div ByteCycles \/ n = OamBytes - bytes
  BY DEF BytesDue, AtMost
<1>6. elapsed' = IF elapsed = Untimed THEN Untimed ELSE elapsed + c
  BY DEF TickDma
<1>7. oam_dma' = IF bytes + n >= OamBytes
                 THEN [oam_dma EXCEPT !.active = FALSE, !.bytes_copied = 0, !.cycle_accum = 0,
                                      !.start_delay_cycles = 0]
                 ELSE [oam_dma EXCEPT !.bytes_copied = bytes + n,
                                      !.cycle_accum = accum - n * ByteCycles,
                                      !.start_delay_cycles = spent]
  BY DEF TickDma
<1>8. spent \in Nat /\ spent = (IF c =< delay THEN delay - c ELSE 0)
  BY <1>1 DEF AtMost
<1>9. accum < ByteCycles => n = 0
  <2> SUFFICES ASSUME accum < ByteCycles PROVE n = 0  OBVIOUS
  <2>1. accum \div ByteCycles = 0  BY <1>3, SMT
  <2> QED BY <1>3, <2>1
<1> SUFFICES ASSUME elapsed # Untimed PROVE Timed'
  BY <1>6 DEF Timed
<1>10. elapsed' = elapsed + c  BY <1>6
<1>11. IF delay > 0
       THEN bytes = 0 /\ oam_dma.cycle_accum = 0 /\ elapsed = StartDelay - delay
       ELSE elapsed = StartDelay + bytes * ByteCycles + oam_dma.cycle_accum
  BY DEF Timed
<1>12. bytes * ByteCycles \in Nat  BY <1>1, SMT
<1> HIDE DEF n, accum, bytes, spent
<1>13. c =< delay => left = 0 /\ accum = 0 /\ n = 0
  <2> SUFFICES ASSUME c =< delay PROVE left = 0 /\ accum = 0 /\ n = 0  OBVIOUS
  <2>1. delay > 0 /\ left = 0  BY <1>1
  <2>2. accum = 0  BY <1>3, <1>11, <2>1
  <2> QED BY <1>9, <2>1, <2>2
<1>14. ~ (c =< delay) => elapsed + c = StartDelay + bytes * ByteCycles + accum
  <2> SUFFICES ASSUME ~ (c =< delay)
               PROVE  elapsed + c = StartDelay + bytes * ByteCycles + accum
    OBVIOUS
  <2>1. accum = oam_dma.cycle_accum + c - delay  BY <1>1, <1>3
  <2>2. CASE delay > 0
    <3>1. bytes * ByteCycles = 0  BY <1>11, <2>2, SMT
    <3> QED BY <1>1, <1>11, <2>1, <2>2, <3>1
  <2>3. CASE ~ (delay > 0)  BY <1>1, <1>11, <1>12, <2>1, <2>3
  <2> QED BY <2>2, <2>3
<1> HIDE DEF left, delay
<1>15. CASE bytes + n >= OamBytes
  <2>1. ~ oam_dma'.active  BY <1>1, <1>7, <1>15
  <2>2. ~ (c =< delay)  BY <1>1, <1>13, <1>15
  <2>3. n = OamBytes - bytes /\ (OamBytes - bytes) * ByteCycles =< accum
    <3>1. n = OamBytes - bytes  BY <1>1, <1>3, <1>15
    <3> QED BY <1>3, <1>4, <3>1
  <2>4. bytes * ByteCycles + accum >= OamBytes * ByteCycles
    BY <1>1, <1>3, <2>3, FewerBytes
  <2>5. ByteCycles * OamBytes = OamBytes * ByteCycles /\ OamBytes * ByteCycles \in Nat  BY SMT
  <2>6. elapsed' >= TransferCycles
    BY <1>3, <1>10, <1>12, <1>14, <2>2, <2>4, <2>5 DEF TransferCycles
  <2> QED BY <2>1, <2>6 DEF Timed
<1>16. CASE ~ (bytes + n >= OamBytes)
  <2>1. /\ oam_dma'.active /\ oam_dma'.bytes_copied = bytes + n
        /\ oam_dma'.cycle_accum = accum - n * ByteCycles
        /\ oam_dma'.start_delay_cycles = spent
    BY <1>1, <1>7, <1>16
  <2>2. CASE spent > 0
    <3>1. c =< delay /\ spent = delay - c  BY <1>1, <1>8, <2>2 DEF delay
    <3>2. delay > 0  BY <1>1, <3>1 DEF delay
    <3>3. bytes = 0 /\ elapsed = StartDelay - delay  BY <1>11, <3>2 DEF delay
    <3>4. n = 0 /\ accum = 0  BY <1>13, <3>1
    <3>5. accum - n * ByteCycles = 0  BY <3>4, SMT
    <3>6. elapsed' = StartDelay - spent  BY <1>1, <1>10, <3>1, <3>3 DEF delay
    <3> QED BY <1>1, <2>1, <2>2, <3>3, <3>4, <3>5, <3>6 DEF Timed
  <2>3. CASE ~ (spent > 0)
    <3>1. (bytes + n) * ByteCycles = bytes * ByteCycles + n * ByteCycles  BY <1>1, <1>3, SMT
    <3>2. elapsed' = StartDelay + bytes * ByteCycles + accum
      <4>1. CASE c =< delay
        <5>1. delay = c /\ delay > 0  BY <1>1, <1>8, <2>3, <4>1 DEF delay
        <5>2. bytes = 0 /\ elapsed = StartDelay - delay /\ accum = 0
          BY <1>11, <1>13, <5>1 DEF delay
        <5>3. bytes * ByteCycles = 0  BY <5>2, SMT
        <5> QED BY <1>1, <1>10, <5>1, <5>2, <5>3
      <4>2. CASE ~ (c =< delay)  BY <1>10, <1>14, <4>2
      <4> QED BY <4>1, <4>2
    <3>3. elapsed' = StartDelay + (bytes + n) * ByteCycles + (accum - n * ByteCycles)
      BY <1>3, <1>4, <1>12, <3>1, <3>2
    <3> QED BY <2>1, <2>3, <3>3 DEF Timed
  <2> QED BY <2>2, <2>3
<1> QED BY <1>15, <1>16

(* Every step keeps the account. *)
LEMMA TimedKept == TInv /\ Timed /\ [Next]_vars => Timed'
<1> SUFFICES ASSUME OamTypes, Timed, [Next]_vars PROVE Timed'
  BY TypesSplit
<1> USE DmaConstantsAssumption
<1>1. ASSUME UNCHANGED <<oam_dma, elapsed>> PROVE Timed'
  BY <1>1 DEF Timed
<1>2. ASSUME NEW c \in Chunks, IF oam_dma.active THEN TickDma(c) ELSE UNCHANGED oamVars
      PROVE  Timed'
  BY <1>1, <1>2, TickTimed DEF oamVars
<1>3. ASSUME NEW p \in Pages, WriteFF46(p) PROVE Timed'
  <2>1. oam_dma' = [active |-> TRUE, source |-> p, bytes_copied |-> 0, cycle_accum |-> 0,
                    start_delay_cycles |-> StartDelay] /\ elapsed' = 0
    BY <1>3 DEF WriteFF46
  <2> QED BY <2>1 DEF Timed
<1>4. CASE SaveAndLoad  BY <1>4 DEF SaveAndLoad, Timed
<1>5. ASSUME NEW i \in Slots, WriteOam(i) PROVE Timed'  BY <1>1, <1>5 DEF WriteOam
<1>6. CASE WriteHdmaAddress  BY <1>1, <1>6 DEF WriteHdmaAddress, oamVars
<1>7. ASSUME NEW b \in BOOLEAN, NEW n \in 1 .. MaxBlocks, WriteFF55(b, n) PROVE Timed'
  BY <1>1, <1>7 DEF WriteFF55, oamVars
<1>8. CASE SleepOrWake  BY <1>1, <1>8 DEF SleepOrWake, oamVars
<1>9. CASE UNCHANGED vars  BY <1>1, <1>9 DEF vars
<1> QED BY <1>2, <1>3, <1>4, <1>5, <1>6, <1>7, <1>8, <1>9
        DEF Next, Program, HBlank, Advance, AdvanceIntoHBlank

(* A transfer lasts exactly its delay and its bytes, however time was cut  *)
(* into chunks, as long as no chunk overruns the accumulator (lib.rs:2133).*)
THEOREM CopyIsPunctual == Spec => []OamTakesItsTime
<1>1. Init => TInv  BY InitTypes
<1>2. Init => Timed  BY DEF Init, Timed
<1>3. TInv /\ Timed => OamTakesItsTime
  <2> SUFFICES ASSUME OamTypes, Timed, elapsed # Untimed, oam_dma.active
               PROVE  elapsed < TransferCycles
    <3>1. TransferCycles \in Int  BY DmaConstantsAssumption, SMT DEF TransferCycles
    <3> QED BY <3>1, TypesSplit DEF OamTakesItsTime, Timed, OamTypes
  <2> USE DmaConstantsAssumption
  <2> DEFINE bytes == oam_dma.bytes_copied
             accum == oam_dma.cycle_accum
             delay == oam_dma.start_delay_cycles
  <2>1. /\ bytes \in 0 .. OamBytes - 1 /\ accum \in 0 .. ByteCycles - 1
        /\ delay \in 0 .. StartDelay
    BY DEF OamTypes
  <2>2. IF delay > 0 THEN elapsed = StartDelay - delay
        ELSE elapsed = StartDelay + bytes * ByteCycles + accum
    BY DEF Timed
  <2> HIDE DEF bytes, accum, delay
  <2>3. bytes * ByteCycles + accum < OamBytes * ByteCycles
    BY <2>1, FewerBytes
  <2>4. ByteCycles * OamBytes = OamBytes * ByteCycles /\ OamBytes * ByteCycles \in Nat
        /\ bytes * ByteCycles \in Nat
    BY <2>1, SMT
  <2> QED BY <2>1, <2>2, <2>3, <2>4 DEF TransferCycles
<1>4. TInv /\ [Next]_vars => TInv'  BY TypesKept
<1>5. TInv /\ Timed /\ [Next]_vars => Timed'  BY TimedKept
<1> QED BY <1>1, <1>2, <1>3, <1>4, <1>5, PTL DEF Spec

-----------------------------------------------------------------------------
(* A remainder goes on from a remainder. *)
LEMMA NextRemainder ==
  ASSUME NEW a \in Nat, NEW m \in Nat \ {0}
  PROVE  ((a % m) + 1) % m = (a + 1) % m
<1> DEFINE q == a \div m
           r == a % m
<1>1. a = m * q + r
  BY Z3
<1>2. r \in 0 .. m - 1
  BY Z3
<1>3. q \in Int
  BY Z3
<1>4. \A p \in Int : \A k \in 0 .. m - 1 : (m * p + k) % m = k
  BY Z3
<1> HIDE DEF q, r
<1>5. CASE r + 1 < m
  <2>1. r + 1 \in 0 .. m - 1  BY <1>2, <1>5
  <2>2. (m * q + (r + 1)) % m = r + 1  BY <1>3, <1>4, <2>1
  <2>3. (m * 0 + (r + 1)) % m = r + 1  BY <1>4, <2>1
  <2>4. m * 0 = 0  BY Z3
  <2>5. m * q + (r + 1) = a + 1 /\ 0 + (r + 1) = r + 1  BY <1>1, <1>2, <1>3, Z3
  <2> QED BY <2>2, <2>3, <2>4, <2>5 DEF r
<1>6. CASE r + 1 = m
  <2>0. 0 \in 0 .. m - 1  OBVIOUS
  <2>1. (m * (q + 1) + 0) % m = 0  BY <1>3, <1>4, <2>0
  <2>2. (m * 1 + 0) % m = 0  BY <1>4, <2>0
  <2>3. m * (q + 1) + 0 = a + 1  BY <1>1, <1>2, <1>3, <1>6, Z3
  <2>4. m * 1 + 0 = r + 1  BY <1>6, Z3
  <2> QED BY <2>1, <2>2, <2>3, <2>4 DEF r
<1> QED BY <1>2, <1>5, <1>6

LEMMA SameRemainder ==
  ASSUME NEW m \in Nat \ {0}, NEW k \in 0 .. m - 1
  PROVE  k % m = k
BY Z3

(* The k-th block of the transfer last begun, and how many have gone out:  *)
(* the engine's own addresses are those of the next one.                   *)
Block(k) == <<(asked.source + k - 1) % SourceBlocks, (asked.dest + k - 1) % VramBlocks>>
Sent == asked.blocks - hdma.remaining

AtTheNext ==
  /\ asked \in [source : Nat, dest : Nat, blocks : Nat]
  /\ Sent \in Nat
  /\ hdma.source = (asked.source + Sent) % SourceBlocks
  /\ hdma.dest = (asked.dest + Sent) % VramBlocks

BInv == HdmaTypes /\ AtTheNext /\ BlocksInOrder

(* What a step must keep of the transfer for its blocks to be in order.    *)
LEMMA SameTransfer ==
  ASSUME AtTheNext, BlocksInOrder, UNCHANGED <<asked, copied>>,
         hdma'.source = hdma.source, hdma'.dest = hdma.dest,
         hdma'.remaining = hdma.remaining, hdma'.total = hdma.total,
         hdma'.active => hdma.active /\ hdma'.hblank_mode = hdma.hblank_mode
  PROVE  (AtTheNext /\ BlocksInOrder)'
BY DEF AtTheNext, BlocksInOrder, Sent

(* A transfer starts where the program's registers are, with nothing sent  *)
(* or with all of it.                                                      *)
LEMMA StartsAsAsked ==
  ASSUME HdmaTypes, NEW b \in BOOLEAN, NEW n \in 1 .. MaxBlocks, StartHdma(b, n)
  PROVE  /\ (AtTheNext /\ BlocksInOrder)'
         /\ hdma'.remaining = (IF b THEN n ELSE 0)
         /\ copied' # <<>> => asked'.blocks = Len(copied') /\ ~ hdma'.active
<1> USE DmaConstantsAssumption
<1>1. /\ regs.source \in 0 .. SourceBlocks - 1 /\ regs.dest \in 0 .. VramBlocks - 1
      /\ n \in Nat
  BY DEF HdmaTypes
<1>2. asked' = [source |-> regs.source, dest |-> regs.dest, blocks |-> n]
  BY DEF StartHdma
<1>3. asked' \in [source : Nat, dest : Nat, blocks : Nat]
  BY <1>1, <1>2
<1>4. CASE b
  <2>1. /\ hdma' = [active |-> TRUE, hblank_mode |-> b, source |-> regs.source,
                    dest |-> regs.dest, remaining |-> n, total |-> n]
        /\ copied' = <<>>
    BY <1>4 DEF StartHdma
  <2>2. Sent' = 0
    BY <1>1, <1>2, <2>1 DEF Sent
  <2>3. regs.source % SourceBlocks = regs.source /\ regs.dest % VramBlocks = regs.dest
    BY <1>1, SameRemainder
  <2>4. regs.source + 0 = regs.source /\ regs.dest + 0 = regs.dest
    BY <1>1
  <2>5. AtTheNext'
    BY <1>2, <1>3, <2>1, <2>2, <2>3, <2>4 DEF AtTheNext
  <2>6. BlocksInOrder'
    <3>1. asked'.blocks - hdma'.remaining = 0 /\ hdma'.total = asked'.blocks
      BY <1>1, <1>2, <2>1
    <3>2. hdma'.remaining > 0 /\ hdma'.hblank_mode
      BY <1>1, <1>4, <2>1
    <3>3. copied' = [k \in 1 .. 0 |-> <<(asked'.source + k - 1) % SourceBlocks,
                                        (asked'.dest + k - 1) % VramBlocks>>]
      BY <2>1
    <3>4. copied' = [k \in 1 .. asked'.blocks - hdma'.remaining |->
                       <<(asked'.source + k - 1) % SourceBlocks,
                         (asked'.dest + k - 1) % VramBlocks>>]
      BY <3>1, <3>3
    <3> QED BY <3>1, <3>2, <3>4 DEF BlocksInOrder
  <2> QED BY <1>4, <2>1, <2>5, <2>6
<1>5. CASE ~ b
  <2> DEFINE armed == [active |-> TRUE, hblank_mode |-> b, source |-> regs.source,
                       dest |-> regs.dest, remaining |-> n, total |-> n]
  <2>1. hdma' = AfterBlocks(armed, n) /\ copied' = BlocksFrom(armed, n)
    BY <1>5 DEF StartHdma
  <2>2. /\ hdma'.source = (regs.source + n) % SourceBlocks
        /\ hdma'.dest = (regs.dest + n) % VramBlocks
        /\ hdma'.remaining = 0 /\ hdma'.total = n
    BY <1>1, <2>1 DEF AfterBlocks
  <2>3. hdma'.active = FALSE
    <3> DEFINE on == armed.remaining > n
               mode == armed.hblank_mode /\ armed.remaining > n
               source == (armed.source + n) % SourceBlocks
               dest == (armed.dest + n) % VramBlocks
    <3>1. hdma' = [armed EXCEPT !.source = source, !.dest = dest, !.remaining = @ - n,
                                !.active = on, !.hblank_mode = mode]
      BY <2>1 DEF AfterBlocks
    <3>2. on = FALSE
      BY <1>1
    <3> HIDE DEF on, mode, source, dest
    <3> QED BY <3>1, <3>2
  <2>4. copied' = [k \in 1 .. n |-> <<(regs.source + k - 1) % SourceBlocks,
                                      (regs.dest + k - 1) % VramBlocks>>]
    BY <2>1 DEF BlocksFrom
  <2>5. Sent' = n
    BY <1>1, <1>2, <2>2 DEF Sent
  <2> HIDE DEF armed
  <2>6. AtTheNext'
    BY <1>1, <1>2, <1>3, <2>2, <2>5 DEF AtTheNext
  <2>7. BlocksInOrder'
    <3>1. n - 0 = n
      BY <1>1
    <3> QED BY <1>2, <2>2, <2>3, <2>4, <3>1 DEF BlocksInOrder
  <2>8. Len(copied') = n
    BY <1>1, <2>4
  <2> QED BY <1>2, <1>5, <2>2, <2>3, <2>6, <2>7, <2>8
<1> QED BY <1>4, <1>5

LEMMA OneMore ==
  ASSUME NEW n \in Nat, NEW f
  PROVE  [k \in 1 .. n |-> f[k]] \o <<f[n + 1]>> = [k \in 1 .. n + 1 |-> f[k]]
BY SMT

(* An HBlank sends the next block, one step further than those before it.  *)
LEMMA SendsTheNext ==
  ASSUME BInv, BlockDue, HdmaHBlank
  PROVE  /\ (AtTheNext /\ BlocksInOrder)'
         /\ Len(copied') = Len(copied) + 1
         /\ ~ hdma'.active => hdma'.remaining = 0
<1> USE DmaConstantsAssumption
<1> DEFINE n == Sent
<1>1. /\ hdma \in Hdmas /\ hdma.active /\ hdma.remaining > 0 /\ hdma.hblank_mode
      /\ asked \in [source : Nat, dest : Nat, blocks : Nat] /\ n \in Nat
      /\ n = asked.blocks - hdma.remaining
      /\ hdma.source = (asked.source + n) % SourceBlocks
      /\ hdma.dest = (asked.dest + n) % VramBlocks
      /\ hdma.total = asked.blocks
  BY DEF BInv, HdmaTypes, AtTheNext, BlocksInOrder, BlockDue, Sent
<1>2. /\ asked.source \in Nat /\ asked.dest \in Nat /\ asked.blocks \in Nat
      /\ hdma.source \in Nat /\ hdma.dest \in Nat /\ hdma.remaining \in Nat
  BY <1>1 DEF Hdmas
<1>3. copied = [k \in 1 .. n |-> Block(k)]
  BY DEF BInv, BlocksInOrder, Block, Sent
<1>4. copied' = copied \o BlocksFrom(hdma, 1) /\ asked' = asked
      /\ hdma' = AfterBlocks(hdma, 1)
  BY DEF HdmaHBlank
<1> HIDE DEF n
<1>5. /\ hdma'.source = (asked.source + n + 1) % SourceBlocks
      /\ hdma'.dest = (asked.dest + n + 1) % VramBlocks
      /\ hdma'.remaining = hdma.remaining - 1 /\ hdma'.total = hdma.total
  <2>1. /\ hdma'.source = (hdma.source + 1) % SourceBlocks
        /\ hdma'.dest = (hdma.dest + 1) % VramBlocks
        /\ hdma'.remaining = hdma.remaining - 1 /\ hdma'.total = hdma.total
    BY <1>1, <1>4 DEF AfterBlocks, Hdmas
  <2>2. asked.source + n \in Nat /\ asked.dest + n \in Nat
    BY <1>1, <1>2, SMTT(90), SMTT(90)
  <2> QED BY <1>1, <2>1, <2>2, NextRemainder
<1>6. BlocksFrom(hdma, 1) = <<Block(n + 1)>>
  <2>1. (hdma.source + 1 - 1) % SourceBlocks = hdma.source
        /\ (hdma.dest + 1 - 1) % VramBlocks = hdma.dest
    <3>1. hdma.source \in 0 .. SourceBlocks - 1 /\ hdma.dest \in 0 .. VramBlocks - 1
      BY <1>1 DEF Hdmas
    <3>2. hdma.source + 1 - 1 = hdma.source /\ hdma.dest + 1 - 1 = hdma.dest
      BY <1>2
    <3> QED BY <3>1, <3>2, SameRemainder
  <2>2. <<hdma.source, hdma.dest>> = Block(n + 1)
    <3>1. asked.source + n = asked.source + (n + 1) - 1
          /\ asked.dest + n = asked.dest + (n + 1) - 1
      BY <1>1, <1>2
    <3> QED BY <1>1, <3>1 DEF Block
  <2>3. BlocksFrom(hdma, 1) = [k \in 1 .. 1 |-> Block(n + 1)]
    <3>1. \A k \in 1 .. 1 :
            <<(hdma.source + k - 1) % SourceBlocks, (hdma.dest + k - 1) % VramBlocks>>
              = Block(n + 1)
      BY <2>1, <2>2
    <3> QED BY <3>1 DEF BlocksFrom
  <2> QED BY <2>3
<1>7. copied' = [k \in 1 .. n + 1 |-> Block(k)] /\ Len(copied) = n /\ Len(copied') = n + 1
  <2> DEFINE f == [k \in 1 .. n + 1 |-> Block(k)]
  <2>0. n + 1 \in Nat /\ n + 1 \in 1 .. n + 1
    BY <1>1
  <2>1. f[n + 1] = Block(n + 1)
    BY <2>0
  <2>2. copied = [k \in 1 .. n |-> f[k]]
    <3>1. \A k \in 1 .. n : f[k] = Block(k)
      BY <1>1
    <3> HIDE DEF f
    <3> QED BY <1>3, <3>1
  <2> HIDE DEF f
  <2>3. copied' = [k \in 1 .. n |-> f[k]] \o <<f[n + 1]>>
    BY <1>4, <1>6, <2>1, <2>2
  <2>4. copied' = [k \in 1 .. n + 1 |-> f[k]]
    BY <1>1, <2>3, OneMore, ZenonT(120), ZenonT(120)
  <2>5. f = [k \in 1 .. n + 1 |-> f[k]]
    BY DEF f
  <2>6. Len(copied) = n /\ Len(copied') = n + 1
    <3> DEFINE m == n + 1
    <3>1. copied' = [k \in 1 .. m |-> f[k]] /\ m \in Nat
      BY <2>0, <2>4
    <3> HIDE DEF m
    <3>2. Len(copied') = m /\ Len(copied) = n
      BY <1>1, <2>2, <3>1
    <3> QED BY <3>2 DEF m
  <2> QED BY <2>4, <2>5, <2>6 DEF f
<1>8. Sent' = n + 1
  <2>1. asked'.blocks = asked.blocks /\ hdma'.remaining = hdma.remaining - 1
    BY <1>4, <1>5
  <2>2. n = asked.blocks - hdma.remaining
    BY <1>1
  <2> QED BY <1>2, <2>1, <2>2 DEF Sent
<1>9. AtTheNext'
  <2>1. asked.source + (n + 1) = asked.source + n + 1 /\ asked.dest + (n + 1) = asked.dest + n + 1
        /\ n + 1 \in Nat
    BY <1>1, <1>2, SMTT(90)
  <2> QED BY <1>1, <1>4, <1>5, <1>8, <2>1 DEF AtTheNext
<1>10. hdma'.active = (hdma.remaining > 1)
       /\ hdma'.hblank_mode = (hdma.hblank_mode /\ hdma.remaining > 1)
  BY <1>1, <1>4 DEF AfterBlocks, Hdmas
<1>11. BlocksInOrder'
  <2>1. asked'.blocks - hdma'.remaining = n + 1
    BY <1>8 DEF Sent
  <2>2. hdma'.total = asked'.blocks
    BY <1>1, <1>4, <1>5
  <2>3. hdma'.active => hdma'.remaining > 0 /\ hdma'.hblank_mode
    <3> DEFINE on == hdma.remaining > 1
    <3>1. hdma'.active = on /\ hdma'.hblank_mode = (hdma.hblank_mode /\ on)
      BY <1>10
    <3>2. on => hdma'.remaining > 0
      BY <1>2, <1>5
    <3> HIDE DEF on
    <3> QED BY <1>1, <3>1, <3>2, Zenon
  <2>4. copied' = [k \in 1 .. asked'.blocks - hdma'.remaining |->
                     <<(asked'.source + k - 1) % SourceBlocks,
                       (asked'.dest + k - 1) % VramBlocks>>]
    <3>1. copied' = [k \in 1 .. n + 1 |-> <<(asked'.source + k - 1) % SourceBlocks,
                                            (asked'.dest + k - 1) % VramBlocks>>]
      BY <1>4, <1>7 DEF Block
    <3> QED BY <2>1, <3>1
  <2> QED BY <2>2, <2>3, <2>4 DEF BlocksInOrder
<1>12. ~ hdma'.active => hdma'.remaining = 0
  <2> DEFINE on == hdma.remaining > 1
  <2>1. hdma'.active = on
    BY <1>10
  <2>2. ~ on => hdma'.remaining = 0
    BY <1>1, <1>2, <1>5
  <2> HIDE DEF on
  <2> QED BY <2>1, <2>2, Zenon
<1> QED BY <1>7, <1>9, <1>11, <1>12

(* What every step keeps and does about a block transfer. *)
StepServes ==
  /\ BInv'
  /\ copied' # copied /\ copied' # <<>> =>
       \/ Len(copied') = Len(copied) + 1 /\ ~ halted /\ HBlank
       \/ asked'.blocks = Len(copied') /\ ~ hdma'.active
  /\ hdma.active /\ ~ hdma'.active /\ hdma'.remaining > 0 =>
       /\ regs' = [source |-> (asked.source + Len(copied)) % SourceBlocks,
                   dest |-> (asked.dest + Len(copied)) % VramBlocks]
       /\ hdma5' = MaxBlocks + asked.blocks - Len(copied) - 1

LEMMA CopiedIsSent == BInv => Len(copied) = Sent
<1> SUFFICES ASSUME BInv PROVE Len(copied) = Sent
  OBVIOUS
<1> DEFINE n == Sent
<1>1. n \in Nat /\ copied = [k \in 1 .. n |-> Block(k)]
  BY DEF BInv, AtTheNext, BlocksInOrder, Block, Sent
<1> HIDE DEF n
<1>2. Len(copied) = n
  BY <1>1
<1> QED BY <1>2 DEF n

(* Cancelling leaves the addresses of the next block in the registers, and *)
(* what is left in FF55.                                                   *)
LEMMA CancelServes ==
  ASSUME BInv, CancelHdma
  PROVE  StepServes
<1> DEFINE h == [hdma EXCEPT !.active = FALSE, !.hblank_mode = FALSE]
<1>1. /\ hdma \in Hdmas /\ hdma.remaining \in Nat /\ asked.blocks \in Nat
      /\ hdma.source = (asked.source + Sent) % SourceBlocks
      /\ hdma.dest = (asked.dest + Sent) % VramBlocks
      /\ AtTheNext /\ BlocksInOrder
  BY DEF BInv, HdmaTypes, AtTheNext, Hdmas
<1>2. hdma' = h /\ SyncHdmaRegisters(h) /\ UNCHANGED <<asked, copied>>
  BY DEF CancelHdma
<1>3. /\ h.source = hdma.source /\ h.dest = hdma.dest /\ h.remaining = hdma.remaining
      /\ h.total = hdma.total /\ h.active = FALSE
  BY <1>1 DEF Hdmas
<1> HIDE DEF h
<1>4. HdmaTypes'
  BY CancelTypes DEF BInv
<1>5. (AtTheNext /\ BlocksInOrder)'
  BY <1>1, <1>2, <1>3, SameTransfer
<1>6. regs' = [source |-> (asked.source + Sent) % SourceBlocks,
               dest |-> (asked.dest + Sent) % VramBlocks]
  BY <1>1, <1>2, <1>3 DEF SyncHdmaRegisters
<1>7. hdma'.remaining > 0 => hdma5' = MaxBlocks + hdma.remaining - 1
  BY <1>2, <1>3 DEF SyncHdmaRegisters
<1>8. MaxBlocks + hdma.remaining - 1 = MaxBlocks + asked.blocks - Sent - 1
  BY <1>1, DmaConstantsAssumption DEF Sent
<1> QED BY <1>2, <1>4, <1>5, <1>6, <1>7, <1>8, CopiedIsSent DEF StepServes, BInv

LEMMA BlocksKept ==
  ASSUME BInv, TInv, [Next]_vars
  PROVE  StepServes
<1>0. HdmaTypes' /\ HdmaTypes /\ AtTheNext /\ BlocksInOrder /\ hdma.remaining \in Nat
  <2>1. TInv'
    BY TypesKept
  <2>2. HdmaTypes'
    BY <2>1 DEF TInv, TypeOK, HdmaTypes, Hdmas
  <2> QED BY <2>2 DEF BInv, HdmaTypes, Hdmas
<1>1. ASSUME UNCHANGED <<hdma, asked, copied>> PROVE StepServes
  <2>1. (AtTheNext /\ BlocksInOrder)'
    BY <1>0, <1>1, SameTransfer
  <2> QED BY <1>0, <1>1, <2>1 DEF StepServes, BInv
<1>2. ASSUME NEW b \in BOOLEAN, NEW n \in 1 .. MaxBlocks, WriteFF55(b, n) PROVE StepServes
  <2>1. CASE hdma.active /\ hdma.hblank_mode /\ b
    BY <1>1, <1>2, <2>1 DEF WriteFF55, IgnoreHdmaWrite
  <2>2. CASE hdma.active /\ hdma.hblank_mode /\ ~ b
    BY <1>2, <2>2, CancelServes DEF WriteFF55
  <2>3. CASE ~ (hdma.active /\ hdma.hblank_mode)
    <3>1. StartHdma(b, n)
      BY <1>2, <2>3 DEF WriteFF55
    <3>2. ~ hdma.active
      BY <1>0, <2>3 DEF BlocksInOrder
    <3> QED BY <1>0, <3>1, <3>2, StartsAsAsked DEF StepServes, BInv
  <2> QED BY <2>1, <2>2, <2>3
<1>3. ASSUME NEW c \in Chunks, AdvanceIntoHBlank(c) PROVE StepServes
  <2>1. HdmaHBlank /\ HBlank
    BY <1>3 DEF AdvanceIntoHBlank, HBlank
  <2>2. CASE BlockDue
    <3>1. ~ halted /\ hdma'.remaining \in Nat
      BY <1>0, <2>2 DEF BlockDue, HdmaTypes, Hdmas
    <3> QED BY <1>0, <2>1, <2>2, <3>1, SendsTheNext DEF StepServes, BInv
  <2>3. CASE ~ BlockDue
    BY <1>1, <2>1, <2>3 DEF HdmaHBlank, hdmaVars
  <2> QED BY <2>2, <2>3
<1>4. ASSUME NEW p \in Pages, WriteFF46(p) PROVE StepServes
  BY <1>1, <1>4 DEF WriteFF46, hdmaVars
<1>5. ASSUME NEW i \in Slots, WriteOam(i) PROVE StepServes
  BY <1>1, <1>5 DEF WriteOam, hdmaVars
<1>6. ASSUME WriteHdmaAddress PROVE StepServes
  BY <1>1, <1>6 DEF WriteHdmaAddress
<1>7. ASSUME NEW c \in Chunks, Advance(c) PROVE StepServes
  BY <1>1, <1>7 DEF Advance, hdmaVars
<1>8. ASSUME SleepOrWake PROVE StepServes
  BY <1>1, <1>8 DEF SleepOrWake, hdmaVars
<1>9. ASSUME SaveAndLoad PROVE StepServes
  BY <1>1, <1>9 DEF SaveAndLoad, hdmaVars
<1>10. CASE UNCHANGED vars
  BY <1>1, <1>10 DEF vars
<1> QED BY <1>2, <1>3, <1>4, <1>5, <1>6, <1>7, <1>8, <1>9, <1>10 DEF Next, Program, HBlank

(* The blocks of a transfer go out in order and once each, one per HBlank  *)
(* and none in the CPU's sleep, and a cancelled transfer can go on where   *)
(* it was, whatever the program writes in between (lib.rs:2197, 2220).     *)
THEOREM TransfersArrive == Spec => BlocksArrive
<1>1. Init => TInv /\ BInv
  <2> SUFFICES ASSUME Init PROVE TInv /\ BInv
    OBVIOUS
  <2> USE DmaConstantsAssumption
  <2>1. TInv /\ HdmaTypes
    BY InitTypes, TypesSplit
  <2>2. /\ hdma = [active |-> FALSE, hblank_mode |-> FALSE, source |-> 0, dest |-> 0,
                   remaining |-> 0, total |-> 0]
        /\ asked = [source |-> 0, dest |-> 0, blocks |-> 0] /\ copied = <<>>
    BY DEF Init
  <2>3. 0 % SourceBlocks = 0 /\ 0 % VramBlocks = 0
    <3>1. 0 \in 0 .. SourceBlocks - 1 /\ 0 \in 0 .. VramBlocks - 1
      OBVIOUS
    <3> QED BY <3>1, SameRemainder
  <2>4. AtTheNext
    BY <2>2, <2>3 DEF AtTheNext, Sent
  <2>5. copied = [k \in 1 .. asked.blocks - hdma.remaining |->
                    <<(asked.source + k - 1) % SourceBlocks,
                      (asked.dest + k - 1) % VramBlocks>>]
    BY <2>2
  <2>6. BlocksInOrder
    BY <2>2, <2>5 DEF BlocksInOrder
  <2> QED BY <2>1, <2>4, <2>6 DEF BInv
<1>2. TInv /\ BInv /\ [Next]_vars => TInv' /\ BInv'
  BY TypesKept, BlocksKept DEF StepServes
<1>3. TInv /\ BInv /\ [Next]_vars =>
        [copied' # copied /\ copied' # <<>> =>
           \/ Len(copied') = Len(copied) + 1 /\ ~ halted /\ HBlank
           \/ asked'.blocks = Len(copied') /\ ~ hdma'.active]_vars
  BY BlocksKept DEF StepServes
<1>4. TInv /\ BInv /\ [Next]_vars =>
        [hdma.active /\ ~ hdma'.active /\ hdma'.remaining > 0 =>
           /\ regs' = [source |-> (asked.source + Len(copied)) % SourceBlocks,
                       dest |-> (asked.dest + Len(copied)) % VramBlocks]
           /\ hdma5' = MaxBlocks + asked.blocks - Len(copied) - 1]_vars
  BY BlocksKept DEF StepServes
<1>5. BInv => BlocksInOrder
  BY DEF BInv
<1> QED BY <1>1, <1>2, <1>3, <1>4, <1>5, PTL
        DEF Spec, BlocksArrive, OneBlockPerHBlank, CancelLeavesTheRest

-----------------------------------------------------------------------------

(* The sizes of the timer. *)
LEMMA TimerConstants ==
  /\ DivModulus \in Nat \ {0} /\ TimaModulus \in Nat \ {0}
  /\ ReloadDelay \in Nat \ {0}
  /\ HalfPeriod \in [Tm!Selects -> Nat \ {0}]
  /\ Values \subseteq 0 .. TimaModulus - 1
  /\ BootDivs \subseteq 0 .. DivModulus - 1
BY TimerAssumption DEF Tm!TimerParameters

(* An increment either changes nothing, counts, or opens the window. *)
LEMMA Increment ==
  ASSUME NEW t \in Tm!Timers
  PROVE  /\ Tm!IncrementTima(t) \in Tm!Timers
         /\ t.delay > 0 => Tm!IncrementTima(t) = t
         /\ t.delay = 0 => /\ Tm!IncrementTima(t).delay \in {0, ReloadDelay}
                           /\ Tm!IncrementTima(t).delay > 0 => Tm!IncrementTima(t).tima = 0
         /\ Tm!IncrementTima(t).div = t.div
<1>0. 0 \in 0 .. TimaModulus - 1 /\ ReloadDelay \in 0 .. ReloadDelay
  BY TimerConstants
<1>1. CASE t.delay > 0
  BY <1>1, TimerConstants DEF Tm!IncrementTima, Tm!Timers
<1>2. CASE t.delay = 0 /\ t.tima = TimaModulus - 1
  <2>1. Tm!IncrementTima(t) = [t EXCEPT !.tima = 0, !.delay = ReloadDelay]
    BY <1>2 DEF Tm!IncrementTima
  <2>2. [t EXCEPT !.tima = 0, !.delay = ReloadDelay] \in Tm!Timers
    BY <1>0 DEF Tm!Timers
  <2> QED
    BY <1>0, <1>2, <2>1, <2>2 DEF Tm!Timers
<1>3. CASE t.delay = 0 /\ t.tima # TimaModulus - 1
  BY <1>3, TimerConstants DEF Tm!IncrementTima, Tm!Timers
<1> QED
  BY <1>1, <1>2, <1>3 DEF Tm!Timers

LEMMA Delay ==
  ASSUME NEW t \in Tm!Timers
  PROVE  /\ Tm!AfterDelay(t) \in Tm!Timers
         /\ t.delay = 0 => Tm!AfterDelay(t) = t
         /\ t.delay > 0 => Tm!AfterDelay(t).delay = t.delay - 1
         /\ t.delay > 1 => Tm!AfterDelay(t).tima = t.tima
         /\ Tm!Reloads(t) <=> t.delay = 1
<1>1. CASE t.delay = 1
  <2>1. Tm!AfterDelay(t) = [t EXCEPT !.delay = 0, !.tima = t.tma]
    BY <1>1 DEF Tm!AfterDelay, Tm!Reloads
  <2>2. [t EXCEPT !.delay = 0, !.tima = t.tma] \in Tm!Timers
    <3>1. 0 \in 0 .. ReloadDelay
      BY TimerConstants
    <3> QED
      BY <3>1 DEF Tm!Timers
  <2> QED
    BY <1>1, <2>1, <2>2 DEF Tm!Reloads, Tm!Timers
<1>2. CASE t.delay > 1
  <2>1. Tm!AfterDelay(t) = [t EXCEPT !.delay = t.delay - 1]
    BY <1>2 DEF Tm!AfterDelay, Tm!Reloads, Tm!Timers
  <2>2. [t EXCEPT !.delay = t.delay - 1] \in Tm!Timers
    BY <1>2, TimerConstants DEF Tm!Timers
  <2> QED
    BY <1>2, <2>1, <2>2 DEF Tm!Reloads, Tm!Timers
<1>3. CASE t.delay = 0
  BY <1>3 DEF Tm!AfterDelay, Tm!Reloads, Tm!Timers
<1> QED
  BY <1>1, <1>2, <1>3, TimerConstants DEF Tm!Timers

(* An edge (of the clock or of a write) after which the window is as it    *)
(* was, or has just been opened.                                           *)
LEMMA CycledShape ==
  ASSUME NEW t \in Tm!Timers
  PROVE  /\ Tm!Cycled(t) \in Tm!Timers
         /\ t.delay > 1 => Tm!Cycled(t).delay = t.delay - 1 /\ Tm!Cycled(t).tima = t.tima
         /\ t.delay =< 1 => /\ Tm!Cycled(t).delay \in {0, ReloadDelay}
                            /\ Tm!Cycled(t).delay > 0 => Tm!Cycled(t).tima = 0
<1> DEFINE u == [Tm!AfterDelay(t) EXCEPT !.div = (t.div + 1) % DivModulus]
<1>1. u \in Tm!Timers /\ u.delay = Tm!AfterDelay(t).delay /\ u.tima = Tm!AfterDelay(t).tima
  <2>1. (t.div + 1) % DivModulus \in 0 .. DivModulus - 1
    BY TimerConstants DEF Tm!Timers
  <2> QED
    BY <2>1, Delay DEF Tm!Timers
<1>2. Tm!Cycled(t) \in {u, Tm!IncrementTima(u)}
  BY DEF Tm!Cycled
<1>3. t.delay \in Nat /\ u.delay \in Nat
  BY <1>1 DEF Tm!Timers
<1> HIDE DEF u
<1>4. CASE t.delay > 1
  <2>1. u.delay = t.delay - 1 /\ u.tima = t.tima
    BY <1>1, <1>3, <1>4, Delay
  <2> QED
    BY <1>1, <1>2, <1>3, <1>4, <2>1, Increment
<1>5. CASE t.delay =< 1
  <2>1. u.delay = 0
    BY <1>1, <1>3, <1>5, Delay
  <2> QED
    BY <1>1, <1>2, <1>3, <1>5, <2>1, Increment
<1> QED
  BY <1>3, <1>4, <1>5

LEMMA WrittenShape ==
  ASSUME NEW t \in Tm!Timers, NEW u \in Tm!Timers,
         \/ u = Tm!DivWritten(t)
         \/ \E on \in BOOLEAN, select \in Tm!Selects : u = Tm!TacWritten(t, on, select)
  PROVE  /\ t.delay > 0 => u.delay = t.delay /\ u.tima = t.tima
         /\ t.delay = 0 => /\ u.delay \in {0, ReloadDelay}
                           /\ u.delay > 0 => u.tima = 0
<1>1. CASE u = Tm!DivWritten(t)
  <2>1. u.delay \in {t.delay, Tm!IncrementTima(t).delay} /\ t.delay \in Nat
    BY <1>1, Increment DEF Tm!DivWritten, Tm!Timers
  <2>2. CASE Tm!TimerSignal(t)
    <3>1. u.delay = Tm!IncrementTima(t).delay /\ u.tima = Tm!IncrementTima(t).tima
      BY <1>1, <2>2, Increment DEF Tm!DivWritten, Tm!Timers
    <3> QED
      BY <2>1, <3>1, Increment
  <2>3. CASE ~ Tm!TimerSignal(t)
    BY <1>1, <2>3 DEF Tm!DivWritten, Tm!Timers
  <2> QED
    BY <2>2, <2>3
<1>2. ASSUME NEW on \in BOOLEAN, NEW select \in Tm!Selects, u = Tm!TacWritten(t, on, select)
      PROVE  /\ t.delay > 0 => u.delay = t.delay /\ u.tima = t.tima
             /\ t.delay = 0 => /\ u.delay \in {0, ReloadDelay}
                               /\ u.delay > 0 => u.tima = 0
  <2> DEFINE w == [t EXCEPT !.on = on, !.select = select]
  <2>1. w \in Tm!Timers /\ w.delay = t.delay /\ w.tima = t.tima /\ t.delay \in Nat
    <3>1. w \in Tm!Timers
      BY DEF Tm!Timers
    <3>2. w.delay = t.delay /\ w.tima = t.tima /\ t.delay \in Nat
      BY TimerConstants DEF Tm!Timers
    <3> QED
      BY <3>1, <3>2
  <2>2. u \in {w, Tm!IncrementTima(w)}
    BY <1>2, ZenonT(120) DEF Tm!TacWritten
  <2> HIDE DEF w
  <2> QED
    BY <2>1, <2>2, Increment
<1> QED
  BY <1>1, <1>2

LEMMA WrittenType ==
  ASSUME NEW t \in Tm!Timers
  PROVE  /\ Tm!DivWritten(t) \in Tm!Timers
         /\ \A on \in BOOLEAN, select \in Tm!Selects : Tm!TacWritten(t, on, select) \in Tm!Timers
         /\ \A v \in Values : Tm!TmaWritten(t, v) \in Tm!Timers /\ Tm!TimaWritten(t, v) \in Tm!Timers
<1>1. Tm!DivWritten(t) \in Tm!Timers
  BY Increment, TimerConstants DEF Tm!DivWritten, Tm!Timers
<1>2. ASSUME NEW on \in BOOLEAN, NEW select \in Tm!Selects
      PROVE  Tm!TacWritten(t, on, select) \in Tm!Timers
  <2>1. [t EXCEPT !.on = on, !.select = select] \in Tm!Timers
    BY DEF Tm!Timers
  <2> QED
    BY <2>1, Increment DEF Tm!TacWritten
<1>3. ASSUME NEW v \in Values
      PROVE  Tm!TmaWritten(t, v) \in Tm!Timers /\ Tm!TimaWritten(t, v) \in Tm!Timers
  <2>1. v \in 0 .. TimaModulus - 1 /\ 0 \in 0 .. ReloadDelay
    BY TimerConstants
  <2> QED
    BY <2>1 DEF Tm!TmaWritten, Tm!TimaWritten, Tm!Timers
<1> QED
  BY <1>1, <1>2, <1>3

-----------------------------------------------------------------------------
TimerInv == Tm!TypeOK /\ Tm!ReloadWindow

LEMMA TimerInit == Tm!Init => TimerInv
<1> SUFFICES ASSUME Tm!Init PROVE TimerInv
  OBVIOUS
<1>1. PICK d \in BootDivs :
        timer = [div |-> d, tima |-> 0, tma |-> 0, on |-> FALSE, select |-> 0, delay |-> 0]
  BY DEF Tm!Init
<1>2. d \in 0 .. DivModulus - 1 /\ 0 \in 0 .. TimaModulus - 1 /\ 0 \in 0 .. ReloadDelay
      /\ 0 \in Tm!Selects
  BY TimerConstants DEF Tm!Selects
<1>3. timer \in Tm!Timers
  BY <1>1, <1>2 DEF Tm!Timers
<1>4. timer.delay = 0 /\ waited = 0 /\ owed = FALSE /\ timer_if = FALSE
  BY <1>1 DEF Tm!Init
<1>5. Tm!ReloadWindow
  BY <1>4 DEF Tm!ReloadWindow
<1> QED
  BY <1>3, <1>4, <1>5 DEF TimerInv, Tm!TypeOK

LEMMA NotedInv ==
  ASSUME TimerInv, NEW u \in Tm!Timers, Tm!Noted(u), UNCHANGED timer_if,
         \/ u = Tm!DivWritten(timer)
         \/ \E on \in BOOLEAN, select \in Tm!Selects : u = Tm!TacWritten(timer, on, select)
  PROVE  TimerInv'
<1>1. timer \in Tm!Timers /\ timer.delay \in 0 .. ReloadDelay /\ u.delay \in 0 .. ReloadDelay
  BY DEF TimerInv, Tm!TypeOK, Tm!Timers
<1>2. ReloadDelay \in Nat /\ ReloadDelay > 0
  BY TimerConstants
<1>3. CASE timer.delay > 0
  <2>1. u.delay = timer.delay /\ u.tima = timer.tima
    BY <1>1, <1>3, WrittenShape
  <2>2. ~ Tm!Overflows(timer, u) /\ waited' = waited /\ owed' = owed
    BY <1>1, <1>2, <1>3, <2>1 DEF TimerInv, Tm!ReloadWindow, Tm!TypeOK, Tm!Noted, Tm!Overflows
  <2> QED
    BY <1>1, <1>3, <2>1, <2>2 DEF TimerInv, Tm!TypeOK, Tm!ReloadWindow, Tm!Noted
<1>4. CASE timer.delay = 0
  <2>1. u.delay \in {0, ReloadDelay} /\ (u.delay > 0 => u.tima = 0)
    BY <1>1, <1>4, WrittenShape
  <2>2. Tm!Overflows(timer, u) <=> u.delay > 0
    BY <1>1, <1>2, <1>4, <2>1 DEF Tm!Overflows
  <2>3. waited' = 0
    BY <2>2 DEF Tm!Noted
  <2>4. owed' <=> u.delay > 0
    <3>1. ~ owed
      BY <1>1, <1>4 DEF TimerInv, Tm!ReloadWindow
    <3> QED
      BY <2>2, <3>1 DEF Tm!Noted
  <2>5. owed' \in BOOLEAN
    BY DEF Tm!Noted
  <2>6. timer' = u
    BY DEF Tm!Noted
  <2> QED
    BY <1>1, <1>2, <2>1, <2>3, <2>4, <2>5, <2>6 DEF TimerInv, Tm!TypeOK, Tm!ReloadWindow
<1> QED
  BY <1>1, <1>3, <1>4

LEMMA CycleInv ==
  ASSUME TimerInv, Tm!Cycle
  PROVE  TimerInv'
<1>1. timer \in Tm!Timers /\ timer.delay \in 0 .. ReloadDelay /\ timer'.delay \in 0 .. ReloadDelay
      /\ timer' = Tm!Cycled(timer) /\ timer' \in Tm!Timers
  BY CycledShape DEF TimerInv, Tm!TypeOK, Tm!Cycle, Tm!Timers
<1>2. ReloadDelay \in Nat /\ ReloadDelay > 0 /\ waited \in Nat
  BY TimerConstants DEF TimerInv, Tm!TypeOK
<1>3. CASE timer.delay > 1
  <2>1. timer'.delay = timer.delay - 1 /\ timer'.tima = timer.tima
        /\ Tm!AfterDelay(timer).delay = timer.delay - 1 /\ ~ Tm!Reloads(timer)
    BY <1>1, <1>3, CycledShape, Delay
  <2>2. ~ Tm!Overflows(Tm!AfterDelay(timer), timer')
    BY <1>1, <1>2, <2>1 DEF Tm!Overflows
  <2>3. waited' = waited + 1
    BY <1>1, <1>3, <2>1, <2>2 DEF Tm!Cycle
  <2>4. owed' <=> owed
    BY <2>1, <2>2 DEF Tm!Cycle
  <2>5. owed' \in BOOLEAN /\ timer_if' \in BOOLEAN
    BY <2>1, <2>2 DEF Tm!Cycle, TimerInv, Tm!TypeOK, Tm!Reloads
  <2> QED
    BY <1>1, <1>2, <1>3, <2>1, <2>3, <2>4, <2>5 DEF TimerInv, Tm!TypeOK, Tm!ReloadWindow
<1>4. CASE timer.delay =< 1
  <2>1. timer'.delay \in {0, ReloadDelay} /\ (timer'.delay > 0 => timer'.tima = 0)
    BY <1>1, <1>4, CycledShape
  <2>2. Tm!AfterDelay(timer).delay = 0
    BY <1>1, <1>4, Delay
  <2>3. Tm!Reloads(timer) <=> timer.delay = 1
    BY <1>1, Delay
  <2>4. Tm!Overflows(Tm!AfterDelay(timer), timer') <=> timer'.delay > 0
    BY <1>1, <1>2, <2>1, <2>2 DEF Tm!Overflows
  <2>5. waited' = 0
    BY <1>1, <2>1, <2>4 DEF Tm!Cycle
  <2>6. owed => Tm!Reloads(timer)
    BY <1>1, <1>4, <2>3 DEF TimerInv, Tm!ReloadWindow
  <2>7. owed' <=> timer'.delay > 0
    BY <2>4, <2>6 DEF Tm!Cycle
  <2>8. owed' \in BOOLEAN /\ timer_if' \in BOOLEAN
    BY DEF Tm!Cycle, TimerInv, Tm!TypeOK, Tm!Reloads
  <2> QED
    BY <1>1, <1>2, <2>1, <2>5, <2>7, <2>8 DEF TimerInv, Tm!TypeOK, Tm!ReloadWindow
<1> QED
  BY <1>1, <1>3, <1>4

LEMMA TimerNext == TimerInv /\ [Tm!Next]_(Tm!vars) => TimerInv'
<1> SUFFICES ASSUME TimerInv, [Tm!Next]_(Tm!vars) PROVE TimerInv'
  OBVIOUS
<1>0. timer \in Tm!Timers
  BY DEF TimerInv, Tm!TypeOK
<1>1. ASSUME Tm!Cycle PROVE TimerInv'
  BY <1>1, CycleInv
<1>2. ASSUME Tm!WriteDiv PROVE TimerInv'
  BY <1>0, <1>2, NotedInv, WrittenType DEF Tm!WriteDiv
<1>3. ASSUME NEW on \in BOOLEAN, NEW select \in Tm!Selects, Tm!WriteTac(on, select) PROVE TimerInv'
  BY <1>0, <1>3, NotedInv, WrittenType DEF Tm!WriteTac
<1>4. ASSUME NEW v \in Values, Tm!WriteTma(v) PROVE TimerInv'
  <2>1. timer' \in Tm!Timers
    BY <1>0, <1>4, WrittenType DEF Tm!WriteTma
  <2>2. timer'.delay = timer.delay /\ timer'.tima = timer.tima
    BY <1>0, <1>4 DEF Tm!WriteTma, Tm!TmaWritten, Tm!Timers
  <2> QED
    BY <1>4, <2>1, <2>2 DEF Tm!WriteTma, TimerInv, Tm!TypeOK, Tm!ReloadWindow
<1>5. ASSUME NEW v \in Values, Tm!WriteTima(v) PROVE TimerInv'
  <2>1. timer' \in Tm!Timers
    BY <1>0, <1>5, WrittenType DEF Tm!WriteTima
  <2>2. timer'.delay = 0
    BY <1>0, <1>5 DEF Tm!WriteTima, Tm!TimaWritten, Tm!Timers
  <2>3. waited' = 0 /\ owed' = FALSE /\ timer_if' = timer_if
    BY <1>5 DEF Tm!WriteTima
  <2>4. Tm!ReloadWindow'
    BY <2>2, <2>3 DEF Tm!ReloadWindow
  <2> QED
    BY <2>1, <2>3, <2>4 DEF TimerInv, Tm!TypeOK
<1>6. ASSUME Tm!TakeInterrupt PROVE TimerInv'
  BY <1>6 DEF Tm!TakeInterrupt, TimerInv, Tm!TypeOK, Tm!ReloadWindow
<1>7. CASE UNCHANGED Tm!vars
  BY <1>7 DEF Tm!vars, TimerInv, Tm!TypeOK, Tm!ReloadWindow
<1> QED
  BY <1>1, <1>2, <1>3, <1>4, <1>5, <1>6, <1>7 DEF Tm!Next

LEMMA TimerInvariant == Tm!Spec => []TimerInv
BY TimerInit, TimerNext, PTL DEF Tm!Spec

(* Where the signal falls a whole period of the divider is over. *)
LEMMA PeriodEnds ==
  ASSUME NEW d \in Nat, NEW h \in Nat \ {0}, NEW m \in Nat \ {0}, d < m,
         (d \div h) % 2 = 1, (((d + 1) % m) \div h) % 2 = 0
  PROVE  ((d + 1) % m) % (2 * h) = 0
<1> DEFINE q == d \div h
           r == d % h
<1>1. d = h * q + r
  BY Z3
<1>2. r \in 0 .. h - 1
  BY Z3
<1>3. q \in Int /\ q % 2 = 1
  BY Z3
<1>4. ASSUME NEW p \in Int, NEW k \in 0 .. h - 1 PROVE (h * p + k) \div h = p
  BY Z3
<1>5. 2 * h \in Nat \ {0} /\ 0 \in 0 .. 2 * h - 1
  BY Z3
<1>6. \A p \in Int : (2 * h * p) % (2 * h) = 0
  BY Z3T(60)
<1>7. CASE d + 1 = m
  <2>1. (d + 1) % m = 0
    BY <1>7, Z3
  <2>2. (2 * h * 0) % (2 * h) = 0 /\ 2 * h * 0 = 0
    BY <1>6, Z3
  <2> QED BY <2>1, <2>2
<1>8. CASE d + 1 < m
  <2>1. (d + 1) % m = d + 1
    BY <1>8, Z3
  <2>2. CASE r + 1 < h
    <3> HIDE DEF q, r
    <3>1. r + 1 \in 0 .. h - 1
      BY <1>2, <2>2
    <3>2. (h * q + (r + 1)) \div h = q
      BY <1>3, <1>4, <3>1
    <3>3. h * q + (r + 1) = d + 1
      BY <1>1, <1>2, <1>3, Z3
    <3> QED BY <1>3, <2>1, <3>2, <3>3
  <2>3. CASE r + 1 = h
    <3> HIDE DEF q, r
    <3>1. PICK p \in Int : q + 1 = 2 * p
      <4>1. q + 1 = 2 * ((q + 1) \div 2) /\ (q + 1) \div 2 \in Int
        BY <1>3
      <4> QED BY <4>1
    <3>2. d + 1 = h * (q + 1)
      BY <1>1, <1>2, <1>3, <2>3, Z3
    <3>3. h * (2 * p) = 2 * h * p
      BY Z3
    <3> QED BY <1>6, <2>1, <3>1, <3>2, <3>3
  <2> QED BY <1>2, <2>2, <2>3
<1> QED BY <1>7, <1>8

(* What one cycle does to TIMA: the reload takes TMA, and without one only *)
(* a falling edge outside the window counts.                               *)
LEMMA CycleMovesTima ==
  ASSUME NEW t \in Tm!Timers
  PROVE  /\ Tm!Reloads(t) => Tm!Cycled(t).tima \in {t.tma, (t.tma + 1) % TimaModulus}
         /\ Tm!Cycled(t).div = (t.div + 1) % DivModulus
         /\ ~ Tm!Reloads(t) /\ Tm!Cycled(t).tima # t.tima =>
              /\ t.on /\ (t.div \div HalfPeriod[t.select]) % 2 = 1
              /\ (((t.div + 1) % DivModulus) \div HalfPeriod[t.select]) % 2 = 0
<1> DEFINE a == Tm!AfterDelay(t)
           u == [a EXCEPT !.div = (t.div + 1) % DivModulus]
<1>1. a \in Tm!Timers /\ (t.delay = 0 => a = t) /\ (t.delay > 0 => a.delay = t.delay - 1)
      /\ (t.delay > 1 => a.tima = t.tima) /\ (Tm!Reloads(t) <=> t.delay = 1)
  BY Delay
<1>2. t.delay \in Nat /\ t.tma \in 0 .. TimaModulus - 1 /\ (t.div + 1) % DivModulus \in 0 .. DivModulus - 1
  BY TimerConstants DEF Tm!Timers
<1>3. a.on = t.on /\ a.select = t.select /\ a.tma = t.tma /\ (Tm!Reloads(t) => a.tima = t.tma)
  BY DEF Tm!AfterDelay, Tm!Timers
<1>4. /\ u \in Tm!Timers /\ u.on = t.on /\ u.select = t.select /\ u.delay = a.delay
      /\ u.tima = a.tima /\ u.div = (t.div + 1) % DivModulus
  BY <1>1, <1>2, <1>3 DEF Tm!Timers
<1>5. Tm!Cycled(t) = IF Tm!TimerSignal(t) /\ ~ Tm!TimerSignal(u) THEN Tm!IncrementTima(u) ELSE u
  BY DEF Tm!Cycled
<1> HIDE DEF a, u
<1>6. Tm!IncrementTima(u).div = u.div /\ (u.delay > 0 => Tm!IncrementTima(u) = u)
  BY <1>4, Increment
<1>7. Tm!Cycled(t).div = (t.div + 1) % DivModulus
  BY <1>4, <1>5, <1>6
<1>8. ASSUME Tm!Reloads(t)
      PROVE  Tm!Cycled(t).tima \in {t.tma, (t.tma + 1) % TimaModulus}
  <2>1. u.delay = 0 /\ u.tima = t.tma
    BY <1>1, <1>2, <1>3, <1>4, <1>8
  <2>2. Tm!IncrementTima(u).tima = IF t.tma = TimaModulus - 1 THEN 0 ELSE t.tma + 1
    BY <1>4, <2>1 DEF Tm!IncrementTima, Tm!Timers
  <2>3. (t.tma + 1) % TimaModulus = IF t.tma = TimaModulus - 1 THEN 0 ELSE t.tma + 1
    BY <1>2, TimerConstants, Z3
  <2> QED BY <1>5, <2>1, <2>2, <2>3
<1>9. ASSUME ~ Tm!Reloads(t), Tm!Cycled(t).tima # t.tima
      PROVE  /\ t.on /\ (t.div \div HalfPeriod[t.select]) % 2 = 1
             /\ (((t.div + 1) % DivModulus) \div HalfPeriod[t.select]) % 2 = 0
  <2>1. u.tima = t.tima
    BY <1>1, <1>2, <1>4, <1>9
  <2>2. Tm!TimerSignal(t) /\ ~ Tm!TimerSignal(u)
    BY <1>5, <1>9, <2>1
  <2>3. t.on /\ (t.div \div HalfPeriod[t.select]) % 2 = 1
    BY <2>2 DEF Tm!TimerSignal, Tm!Signal
  <2>4. ~ ((u.div \div HalfPeriod[u.select]) % 2 = 1)
    BY <1>4, <2>2, <2>3 DEF Tm!TimerSignal, Tm!Signal
  <2>5. \A x \in Nat : x % 2 = 1 \/ x % 2 = 0
    OBVIOUS
  <2>6. u.div \div HalfPeriod[u.select] \in Nat
    <3>1. u.div \in Nat /\ HalfPeriod[u.select] \in Nat \ {0}
      BY <1>2, <1>4, TimerConstants DEF Tm!Timers, Tm!Selects
    <3> QED BY <3>1, Z3
  <2> QED BY <1>4, <2>3, <2>4, <2>5, <2>6
<1> QED BY <1>7, <1>8, <1>9

(* A step requests the interrupt only with the reload, reloads only with   *)
(* the interrupt, and counts only at whole periods.                        *)
LEMMA StepCountsAndAsks ==
  ASSUME TimerInv, [Tm!Next]_(Tm!vars)
  PROVE  /\ ~ timer_if /\ timer_if' =>
              owed /\ timer'.tima \in {timer.tma, (timer.tma + 1) % TimaModulus}
         /\ owed /\ ~ owed' => timer_if' \/ \E v \in Values : Tm!WriteTima(v)
         /\ Tm!Cycle /\ timer'.tima # timer.tima =>
              \/ Tm!Reloads(timer)
              \/ timer.on /\ timer'.div % (2 * HalfPeriod[timer.select]) = 0
<1>1. timer \in Tm!Timers /\ (owed <=> timer.delay > 0)
  BY DEF TimerInv, Tm!TypeOK, Tm!ReloadWindow
<1>2. Tm!Reloads(timer) => owed
  BY <1>1 DEF Tm!Reloads
<1>3. ASSUME ~ timer_if, timer_if' PROVE Tm!Cycle /\ Tm!Reloads(timer)
  BY <1>3 DEF Tm!Next, Tm!vars, Tm!Cycle, Tm!WriteDiv, Tm!WriteTac, Tm!WriteTma, Tm!WriteTima,
              Tm!TakeInterrupt
<1>4. ASSUME owed, ~ owed'
      PROVE  (Tm!Cycle /\ Tm!Reloads(timer)) \/ \E v \in Values : Tm!WriteTima(v)
  BY <1>4 DEF Tm!Next, Tm!vars, Tm!Cycle, Tm!WriteDiv, Tm!WriteTac, Tm!WriteTma,
              Tm!TakeInterrupt, Tm!Noted
<1>5. Tm!Cycle => timer' = Tm!Cycled(timer) /\ (Tm!Reloads(timer) => timer_if')
  BY DEF Tm!Cycle
<1>6. ASSUME Tm!Cycle, timer'.tima # timer.tima, ~ Tm!Reloads(timer)
      PROVE  timer.on /\ timer'.div % (2 * HalfPeriod[timer.select]) = 0
  <2>1. timer.div \in 0 .. DivModulus - 1 /\ HalfPeriod[timer.select] \in Nat \ {0}
        /\ DivModulus \in Nat \ {0}
    BY <1>1, TimerConstants DEF Tm!Timers, Tm!Selects
  <2>2. /\ timer'.div = (timer.div + 1) % DivModulus /\ timer.on
        /\ (timer.div \div HalfPeriod[timer.select]) % 2 = 1
        /\ (((timer.div + 1) % DivModulus) \div HalfPeriod[timer.select]) % 2 = 0
    BY <1>1, <1>5, <1>6, CycleMovesTima
  <2> DEFINE h == HalfPeriod[timer.select]
             d == timer.div
  <2>3. d \in Nat /\ d < DivModulus /\ h \in Nat \ {0}
    BY <2>1
  <2>4. (d \div h) % 2 = 1 /\ (((d + 1) % DivModulus) \div h) % 2 = 0
    BY <2>2
  <2> HIDE DEF h, d
  <2>5. ((d + 1) % DivModulus) % (2 * h) = 0
    BY <2>1, <2>3, <2>4, PeriodEnds
  <2> QED BY <2>2, <2>5 DEF h, d
<1> QED BY <1>1, <1>2, <1>3, <1>4, <1>5, <1>6, CycleMovesTima

(* TIMA's reload comes a fixed number of cycles after its overflow, and    *)
(* TIMA reads zero until then, whatever the program writes to the other    *)
(* three registers in the window (timer.rs, tick and the writes).          *)
LEMMA TimerReloads == Tm!Spec => [](Tm!TypeOK /\ Tm!ReloadWindow)
<1>1. TimerInv => Tm!TypeOK /\ Tm!ReloadWindow
  BY DEF TimerInv
<1> QED
  BY <1>1, TimerInvariant, PTL

(* The interrupt comes with the reload and never without, and TIMA counts  *)
(* whole periods of the selected bit (timer.rs, tick).                     *)
LEMMA TimerCounts == Tm!Spec => Tm!InterruptIsReload /\ Tm!CountsWholePeriods
<1>1. TimerInv /\ [Tm!Next]_(Tm!vars) =>
        [/\ ~ timer_if /\ timer_if' =>
               owed /\ timer'.tima \in {timer.tma, (timer.tma + 1) % TimaModulus}
         /\ owed /\ ~ owed' => timer_if' \/ \E v \in Values : Tm!WriteTima(v)]_(Tm!vars)
  BY StepCountsAndAsks
<1>2. TimerInv /\ [Tm!Next]_(Tm!vars) =>
        [Tm!Cycle /\ timer'.tima # timer.tima =>
           \/ Tm!Reloads(timer)
           \/ timer.on /\ timer'.div % (2 * HalfPeriod[timer.select]) = 0]_(Tm!vars)
  BY StepCountsAndAsks
<1> QED BY TimerInvariant, <1>1, <1>2, PTL
        DEF Tm!Spec, Tm!InterruptIsReload, Tm!CountsWholePeriods

-----------------------------------------------------------------------------
LEMMA ModRange ==
    ASSUME NEW a \in Int, NEW n \in Nat \ {0}
    PROVE  a % n \in 0 .. n - 1
  OBVIOUS

LEMMA DotsPassedNat ==
    ASSUME NEW cost \in Costs, NEW effect \in Fc!Effects, double \in BOOLEAN
    PROVE  Fc!DotsPassed(cost, effect) \in Nat
  <1> DEFINE frozen == IF effect = "switch_speed" THEN FreezeCycles ELSE 0
  <1>1. cost \in Nat /\ frozen \in Nat
    BY FrameClockConstantsAssumption
  <1>2. (cost + frozen) \div 2 \in Int /\ frozen \div 2 \in Int
        /\ (cost + frozen) \div 2 >= frozen \div 2
    BY <1>1
  <1> QED BY <1>1, <1>2 DEF Fc!DotsPassed, Fc!ToDots

(* What a step leaves within its shape, whatever the instruction did.       *)
LEMMA StepKeepsShape ==
    ASSUME Fc!TypeOK, Fc!PhaseIsPosition,
           NEW cost \in Costs, NEW effect \in Fc!Effects, NEW stall \in {0, BlockStall},
           NEW filled \in BOOLEAN, Fc!Step(cost, effect, stall, filled)
    PROVE  Fc!TypeOK' /\ Fc!PhaseIsPosition'
  <1> DEFINE dots == Fc!DotsPassed(cost, effect) + stall
  <1>1. FrameDots \in Nat \ {0} /\ dots \in Nat
    BY DotsPassedNat, FrameClockConstantsAssumption DEF Fc!TypeOK
  <1>2. Fc!LcdAfter(effect) \in BOOLEAN
    BY DEF Fc!LcdAfter, Fc!TypeOK
  <1>3. Fc!DotAfter(effect) \in 0 .. FrameDots - 1 /\ Fc!PhaseAfter(effect) \in 0 .. FrameDots - 1
    BY <1>1 DEF Fc!DotAfter, Fc!PhaseAfter, Fc!TypeOK
  <1>4. lcd' \in BOOLEAN /\ double' \in BOOLEAN
    BY <1>2 DEF Fc!Step, Fc!TypeOK
  <1>5. dot' \in 0 .. FrameDots - 1 /\ frame_phase' \in 0 .. FrameDots - 1
    <2>1. Fc!DotAfter(effect) + dots \in Int /\ Fc!PhaseAfter(effect) + dots \in Int
      BY <1>1, <1>3
    <2>2. (Fc!DotAfter(effect) + dots) % FrameDots \in 0 .. FrameDots - 1
      BY <1>1, <2>1, ModRange
    <2>3. (Fc!PhaseAfter(effect) + dots) % FrameDots \in 0 .. FrameDots - 1
      BY <1>1, <2>1, ModRange
    <2> QED BY <1>1, <2>2, <2>3 DEF Fc!Step
  <1>6. call' \in [loop : {"none", "frame", "slice", "audio"},
                   steps : Nat \cup {Fc!NoLimit}, cycles : Nat \cup {Fc!NoLimit},
                   done : BOOLEAN]
    <2>1. Fc!CyclesReported(cost, effect) \in Nat
      BY FrameClockConstantsAssumption DEF Fc!CyclesReported
    <2>2. ASSUME NEW n \in Nat \cup {Fc!NoLimit}, NEW used \in Nat
          PROVE  Fc!Remaining(n, used) \in Nat \cup {Fc!NoLimit}
      BY DEF Fc!Remaining, Fc!NoLimit
    <2>3. Fc!Remaining(call.steps, 1) \in Nat \cup {Fc!NoLimit}
          /\ Fc!Remaining(call.cycles, Fc!CyclesReported(cost, effect)) \in Nat \cup {Fc!NoLimit}
      BY <2>1, <2>2 DEF Fc!TypeOK
    <2>4. (IF Fc!Running("audio") THEN filled
           ELSE Fc!PhaseAfter(effect) + dots >= FrameDots) \in BOOLEAN
      <3>1. (Fc!PhaseAfter(effect) + dots >= FrameDots) \in BOOLEAN
        BY <1>1, <1>3
      <3> QED BY <3>1, Zenon
    <2> QED BY <2>3, <2>4 DEF Fc!Step, Fc!TypeOK
  <1>7. Fc!PhaseIsPosition'
    <2>1. SUFFICES ASSUME Fc!LcdAfter(effect) PROVE Fc!DotAfter(effect) = Fc!PhaseAfter(effect)
      BY DEF Fc!Step, Fc!PhaseIsPosition
    <2>2. CASE effect \in {"lcdc_on", "lcdc_off"}
      BY <2>2 DEF Fc!PhaseAfter
    <2>3. CASE effect \notin {"lcdc_on", "lcdc_off"}
      BY <2>1, <2>3 DEF Fc!PhaseAfter, Fc!DotAfter, Fc!LcdAfter, Fc!PhaseIsPosition
    <2> QED BY <2>2, <2>3
  <1> QED BY <1>4, <1>5, <1>6, <1>7 DEF Fc!TypeOK

(* For every frame length, instruction cost, freeze and stall: whenever the *)
(* LCD is on, the nominal frame phase kept by advance_clocks equals the     *)
(* position Ppu::tick keeps, so frames are counted where pictures end.      *)
LEMMA PhaseFollows == Fc!Spec => []Fc!PhaseIsPosition
  <1>1. Fc!Init => Fc!TypeOK /\ Fc!PhaseIsPosition
    BY FrameClockConstantsAssumption
    DEF Fc!Init, Fc!TypeOK, Fc!PhaseIsPosition, Fc!Idle, Fc!NoLimit
  <1>2. Fc!TypeOK /\ Fc!PhaseIsPosition /\ [Fc!Next]_(Fc!vars) => (Fc!TypeOK /\ Fc!PhaseIsPosition)'
    <2> SUFFICES ASSUME Fc!TypeOK, Fc!PhaseIsPosition, [Fc!Next]_(Fc!vars)
                 PROVE  Fc!TypeOK' /\ Fc!PhaseIsPosition'
      OBVIOUS
    <2>1. CASE Fc!Begin
      <3>1. UNCHANGED <<lcd, dot, frame_phase, double>>
        BY <2>1 DEF Fc!Begin
      <3>2. Fc!ToCycles(FrameDots, double) \in Nat
        BY FrameClockConstantsAssumption DEF Fc!ToCycles
      <3>3. call' \in [loop : {"none", "frame", "slice", "audio"},
                       steps : Nat \cup {Fc!NoLimit}, cycles : Nat \cup {Fc!NoLimit},
                       done : BOOLEAN]
        <4>1. CASE Fc!RunFrame
          BY <4>1 DEF Fc!RunFrame, Fc!Begun
        <4>2. CASE Fc!RunSlice
          BY <4>2, FrameClockConstantsAssumption DEF Fc!RunSlice, Fc!Begun
        <4>3. CASE Fc!RunAudioSlice
          BY <4>3, <3>2, FrameClockConstantsAssumption DEF Fc!RunAudioSlice, Fc!Begun
        <4> QED BY <2>1, <4>1, <4>2, <4>3 DEF Fc!Begin
      <3> QED BY <3>1, <3>3 DEF Fc!TypeOK, Fc!PhaseIsPosition
    <2>2. CASE Fc!AnyStep
      BY <2>2, StepKeepsShape DEF Fc!AnyStep
    <2>3. CASE Fc!Return
      BY <2>3 DEF Fc!Return, Fc!Idle, Fc!TypeOK, Fc!PhaseIsPosition
    <2>4. CASE UNCHANGED Fc!vars
      BY <2>4 DEF Fc!vars, Fc!TypeOK, Fc!PhaseIsPosition
    <2> QED BY <2>1, <2>2, <2>3, <2>4 DEF Fc!Next
  <1> QED BY <1>1, <1>2, PTL DEF Fc!Spec

-----------------------------------------------------------------------------
(* The serial port. *)

(* What shifting in k ones does to a byte, for the eight shifts there are. *)
LEMMA Powers ==
  /\ 2^0 = 1 /\ 2^1 = 2 /\ 2^2 = 4 /\ 2^3 = 8 /\ 2^4 = 16 /\ 2^5 = 32 /\ 2^6 = 64
  /\ 2^7 = 128 /\ 2^8 = 256
OBVIOUS

LEMMA PowerNat ==
  ASSUME NEW j \in 0 .. 8
  PROVE  2^j \in Nat \ {0}
<1> DEFINE p == [n \in 0 .. 8 |-> 2^n]
<1>1. /\ p[0] = 1 /\ p[1] = 2 /\ p[2] = 4 /\ p[3] = 8 /\ p[4] = 16 /\ p[5] = 32
      /\ p[6] = 64 /\ p[7] = 128 /\ p[8] = 256
  BY Powers
<1>2. p[j] = 2^j
  OBVIOUS
<1> HIDE DEF p
<1> QED
  BY <1>1, <1>2

LEMMA PowersMultiply ==
  ASSUME NEW j \in 0 .. 8, NEW k \in 0 .. 8, j + k =< 8
  PROVE  2^(j + k) = 2^j * 2^k
<1> DEFINE p == [n \in 0 .. 8 |-> 2^n]
<1>1. /\ p[0] = 1 /\ p[1] = 2 /\ p[2] = 4 /\ p[3] = 8 /\ p[4] = 16 /\ p[5] = 32
      /\ p[6] = 64 /\ p[7] = 128 /\ p[8] = 256
  BY Powers
<1>2. p[j] = 2^j /\ p[k] = 2^k /\ p[j + k] = 2^(j + k)
  OBVIOUS
<1> HIDE DEF p
<1> QED
  BY <1>1, <1>2

LEMMA Modulo ==
  ASSUME NEW x \in Int
  PROVE  (x % 256) = x - 256 * (x \div 256) /\ (x \div 256) \in Int /\ (x % 256) \in Sr!Byte
BY DEF Sr!Byte

LEMMA Wraps ==
  ASSUME NEW y \in Int, NEW m \in Int
  PROVE  (y - 256 * m) % 256 = y % 256
OBVIOUS

(* Shifting in j ones and then k is shifting in j + k. *)
LEMMA ShiftsCompose ==
  ASSUME NEW b \in Int, NEW j \in 0 .. 8, NEW k \in 0 .. 8, j + k =< 8
  PROVE  Sr!ShiftedIn(Sr!ShiftedIn(b, j), k) = Sr!ShiftedIn(b, j + k)
<1> DEFINE p == 2^j
           r == 2^k
           x == (b * p) + p - 1
           q == x \div 256
           z == (b * (p * r)) + (p * r) - 1
<1>1. p \in Nat /\ r \in Nat /\ 2^(j + k) = p * r
  BY PowerNat, PowersMultiply
<1>2. Sr!ShiftedIn(b, j) = x % 256 /\ Sr!ShiftedIn(Sr!ShiftedIn(b, j), k) = (((x % 256) * r) + r - 1) % 256
  BY DEF Sr!ShiftedIn
<1>3. Sr!ShiftedIn(b, j + k) = z % 256
  BY <1>1 DEF Sr!ShiftedIn
<1> HIDE DEF p, r
<1>4. x \in Int /\ z \in Int
  <2>1. b * p \in Int /\ p * r \in Int
    BY <1>1, Z3
  <2>2. b * (p * r) \in Int
    BY <2>1, Z3
  <2> QED
    BY <1>1, <2>1, <2>2
<1>5. (x % 256) = x - 256 * q /\ q \in Int
  <2> HIDE DEF x
  <2> QED
    BY <1>4, Modulo
<1> HIDE DEF q
<1>6. ((x - 256 * q) * r) + r - 1 = z - 256 * (q * r)
  BY <1>1, <1>5, Z3
<1>7. q * r \in Int
  BY <1>1, <1>5, Z3
<1> HIDE DEF x, z
<1>8. (z - 256 * (q * r)) % 256 = z % 256
  BY <1>4, <1>7, Wraps, ZenonT(120), ZenonT(120)
<1> QED
  BY <1>2, <1>3, <1>5, <1>6, <1>8

LEMMA ShiftByNone ==
  ASSUME NEW b \in Sr!Byte
  PROVE  Sr!ShiftedIn(b, 0) = b
<1>1. 2^0 = 1
  BY Powers
<1>2. b % 256 = b
  BY DEF Sr!Byte
<1> QED
  BY <1>1, <1>2 DEF Sr!ShiftedIn, Sr!Byte

LEMMA ShiftedByte ==
  ASSUME NEW b \in Int, NEW k \in 0 .. 8
  PROVE  Sr!ShiftedIn(b, k) \in Sr!Byte
<1>1. 2^k \in Nat
  BY PowerNat
<1> DEFINE r == 2^k
<1> HIDE DEF r
<1>2. (b * r) + r - 1 \in Int
  BY <1>1 DEF r
<1> QED
  BY <1>2, Modulo DEF Sr!ShiftedIn, r

(* The port's own consistency, and its history's shape. *)
PortInv ==
  /\ Sr!PortConsistent /\ Sr!ExactBitTime
  /\ serial_if \in BOOLEAN /\ attached \in BOOLEAN
  /\ shifted \in Nat
  /\ shifting = << >> \/ \E b \in Sr!Byte : shifting = <<b>>

LEMMA PortInit == Sr!Init => PortInv
<1> SUFFICES ASSUME Sr!Init PROVE PortInv
  OBVIOUS
<1>1. 0 \in 0 .. AccumLimit /\ 0 \in 0 .. 8 /\ 0 \in Sr!Byte
  BY SerialAssumption DEF Sr!Byte
<1>2. Sr!ResetPort \in Sr!Ports
  BY <1>1 DEF Sr!ResetPort, Sr!Ports
<1>3. /\ port = Sr!ResetPort /\ serial_if = FALSE /\ attached = FALSE
      /\ shifted = 0 /\ shifting = << >>
  BY DEF Sr!Init
<1>4. port.active = FALSE /\ port.start = FALSE /\ port.bits = 0
  BY <1>3 DEF Sr!ResetPort
<1>5. Sr!PortConsistent /\ Sr!ExactBitTime
  BY <1>2, <1>3, <1>4 DEF Sr!PortConsistent, Sr!ExactBitTime
<1> QED
  BY <1>3, <1>5 DEF PortInv

(* Nothing is lost to the narrowing or to the saturation. *)
LEMMA NothingIsCut ==
  ASSUME NEW p \in Sr!Ports, NEW n \in SerialChunks, p.accum < BitCycles
  PROVE  Sr!Accumulated(p, n) = p.accum + n /\ n \in Nat /\ p.accum \in Nat
<1>1. n \in Nat /\ p.accum \in Nat /\ n + BitCycles - 1 =< AccumLimit
  BY SerialAssumption DEF Sr!Ports
<1>2. n % (AccumLimit + 1) = n
  BY <1>1, SerialAssumption
<1> QED
  BY <1>1, <1>2, SerialAssumption DEF Sr!Accumulated

LEMMA ProductOrder ==
  ASSUME NEW a \in Nat, NEW b \in Nat, NEW h \in Nat, a =< b
  PROVE  a * h =< b * h /\ a * h \in Nat /\ b * h \in Nat
<1>1. PICK d \in Nat : b = a + d
  <2>1. b - a \in Nat /\ b = a + (b - a)
    OBVIOUS
  <2> QED
    BY <2>1
<1>2. (a + d) * h = a * h + d * h
  BY <1>1, Z3
<1>3. a * h \in Nat /\ d * h \in Nat
  BY <1>1, Z3
<1> QED
  BY <1>1, <1>2, <1>3

LEMMA WholeBits ==
  ASSUME NEW sum \in Nat, NEW h \in Nat \ {0}
  PROVE  /\ (sum \div h) \in Nat
         /\ sum - h * (sum \div h) \in 0 .. h - 1
OBVIOUS

(* The bits that are due leave, and what is left of the cycles is kept. *)
LEMMA BitsLeave ==
  ASSUME NEW p \in Sr!Ports, NEW n \in SerialChunks, p.accum < BitCycles
  PROVE  /\ Sr!BitsDue(p, n) \in 0 .. p.bits
         /\ (p.accum + n) - Sr!BitsDue(p, n) * BitCycles \in Nat
         /\ Sr!BitsDue(p, n) # p.bits => (p.accum + n) - Sr!BitsDue(p, n) * BitCycles < BitCycles
<1> DEFINE sum == p.accum + n
           due == sum \div BitCycles
           k == Sr!BitsDue(p, n)
<1>1. sum \in Nat /\ Sr!Accumulated(p, n) = sum /\ p.bits \in Nat
  BY NothingIsCut DEF Sr!Ports
<1>2. k = IF due > p.bits THEN p.bits ELSE due
  BY <1>1 DEF Sr!BitsDue
<1>3. due \in Nat /\ sum - BitCycles * due \in 0 .. BitCycles - 1
  <2> HIDE DEF sum
  <2> QED
    BY <1>1, SerialAssumption, WholeBits
<1>4. BitCycles \in Nat
  BY SerialAssumption
<1> SUFFICES /\ k \in 0 .. p.bits
             /\ sum - k * BitCycles \in Nat
             /\ k # p.bits => sum - k * BitCycles < BitCycles
  OBVIOUS
<1> HIDE DEF k, due, sum
<1>5. CASE due > p.bits
  <2>1. k = p.bits
    BY <1>2, <1>5
  <2>2. /\ p.bits * BitCycles =< due * BitCycles
        /\ p.bits * BitCycles \in Nat /\ due * BitCycles \in Nat
    BY <1>1, <1>3, <1>4, <1>5, ProductOrder
  <2>3. sum - due * BitCycles \in Nat
    BY <1>3, <1>4, Z3
  <2>4. k \in 0 .. p.bits /\ sum - k * BitCycles \in Nat
    BY <2>1, <2>2, <2>3, <1>1
  <2> QED
    BY <2>1, <2>4
<1>6. CASE ~ (due > p.bits)
  <2>1. k = due
    BY <1>2, <1>6
  <2>2. due * BitCycles = BitCycles * due
    BY <1>3, <1>4, Z3
  <2>3. k \in 0 .. p.bits /\ sum - k * BitCycles \in 0 .. BitCycles - 1
    BY <2>1, <2>2, <1>1, <1>3, <1>6
  <2> QED
    BY <2>3, <1>4
<1> QED
  BY <1>5, <1>6

(* A chunk moves the bits it is due; the byte is over with its last bit. *)
LEMMA TickFields ==
  ASSUME PortInv, NEW n \in SerialChunks, port.active, port.internal
  PROVE  LET k == Sr!BitsDue(port, n)
             q == Sr!Ticked(port, n)
         IN /\ q \in Sr!Ports
            /\ q.internal = port.internal /\ q.active = q.start
            /\ k \in 0 .. port.bits /\ q.bits = port.bits - k
            /\ q.accum = (port.accum + n) - k * BitCycles
            /\ q.sb = Sr!ShiftedIn(port.sb, k)
            /\ Sr!TickCompletes(port, n) <=> k = port.bits
            /\ q.active <=> k # port.bits
<1> DEFINE k == Sr!BitsDue(port, n)
           q == [port EXCEPT !.accum = Sr!Accumulated(port, n) - k * BitCycles,
                             !.bits = port.bits - k,
                             !.sb = Sr!ShiftedIn(port.sb, k)]
           a == (port.accum + n) - k * BitCycles
           b == Sr!ShiftedIn(port.sb, k)
           u == Sr!Ticked(port, n)
<1>1. /\ port \in Sr!Ports /\ port.accum < BitCycles /\ port.bits > 0
      /\ port.active = TRUE /\ port.start = TRUE /\ port.internal = TRUE
      /\ port.bits \in 0 .. 8 /\ port.sb \in Int /\ port.accum \in 0 .. AccumLimit
  <2>1. port \in Sr!Ports /\ port.accum < BitCycles /\ port.bits > 0 /\ port.start
    BY DEF PortInv, Sr!PortConsistent, Sr!ExactBitTime
  <2>2. port.active \in BOOLEAN /\ port.start \in BOOLEAN /\ port.internal \in BOOLEAN
    BY <2>1 DEF Sr!Ports
  <2>3. port.bits \in 0 .. 8 /\ port.sb \in Int /\ port.accum \in 0 .. AccumLimit
    BY <2>1 DEF Sr!Ports, Sr!Byte
  <2> QED
    BY <2>1, <2>2, <2>3
<1>2. k \in 0 .. port.bits /\ k \in 0 .. 8 /\ a \in Nat
  BY <1>1, BitsLeave
<1>3. Sr!Accumulated(port, n) = port.accum + n /\ n \in Nat /\ port.accum + n =< AccumLimit
  BY <1>1, NothingIsCut, SerialAssumption
<1>4. a \in 0 .. AccumLimit
  <2>1. k * BitCycles \in Nat
    BY <1>2, SerialAssumption, ProductOrder
  <2> HIDE DEF k
  <2> QED
    BY <2>1, <1>1, <1>2, <1>3, SerialAssumption
<1>5. b \in Sr!Byte
  BY <1>1, <1>2, ShiftedByte
<1>6. Sr!TickCompletes(port, n) <=> k = port.bits
  BY <1>1 DEF Sr!TickCompletes
<1>7. q = [port EXCEPT !.accum = a, !.bits = port.bits - k, !.sb = b]
  BY <1>3
<1>8. u = IF k = port.bits THEN Sr!Finished(q) ELSE q
  BY <1>1, <1>6 DEF Sr!Ticked
<1> SUFFICES /\ u \in Sr!Ports
             /\ u.internal = port.internal /\ u.active = u.start
             /\ k \in 0 .. port.bits /\ u.bits = port.bits - k
             /\ u.accum = a /\ u.sb = b
             /\ u.active <=> k # port.bits
  BY <1>6
<1>9. port.bits - k \in 0 .. 8
  BY <1>1, <1>2
<1> HIDE DEF k, a, b, u, q
<1>10. /\ q \in Sr!Ports /\ q.internal = TRUE /\ q.active = TRUE /\ q.start = TRUE
       /\ q.bits = port.bits - k /\ q.accum = a /\ q.sb = b
  BY <1>1, <1>4, <1>5, <1>7, <1>9 DEF Sr!Ports
<1>11. CASE k = port.bits
  <2>1. u = [q EXCEPT !.start = FALSE, !.active = FALSE]
    BY <1>8, <1>11 DEF Sr!Finished
  <2> QED
    BY <2>1, <1>1, <1>2, <1>10, <1>11 DEF Sr!Ports
<1>12. CASE k # port.bits
  BY <1>1, <1>2, <1>8, <1>10, <1>12
<1> QED
  BY <1>11, <1>12

(* The byte's own time: whatever the cut, the bits gone are the cycles gone. *)
LEMMA ByteTimeLaw ==
  ASSUME NEW bits \in 1 .. 8, NEW k \in 0 .. 8, k < bits, NEW acc \in Nat, NEW n \in Nat,
         (acc + n) - k * BitCycles \in Nat, (acc + n) - k * BitCycles < BitCycles
  PROVE  LET e == ((8 - bits) * BitCycles) + acc
             f == ((8 - (bits - k)) * BitCycles) + ((acc + n) - k * BitCycles)
         IN e + n = f /\ Sr!AtMost(e + n, Sr!ByteTime) = f
<1> DEFINE c == BitCycles
           g == 8 - bits
           r == (acc + n) - k * c
           h == g + k
<1>1. c \in Nat /\ g \in 0 .. 7 /\ h \in 0 .. 7 /\ 8 - (bits - k) = h
  BY SerialAssumption
<1>2. (g * c) + acc + n = (h * c) + r
  BY <1>1, Z3
<1>3. h * c =< 7 * c
  BY <1>1, ProductOrder
<1>4. h * c \in Nat /\ (8 - bits) * c \in Nat
  BY <1>1, ProductOrder
<1>5. r \in Nat /\ r < c
  OBVIOUS
<1> DEFINE e == ((8 - bits) * c) + acc
           f == (h * c) + r
<1>6. e + n = f
  BY <1>2, <1>4
<1>7. Sr!ByteTime = 8 * c
  BY DEF Sr!ByteTime
<1> DEFINE m == h * c
<1>8. m + r =< 8 * c
  <2> HIDE DEF m, r, c
  <2> QED
    BY <1>1, <1>3, <1>4, <1>5 DEF m
<1>9. Sr!AtMost(e + n, Sr!ByteTime) = f
  <2>1. f \in Nat /\ ~ (f > 8 * c)
    <3> HIDE DEF r, c, h
    <3> QED
      BY <1>1, <1>4, <1>5, <1>8
  <2> HIDE DEF e, f, c
  <2> QED
    BY <1>6, <1>7, <2>1 DEF Sr!AtMost
<1> QED
  BY <1>1, <1>6, <1>9

LEMMA ClockInv ==
  ASSUME PortInv, NEW n \in SerialChunks, Sr!Clock(n)
  PROVE  PortInv'
<1>1. /\ port' = Sr!Ticked(port, n)
      /\ serial_if' = (serial_if \/ Sr!TickCompletes(port, n))
      /\ attached' = attached /\ shifting' = shifting
      /\ shifted' = IF port.active /\ port.internal THEN Sr!AtMost(shifted + n, Sr!ByteTime)
                    ELSE shifted
  BY DEF Sr!Clock
<1>2. serial_if' \in BOOLEAN /\ attached' \in BOOLEAN
  BY <1>1 DEF PortInv, Sr!TickCompletes
<1>3. CASE ~ (port.active /\ port.internal)
  <2>1. port' = port /\ shifted' = shifted
    BY <1>1, <1>3 DEF Sr!Ticked
  <2> QED
    BY <2>1, <1>1, <1>2, ZenonT(120) DEF PortInv, Sr!PortConsistent, Sr!ExactBitTime
<1>4. CASE port.active /\ port.internal
  <2> DEFINE k == Sr!BitsDue(port, n)
  <2>1. /\ port' \in Sr!Ports
        /\ port'.internal = port.internal /\ port'.active = port'.start
        /\ k \in 0 .. port.bits /\ port'.bits = port.bits - k
        /\ port'.accum = (port.accum + n) - k * BitCycles
        /\ port'.sb = Sr!ShiftedIn(port.sb, k)
        /\ port'.active <=> k # port.bits
    BY <1>1, <1>4, TickFields
  <2>2. /\ port \in Sr!Ports /\ port.bits \in 1 .. 8 /\ port.accum \in Nat
        /\ port.accum < BitCycles
        /\ shifted = ((8 - port.bits) * BitCycles) + port.accum
        /\ shifting # << >> => port.sb = Sr!ShiftedIn(shifting[1], 8 - port.bits)
    BY <1>4 DEF PortInv, Sr!PortConsistent, Sr!ExactBitTime, Sr!Ports
  <2>3. k \in 0 .. 8 /\ n \in Nat
    <3>1. k \in 0 .. port.bits /\ port.bits \in 1 .. 8
      BY <2>1, <2>2
    <3> HIDE DEF k
    <3> QED
      BY <3>1, SerialAssumption
  <2>4. port'.active <=> port'.bits > 0
    BY <2>1, <2>2, <2>3, SMTT(90)
  <2>5. Sr!PortConsistent'
    BY <1>4, <2>1, <2>4 DEF Sr!PortConsistent
  <2>6. shifted' \in Nat
    <3>1. shifted + n \in Nat /\ Sr!ByteTime \in Nat
      BY <2>3, SerialAssumption DEF PortInv, Sr!ByteTime
    <3> QED
      BY <1>1, <1>4, <3>1 DEF Sr!AtMost
  <2>7. ASSUME port'.active PROVE
          /\ shifted' = ((8 - port'.bits) * BitCycles) + port'.accum
          /\ port'.accum < BitCycles
          /\ shifting' # << >> => port'.sb = Sr!ShiftedIn(shifting'[1], 8 - port'.bits)
    <3>1. k < port.bits
      BY <2>1, <2>2, <2>7
    <3>2. /\ (port.accum + n) - k * BitCycles \in Nat
          /\ (port.accum + n) - k * BitCycles < BitCycles
      BY <2>2, <3>1, BitsLeave
    <3>3. Sr!AtMost((((8 - port.bits) * BitCycles) + port.accum) + n, Sr!ByteTime)
            = ((8 - (port.bits - k)) * BitCycles) + ((port.accum + n) - k * BitCycles)
      <4> HIDE DEF k
      <4> QED
        BY <2>2, <2>3, <3>1, <3>2, ByteTimeLaw, ZenonT(120)
    <3>4. shifted' = ((8 - port'.bits) * BitCycles) + port'.accum
      <4> HIDE DEF k
      <4> QED
        BY <1>1, <1>4, <2>1, <2>2, <3>3, Zenon
    <3>5. ASSUME shifting # << >>
          PROVE port'.sb = Sr!ShiftedIn(shifting'[1], 8 - port'.bits)
      <4>1. shifting[1] \in Int
        <5>1. PICK b \in Sr!Byte : shifting = <<b>>
          BY <3>5 DEF PortInv
        <5> QED
          BY <5>1 DEF Sr!Byte
      <4>2. (8 - port.bits) \in 0 .. 8 /\ (8 - port.bits) + k =< 8
            /\ (8 - port.bits) + k = 8 - port'.bits
        BY <2>1, <2>2, <2>3, <3>1, SMTT(90)
      <4>3. Sr!ShiftedIn(Sr!ShiftedIn(shifting[1], 8 - port.bits), k)
              = Sr!ShiftedIn(shifting[1], (8 - port.bits) + k)
        <5> HIDE DEF k
        <5> QED
          BY <2>3, <4>1, <4>2, ShiftsCompose
      <4> QED
        BY <1>1, <2>1, <2>2, <3>5, <4>2, <4>3, Zenon
    <3> QED
      BY <1>1, <2>1, <3>2, <3>4, <3>5
  <2>8. Sr!ExactBitTime'
    BY <2>7 DEF Sr!ExactBitTime
  <2> QED
    BY <1>1, <1>2, <2>5, <2>6, <2>8 DEF PortInv
<1> QED
  BY <1>3, <1>4

LEMMA ReceivedShape ==
  ASSUME NEW p \in Sr!Ports, NEW v \in SerialData
  PROVE  /\ Sr!Received(p, v) \in Sr!Ports
         /\ Sr!Received(p, v).active = FALSE /\ Sr!Received(p, v).start = FALSE
         /\ Sr!Received(p, v).bits = 0
<1>1. Sr!Received(p, v) = [p EXCEPT !.start = FALSE, !.active = FALSE,
                                    !.sb = v, !.accum = 0, !.bits = 0]
  BY DEF Sr!Received, Sr!Finished, Sr!Ports
<1>2. v \in Sr!Byte /\ 0 \in 0 .. AccumLimit /\ 0 \in 0 .. 8
  BY SerialAssumption DEF Sr!Byte
<1> QED
  BY <1>1, <1>2 DEF Sr!Ports

LEMMA ReceivedInv ==
  ASSUME PortInv, NEW v \in SerialData, port' = Sr!Received(port, v),
         serial_if' \in BOOLEAN, UNCHANGED <<attached, shifted, shifting>>
  PROVE  PortInv'
<1>1. port \in Sr!Ports
  BY DEF PortInv, Sr!PortConsistent
<1>2. /\ port' \in Sr!Ports /\ port'.active = FALSE /\ port'.start = FALSE
      /\ port'.bits = 0
  BY <1>1, ReceivedShape
<1>3. Sr!PortConsistent' /\ Sr!ExactBitTime'
  BY <1>2 DEF Sr!PortConsistent, Sr!ExactBitTime
<1> QED
  BY <1>3 DEF PortInv

LEMMA WriteScInv ==
  ASSUME PortInv, NEW s \in BOOLEAN, NEW i \in BOOLEAN, Sr!GameWritesSc(s, i)
  PROVE  PortInv'
<1>1. port \in Sr!Ports /\ port.sb \in Sr!Byte
  BY DEF PortInv, Sr!PortConsistent, Sr!Ports
<1>2. /\ port' = [port EXCEPT !.start = s, !.internal = i, !.active = s,
                             !.bits = IF s THEN 8 ELSE 0, !.accum = 0]
      /\ shifted' = 0 /\ shifting' = <<port.sb>>
      /\ attached' = attached /\ serial_if' = serial_if
  BY DEF Sr!GameWritesSc, Sr!WriteSc
<1>3. /\ port' \in Sr!Ports /\ port'.active = s /\ port'.start = s /\ port'.accum = 0
      /\ port'.bits = (IF s THEN 8 ELSE 0) /\ port'.sb = port.sb
  <2>1. 0 \in 0 .. AccumLimit /\ (IF s THEN 8 ELSE 0) \in 0 .. 8
    BY SerialAssumption
  <2> QED
    BY <1>1, <1>2, <2>1 DEF Sr!Ports
<1>4. port'.active <=> port'.bits > 0
  BY <1>3
<1>5. Sr!PortConsistent'
  BY <1>3, <1>4 DEF Sr!PortConsistent
<1>6. ASSUME port'.active PROVE port'.bits = 8
  BY <1>3, <1>6
<1>7. Sr!ShiftedIn(port.sb, 0) = port.sb /\ shifting'[1] = port.sb
  BY <1>1, <1>2, ShiftByNone
<1>8. BitCycles \in Nat \ {0} /\ 0 * BitCycles = 0
  BY SerialAssumption
<1>9. Sr!ExactBitTime'
  BY <1>2, <1>3, <1>6, <1>7, <1>8 DEF Sr!ExactBitTime
<1> QED
  BY <1>1, <1>2, <1>5, <1>9 DEF PortInv

LEMMA PortNext == PortInv /\ [Sr!Next]_(Sr!vars) => PortInv'
<1> SUFFICES ASSUME PortInv, [Sr!Next]_(Sr!vars) PROVE PortInv'
  OBVIOUS
<1>1. ASSUME NEW v \in SerialData, Sr!GameWritesSb(v) PROVE PortInv'
  <2>1. /\ port' = [port EXCEPT !.sb = v] /\ shifting' = << >>
        /\ UNCHANGED <<attached, serial_if, shifted>>
    BY <1>1 DEF Sr!GameWritesSb, Sr!WriteSb
  <2>2. port \in Sr!Ports /\ v \in Sr!Byte
    BY SerialAssumption DEF PortInv, Sr!PortConsistent, Sr!Byte
  <2>3. /\ port' \in Sr!Ports /\ port'.active = port.active /\ port'.start = port.start
        /\ port'.bits = port.bits /\ port'.accum = port.accum
        /\ port'.internal = port.internal
    BY <2>1, <2>2 DEF Sr!Ports
  <2> QED
    BY <2>1, <2>3 DEF PortInv, Sr!PortConsistent, Sr!ExactBitTime
<1>2. ASSUME NEW v \in SerialData, Sr!DeviceByte(v) PROVE PortInv'
  <2>1. serial_if' \in BOOLEAN /\ UNCHANGED <<attached, shifted, shifting>>
    <3>1. port \in Sr!Ports
      BY DEF PortInv, Sr!PortConsistent
    <3> QED
      BY <1>2, <3>1 DEF Sr!DeviceByte, PortInv, Sr!ArmedExternal, Sr!Ports
  <2>2. port' = port \/ port' = Sr!Received(port, v)
    BY <1>2 DEF Sr!DeviceByte, Sr!ClockExternalByte
  <2>3. CASE port' = port
    BY <2>1, <2>3 DEF PortInv, Sr!PortConsistent, Sr!ExactBitTime
  <2> QED
    BY <2>1, <2>2, <2>3, ReceivedInv
<1>3. ASSUME NEW v \in SerialData, Sr!PeerByte(v) PROVE PortInv'
  BY <1>3, ReceivedInv DEF Sr!PeerByte
<1>4. ASSUME NEW s \in BOOLEAN, NEW i \in BOOLEAN, Sr!GameWritesSc(s, i) PROVE PortInv'
  BY <1>4, WriteScInv
<1>5. ASSUME NEW n \in SerialChunks, Sr!Clock(n) PROVE PortInv'
  BY <1>5, ClockInv
<1>6. CASE Sr!Attach \/ Sr!TakeInterrupt \/ UNCHANGED Sr!vars
  <2>1. port' = port /\ shifted' = shifted /\ shifting' = shifting
    BY <1>6 DEF Sr!Attach, Sr!TakeInterrupt, Sr!vars
  <2>2. attached' \in BOOLEAN /\ serial_if' \in BOOLEAN
    BY <1>6 DEF PortInv, Sr!Attach, Sr!TakeInterrupt, Sr!vars
  <2> QED
    BY <2>1, <2>2 DEF PortInv, Sr!PortConsistent, Sr!ExactBitTime
<1> QED
  BY <1>1, <1>2, <1>3, <1>4, <1>5, <1>6 DEF Sr!Next

(* Every way a byte can end asks for the interrupt, the game's own excepted. *)
LEMMA ByteEndsOnce ==
  ASSUME PortInv, [Sr!Next]_(Sr!vars)
  PROVE  /\ port.active /\ ~ port'.active =>
              serial_if' \/ \E i \in BOOLEAN : Sr!GameWritesSc(FALSE, i)
         /\ ~ serial_if /\ serial_if' => port.active /\ ~ port'.active
<1>1. port \in Sr!Ports
  BY DEF PortInv, Sr!PortConsistent
<1>2. ASSUME NEW v \in SerialData, Sr!GameWritesSb(v)
      PROVE  port'.active = port.active /\ serial_if' = serial_if
  BY <1>1, <1>2 DEF Sr!GameWritesSb, Sr!WriteSb, Sr!Ports
<1>3. ASSUME NEW v \in SerialData, Sr!DeviceByte(v)
      PROVE  \/ port' = port /\ serial_if' = serial_if
             \/ port.active /\ port'.active = FALSE /\ serial_if' = TRUE
  <2>1. CASE Sr!ArmedExternal(port)
    BY <1>1, <1>3, <2>1, ReceivedShape
       DEF Sr!DeviceByte, Sr!ClockExternalByte, Sr!ArmedExternal
  <2>2. CASE ~ Sr!ArmedExternal(port)
    BY <1>3, <2>2 DEF Sr!DeviceByte, Sr!ClockExternalByte, PortInv
  <2> QED
    BY <2>1, <2>2
<1>4. ASSUME NEW v \in SerialData, Sr!PeerByte(v)
      PROVE  port.active /\ port'.active = FALSE /\ serial_if' = TRUE
  BY <1>1, <1>4, ReceivedShape DEF Sr!PeerByte
<1>5. ASSUME NEW s \in BOOLEAN, NEW i \in BOOLEAN, Sr!GameWritesSc(s, i)
      PROVE  serial_if' = serial_if /\ (~ port'.active => \E j \in BOOLEAN : Sr!GameWritesSc(FALSE, j))
  <2>1. port'.active = s /\ serial_if' = serial_if
    BY <1>1, <1>5 DEF Sr!GameWritesSc, Sr!WriteSc, Sr!Ports
  <2>2. ~ s => Sr!GameWritesSc(FALSE, i)
    BY <1>5
  <2> QED
    BY <2>1, <2>2
<1>6. ASSUME NEW n \in SerialChunks, Sr!Clock(n)
      PROVE  \/ port'.active = port.active /\ serial_if' = serial_if
             \/ port.active /\ ~ port'.active /\ serial_if' = TRUE
  <2>1. CASE port.active /\ port.internal
    <3>1. Sr!TickCompletes(port, n) <=> ~ port'.active
      BY <1>6, <2>1, TickFields DEF Sr!Clock
    <3>2. port'.active \in BOOLEAN /\ port.active \in BOOLEAN /\ serial_if \in BOOLEAN
      BY <1>1, <1>6, <2>1, TickFields DEF Sr!Clock, Sr!Ports, PortInv
    <3>3. serial_if' = (serial_if \/ Sr!TickCompletes(port, n))
      BY <1>6 DEF Sr!Clock
    <3> QED
      BY <2>1, <3>1, <3>2, <3>3
  <2>2. CASE ~ (port.active /\ port.internal)
    <3>1. ~ Sr!TickCompletes(port, n) /\ Sr!Ticked(port, n) = port
      BY <2>2 DEF Sr!TickCompletes, Sr!Ticked
    <3> QED
      BY <1>6, <3>1 DEF Sr!Clock, PortInv
  <2> QED
    BY <2>1, <2>2
<1>7. ASSUME Sr!Attach \/ Sr!TakeInterrupt \/ UNCHANGED Sr!vars
      PROVE  port' = port /\ (serial_if' = serial_if \/ ~ serial_if')
  BY <1>7 DEF Sr!Attach, Sr!TakeInterrupt, Sr!vars
<1> DEFINE cancels == \E i \in BOOLEAN : Sr!GameWritesSc(FALSE, i)
<1>8. \/ (port'.active <=> port.active) /\ serial_if' = serial_if
      \/ port.active /\ ~ port'.active /\ serial_if' = TRUE
      \/ serial_if' = serial_if /\ (~ port'.active => cancels)
      \/ (port'.active <=> port.active) /\ ~ serial_if'
  <2> HIDE DEF cancels
  <2>1. CASE \E v \in SerialData : Sr!GameWritesSb(v) \/ Sr!DeviceByte(v) \/ Sr!PeerByte(v)
    BY <1>2, <1>3, <1>4, <2>1
  <2>2. CASE \E s, i \in BOOLEAN : Sr!GameWritesSc(s, i)
    BY <1>5, <2>2 DEF cancels
  <2>3. CASE \E n \in SerialChunks : Sr!Clock(n)
    BY <1>6, <2>3
  <2> QED
    BY <1>7, <2>1, <2>2, <2>3 DEF Sr!Next
<1> HIDE DEF cancels
<1> SUFFICES /\ port.active /\ ~ port'.active => serial_if' \/ cancels
             /\ ~ serial_if /\ serial_if' => port.active /\ ~ port'.active
  BY Zenon DEF cancels
<1> QED
  BY <1>8

(* However time is cut, the bits gone are those of the cycles gone, and a    *)
(* byte ends with its interrupt or by the game's own hand (serial.rs, tick). *)
LEMMA SerialKeepsTime == Sr!Spec => [](Sr!PortConsistent /\ Sr!ExactBitTime) /\ Sr!InterruptPerByte
<1>1. PortInv => Sr!PortConsistent /\ Sr!ExactBitTime
  BY DEF PortInv
<1>2. PortInv /\ [Sr!Next]_(Sr!vars) =>
        [/\ port.active /\ ~ port'.active =>
              serial_if' \/ \E i \in BOOLEAN : Sr!GameWritesSc(FALSE, i)
         /\ ~ serial_if /\ serial_if' => port.active /\ ~ port'.active]_(Sr!vars)
  BY ByteEndsOnce
<1> QED
  BY PortInit, PortNext, <1>1, <1>2, PTL DEF Sr!Spec, Sr!InterruptPerByte

-----------------------------------------------------------------------------
(* The timer's jumps from edge to edge                                      *)

(* The bit of a count of half periods, and when it falls. *)
LEMMA BitOfHalf ==
  ASSUME NEW h \in Nat \ {0}, NEW q \in Nat, NEW x \in 0 .. (2 * h) - 1
  PROVE  ((((2 * h) * q) + x) \div h) % 2 = IF x < h THEN 0 ELSE 1
<1>1. PICK e \in {0, 1} : e = IF x < h THEN 0 ELSE 1
  OBVIOUS
<1>2. PICK w \in Int : w = (2 * q) + e
  OBVIOUS
<1>3. PICK a \in Nat : a = ((2 * h) * q) + x
  OBVIOUS
<1>4. PICK r \in 0 .. h - 1 : r = x - (h * e)
  <2>1. CASE x < h
    <3>1. h * e = 0 /\ x \in 0 .. h - 1 /\ x - 0 = x
      BY <1>1, <2>1
    <3> QED
      BY <3>1
  <2>2. CASE ~ (x < h)
    <3>1. h * e = h /\ x - h \in 0 .. h - 1
      BY <1>1, <2>2
    <3> QED
      BY <3>1
  <2> QED
    BY <2>1, <2>2
<1>5. a = h * w + r
  <2>1. PICK y \in Nat : y = h * q
    OBVIOUS
  <2>2. (2 * h) * q = 2 * y /\ h * w = (2 * y) + (h * e)
    BY <1>2, <2>1
  <2>3. h * e \in Nat
    BY <1>1
  <2> QED
    BY <1>3, <1>4, <2>1, <2>2, <2>3
<1>6. a \div h = w
  <2>1. a \in Int
    BY <1>3
  <2> QED
    BY <2>1, <1>5, OnlyDivision
<1>7. w % 2 = e
  <2>1. e \in 0 .. 2 - 1 /\ w = 2 * q + e /\ q \in Int /\ 2 \in Nat \ {0}
    BY <1>1, <1>2
  <2> QED
    BY <2>1, OnlyDivision
<1> QED
  BY <1>1, <1>3, <1>6, <1>7

(* A bit falls from one count to the next; the counts until it does.        *)
BitFalls(h, m, a, b) == ((a % m) \div h) % 2 = 1 /\ ((b % m) \div h) % 2 # 1

UntilFall(h, d) == (2 * h) - (d % (2 * h))

Whole(h, m) == m % (2 * h) = 0

(* A bit of a divider that wraps at whole periods stays or rises until the  *)
(* period ends, where it falls.                                            *)
LEMMA FallsAtTheEnd ==
  ASSUME NEW h \in Nat \ {0}, NEW m \in Nat \ {0}, m % (2 * h) = 0, NEW d \in 0 .. m - 1,
         NEW k \in Nat \ {0}, k =< (2 * h) - (d % (2 * h))
  PROVE  /\ (d + (k - 1)) % m = d + (k - 1)
         /\ (((d + (k - 1)) % m) \div h) % 2 = 1 /\ (((d + k) % m) \div h) % 2 # 1
              <=> k = (2 * h) - (d % (2 * h))
<1>1. PICK p \in Nat \ {0} : p = 2 * h
  OBVIOUS
<1>2. PICK q \in Nat, o \in 0 .. p - 1 : q = d \div p /\ o = d % p /\ d = p * q + o
  <2>1. d \in Nat
    OBVIOUS
  <2> QED
    BY <1>1, <2>1, Divided
<1>3. PICK w \in Nat : m = p * w
  <2>1. PICK w \in Nat, r \in 0 .. p - 1 : w = m \div p /\ r = m % p /\ m = p * w + r
    BY <1>1, Divided
  <2>2. r = 0
    BY <1>1, <2>1
  <2>3. PICK y \in Nat : y = p * w
    OBVIOUS
  <2>4. m = y + r
    BY <2>1, <2>3
  <2>5. m = y
    BY <2>2, <2>3, <2>4
  <2> QED
    BY <2>3, <2>5
<1>4. p * (q + 1) =< m
  <2>1. PICK x \in Nat, y \in Nat : x = p * q /\ y = p * w
    OBVIOUS
  <2>2. q < w
    <3>1. ASSUME q >= w PROVE FALSE
      <4>1. PICK e \in Nat : q = w + e
        <5>1. q - w \in Nat /\ q = w + (q - w)
          BY <3>1
        <5> QED
          BY <5>1
      <4>2. PICK z \in Nat : z = p * e
        OBVIOUS
      <4>3. x = y + z
        BY <2>1, <4>1, <4>2
      <4> QED
        BY <1>2, <1>3, <2>1, <4>3
    <3> QED
      BY <3>1
  <2>3. PICK e \in Nat : w = q + 1 + e
    <3>1. w - q - 1 \in Nat /\ w = q + 1 + (w - q - 1)
      BY <2>2
    <3> QED
      BY <3>1
  <2>4. PICK z \in Nat : z = p * e
    OBVIOUS
  <2>5. p * w = p * (q + 1) + z /\ p * (q + 1) \in Nat
    BY <2>3, <2>4
  <2> QED
    BY <1>3, <2>5
<1>5. PICK x \in Nat : x = p * q /\ p * (q + 1) = x + p
  OBVIOUS
<1>6. d = x + o /\ x + p =< m /\ k =< p - o
  BY <1>1, <1>2, <1>4, <1>5
<1>7. d + (k - 1) \in 0 .. m - 1
  BY <1>6
<1>0. (2 * h) - (d % (2 * h)) = p - o
  BY <1>1, <1>2
<1>8. (d + (k - 1)) % m = d + (k - 1)
  BY <1>7, SmallDivision
<1>9. ((d + (k - 1)) \div h) % 2 = IF o + (k - 1) < h THEN 0 ELSE 1
  <2>1. PICK y \in 0 .. (2 * h) - 1 : y = o + (k - 1)
    BY <1>1, <1>6
  <2>2. d + (k - 1) = ((2 * h) * q) + y
    BY <1>1, <1>5, <1>6, <2>1
  <2>3. ((((2 * h) * q) + y) \div h) % 2 = IF y < h THEN 0 ELSE 1
    BY BitOfHalf
  <2> QED
    BY <2>1, <2>2, <2>3
<1>10. ASSUME k < p - o
       PROVE  (((d + (k - 1)) % m) \div h) % 2 = 1 /\ (((d + k) % m) \div h) % 2 # 1 <=> k = p - o
  <2>1. d + k \in 0 .. m - 1
    BY <1>6, <1>10
  <2>2. (d + k) % m = d + k
    BY <2>1, SmallDivision
  <2>3. PICK y \in 0 .. (2 * h) - 1 : y = o + k
    BY <1>1, <1>10
  <2>4. d + k = ((2 * h) * q) + y
    BY <1>1, <1>5, <1>6, <2>3
  <2>5. ((((2 * h) * q) + y) \div h) % 2 = IF y < h THEN 0 ELSE 1
    BY BitOfHalf
  <2>6. ((d + k) \div h) % 2 = IF o + k < h THEN 0 ELSE 1
    BY <2>3, <2>4, <2>5
  <2>7. ~ (o + (k - 1) < h) => ~ (o + k < h)
    OBVIOUS
  <2>8. PICK b, c : b = ((d + (k - 1)) \div h) % 2 /\ c = ((d + k) \div h) % 2
    OBVIOUS
  <2>9. ~ (b = 1 /\ c # 1) /\ k # p - o
    BY <1>9, <1>10, <2>6, <2>7, <2>8
  <2> QED
    BY <1>8, <2>2, <2>8, <2>9, Zenon
<1>11. ASSUME k = p - o
       PROVE  (((d + (k - 1)) % m) \div h) % 2 = 1 /\ (((d + k) % m) \div h) % 2 # 1 <=> k = p - o
  <2>1. ~ (o + (k - 1) < h)
    BY <1>1, <1>11
  <2>2. d + k = x + p
    BY <1>6, <1>11
  <2>3. PICK y : y = (d + k) % m
    OBVIOUS
  <2>4. (y \div h) % 2 = 0
    <3>1. CASE x + p = m
      <4>1. (d + k) = m * 1 + 0 /\ 0 \in 0 .. m - 1 /\ d + k \in Int
        BY <2>2, <3>1
      <4>2. y = 0
        BY <2>3, <4>1, OnlyDivision, SMTT(90)
      <4>3. 0 = ((2 * h) * 0) + 0 /\ 0 \in 0 .. (2 * h) - 1 /\ 0 < h
        OBVIOUS
      <4> QED
        BY <4>2, <4>3, BitOfHalf
    <3>2. CASE x + p # m
      <4>1. d + k \in 0 .. m - 1
        BY <1>6, <2>2, <3>2
      <4>2. y = d + k
        BY <2>3, <4>1, SmallDivision
      <4>3. d + k = ((2 * h) * (q + 1)) + 0 /\ 0 \in 0 .. (2 * h) - 1 /\ 0 < h /\ q + 1 \in Nat
        BY <1>1, <1>5, <2>2
      <4> QED
        BY <4>2, <4>3, BitOfHalf, ZenonT(120)
    <3> QED
      BY <3>1, <3>2
  <2>5. PICK b, c : b = ((d + (k - 1)) \div h) % 2 /\ c = (y \div h) % 2
    OBVIOUS
  <2>6. b = 1 /\ c # 1
    BY <1>9, <2>1, <2>4, <2>5
  <2> QED
    BY <1>8, <1>11, <2>3, <2>5, <2>6, Zenon
<1>12. k < p - o \/ k = p - o
  BY <1>6
<1> QED
  BY <1>0, <1>8, <1>10, <1>11, <1>12, Zenon

LEMMA FallsThere ==
  ASSUME NEW h \in Nat \ {0}, NEW m \in Nat \ {0}, Whole(h, m), NEW d \in 0 .. m - 1,
         NEW k \in Nat \ {0}, k =< UntilFall(h, d)
  PROVE  BitFalls(h, m, d + (k - 1), d + k) <=> k = UntilFall(h, d)
BY FallsAtTheEnd, ZenonT(120), ZenonT(120) DEF BitFalls, UntilFall, Whole

LEMMA AdvancedShape ==
  ASSUME NEW t \in Tm!Timers, NEW k \in Nat
  PROVE  /\ Tm!Advanced(t, k) \in Tm!Timers
         /\ Tm!Advanced(t, k).div = (t.div + k) % DivModulus
         /\ Tm!Advanced(t, k).on = t.on /\ Tm!Advanced(t, k).select = t.select
         /\ Tm!Advanced(t, k).delay = t.delay
         /\ Tm!Advanced(t, 0) = t
<1>1. t.div \in 0 .. DivModulus - 1
  BY DEF Tm!Timers
<1>2. (t.div + k) % DivModulus \in 0 .. DivModulus - 1
  <2>1. PICK a \in Int : a = t.div + k
    BY <1>1
  <2>2. a % DivModulus \in 0 .. DivModulus - 1
    BY TimerConstants, Division
  <2> QED
    BY <2>1, <2>2
<1>3. (t.div + 0) % DivModulus = t.div
  <2>1. t.div + 0 = t.div
    BY <1>1
  <2> QED
    BY <1>1, <2>1, TimerConstants, SmallDivision
<1>4. Tm!Advanced(t, k) = [t EXCEPT !.div = (t.div + k) % DivModulus]
  BY DEF Tm!Advanced
<1>5. Tm!Advanced(t, 0) = [t EXCEPT !.div = t.div]
  BY <1>3 DEF Tm!Advanced
<1> QED
  BY <1>2, <1>4, <1>5 DEF Tm!Timers

(* A cycle of a stretch without an edge, and the one that ends it. *)
LEMMA NextCycle ==
  ASSUME NEW t \in Tm!Timers, t.delay = 0, NEW k \in Nat \ {0}, t.on => k =< Tm!UntilEdge(t)
  PROVE  /\ Tm!Cycled(Tm!Advanced(t, k - 1)) =
              IF t.on /\ k = Tm!UntilEdge(t) THEN Tm!IncrementTima(Tm!Advanced(t, k)) ELSE Tm!Advanced(t, k)
         /\ ~ Tm!Reloads(Tm!Advanced(t, k - 1))
<1>1. PICK i \in Nat : i = k - 1 /\ k = i + 1
  OBVIOUS
<1>2. PICK u \in Tm!Timers : u = Tm!Advanced(t, i)
  BY <1>1, AdvancedShape
<1>3. u.div = (t.div + i) % DivModulus /\ u.on = t.on /\ u.select = t.select /\ u.delay = 0
  BY <1>1, <1>2, AdvancedShape
<1>4. Tm!AfterDelay(u) = u /\ ~ Tm!Reloads(u)
  BY <1>3, Delay
<1>5. PICK v \in Tm!Timers : v = Tm!Advanced(t, k)
  BY AdvancedShape
<1>6. v.div = (t.div + k) % DivModulus /\ v.on = t.on /\ v.select = t.select
  BY <1>5, AdvancedShape
<1>7. t.div \in 0 .. DivModulus - 1 /\ HalfPeriod[t.select] \in Nat \ {0} /\ t.on \in BOOLEAN
      /\ DivModulus % (2 * HalfPeriod[t.select]) = 0
  BY TimerAssumption DEF Tm!Timers, Tm!TimerParameters
<1>8. [u EXCEPT !.div = (u.div + 1) % DivModulus] = v
  <2>1. (u.div + 1) % DivModulus = (t.div + k) % DivModulus
    <3>1. PICK a \in Int : a = t.div + i /\ a + 1 = t.div + k
      BY <1>1, <1>7
    <3>2. ((a % DivModulus) + 1) % DivModulus = (a + 1) % DivModulus
      <4>1. PICK m \in Nat \ {0} : m = DivModulus
        BY TimerConstants
      <4>2. PICK one \in Int : one = 1
        OBVIOUS
      <4>3. ((a % m) + one) % m = (a + one) % m
        BY LaterDivision
      <4> QED
        BY <4>1, <4>2, <4>3
    <3> QED
      BY <1>3, <3>1, <3>2
  <2>2. PICK x : x = (t.div + k) % DivModulus
    OBVIOUS
  <2>3. u = [t EXCEPT !.div = (t.div + i) % DivModulus] /\ v = [t EXCEPT !.div = x]
    BY <1>2, <1>5, <2>2 DEF Tm!Advanced
  <2> QED
    BY <2>1, <2>2, <2>3 DEF Tm!Timers
<1>9. Tm!Cycled(u) = IF Tm!TimerSignal(u) /\ ~ Tm!TimerSignal(v) THEN Tm!IncrementTima(v) ELSE v
  BY <1>4, <1>8 DEF Tm!Cycled
<1>10. Tm!TimerSignal(u) /\ ~ Tm!TimerSignal(v) <=> t.on /\ k = Tm!UntilEdge(t)
  <2>1. CASE ~ t.on
    BY <1>3, <2>1 DEF Tm!TimerSignal, Tm!Signal
  <2>2. CASE t.on
    <3>1. Tm!UntilEdge(t) = (2 * HalfPeriod[t.select]) - (t.div % (2 * HalfPeriod[t.select]))
      BY DEF Tm!UntilEdge
    <3>2. PICK h \in Nat \ {0} : h = HalfPeriod[t.select]
      BY <1>7
    <3>3. k =< UntilFall(h, t.div) /\ Whole(h, DivModulus) /\ Tm!UntilEdge(t) = UntilFall(h, t.div)
      BY <1>7, <2>2, <3>1, <3>2, Zenon DEF UntilFall, Whole
    <3>4. BitFalls(h, DivModulus, t.div + (k - 1), t.div + k) <=> k = UntilFall(h, t.div)
      <4>1. PICK d : d = t.div
        OBVIOUS
      <4>2. PICK m \in Nat \ {0} : m = DivModulus
        BY TimerConstants
      <4>3. d \in 0 .. m - 1 /\ k =< UntilFall(h, d) /\ Whole(h, m)
        BY <1>7, <3>3, <4>1, <4>2
      <4>4. BitFalls(h, m, d + (k - 1), d + k) <=> k = UntilFall(h, d)
        BY <4>3, FallsThere
      <4> QED
        BY <4>1, <4>2, <4>4
    <3>5. /\ Tm!TimerSignal(u) <=> (((t.div + (k - 1)) % DivModulus) \div h) % 2 = 1
          /\ Tm!TimerSignal(v) <=> (((t.div + k) % DivModulus) \div h) % 2 = 1
      BY <1>1, <1>3, <1>6, <2>2, <3>2, Zenon DEF Tm!TimerSignal, Tm!Signal
    <3> QED
      BY <2>2, <3>3, <3>4, <3>5, Zenon DEF BitFalls
  <2> QED
    BY <1>7, <2>1, <2>2
<1> QED
  BY <1>1, <1>2, <1>4, <1>5, <1>9, <1>10, Zenon

(* What the loops carry.                                                    *)
Turning == [timer : Tm!Timers, left : Nat, irq : BOOLEAN]

LEMMA LoopShape ==
  ASSUME NEW t \in Tm!Timers, NEW n \in Nat, NEW b \in BOOLEAN
  PROVE  /\ Tm!Loop(t, n, b) \in Turning
         /\ Tm!Loop(t, n, b).timer = t /\ Tm!Loop(t, n, b).left = n /\ Tm!Loop(t, n, b).irq = b
BY Zenon DEF Tm!Loop, Turning

LEMMA LoopWhole ==
  ASSUME NEW r \in Turning
  PROVE  r.timer \in Tm!Timers /\ r.left \in Nat /\ r.irq \in BOOLEAN /\ Tm!Loop(r.timer, r.left, r.irq) = r
BY DEF Tm!Loop, Turning

LEMMA SlowShape ==
  ASSUME NEW r \in Turning
  PROVE  Tm!SlowTurn(r) \in Turning
<1>1. CASE r.left = 0
  BY <1>1 DEF Tm!SlowTurn
<1>2. CASE r.left # 0
  <2>1. PICK t \in Tm!Timers, l \in Nat : t = Tm!Cycled(r.timer) /\ l = r.left - 1
    BY <1>2, LoopWhole, CycledShape
  <2>2. PICK b \in BOOLEAN : b = (r.irq \/ Tm!Reloads(r.timer))
    BY LoopWhole DEF Tm!Reloads
  <2>3. Tm!SlowTurn(r) = Tm!Loop(t, l, b)
    BY <1>2, <2>1, <2>2, Zenon DEF Tm!SlowTurn
  <2> QED
    BY <2>3, LoopShape
<1> QED
  BY <1>1, <1>2

LEMMA EdgeAhead ==
  ASSUME NEW t \in Tm!Timers
  PROVE  Tm!UntilEdge(t) \in Nat \ {0}
<1>1. PICK p \in Nat \ {0} : p = 2 * HalfPeriod[t.select]
  BY TimerAssumption DEF Tm!TimerParameters, Tm!Timers
<1>2. PICK d \in Int : d = t.div
  BY TimerConstants DEF Tm!Timers
<1>3. PICK o \in 0 .. p - 1 : o = d % p
  BY Division
<1> QED
  BY <1>1, <1>2, <1>3 DEF Tm!UntilEdge

(* A loop after k cycles without a reload, the edge at most in the last.     *)
Quiet(r, k) ==
  Tm!Loop(IF r.timer.on /\ k = Tm!UntilEdge(r.timer) THEN Tm!IncrementTima(Tm!Advanced(r.timer, k))
                                                   ELSE Tm!Advanced(r.timer, k),
          r.left - k, r.irq)

LEMMA QuietTurn ==
  ASSUME NEW r \in Turning, r.timer.delay = 0, NEW i \in Nat, i < r.left,
         r.timer.on => i < Tm!UntilEdge(r.timer)
  PROVE  Tm!SlowTurn(Quiet(r, i)) = Quiet(r, i + 1)
<1>1. PICK t \in Tm!Timers, b \in BOOLEAN, l \in Nat : t = r.timer /\ b = r.irq /\ l = r.left
  BY LoopWhole
<1>2. PICK k \in Nat \ {0} : k = i + 1 /\ k - 1 = i
  OBVIOUS
<1>3. PICK e \in Nat \ {0} : e = Tm!UntilEdge(t)
  BY EdgeAhead
<1>4. t.on => i # e /\ k =< e
  BY <1>1, <1>2, <1>3
<1>5. Tm!Advanced(t, i) \in Tm!Timers
  BY AdvancedShape
<1>6. PICK m \in Nat : m = l - i /\ m # 0 /\ m - 1 = l - k
  BY <1>1, <1>2
<1>7. Quiet(r, i) = Tm!Loop(Tm!Advanced(t, i), m, b)
  BY <1>1, <1>3, <1>4, <1>6, Zenon DEF Quiet
<1>8. PICK w \in Turning : w = Tm!Loop(Tm!Advanced(t, i), m, b)
  BY <1>5, LoopShape
<1>9. w.timer = Tm!Advanced(t, i) /\ w.left = m /\ w.irq = b
  BY <1>5, <1>8, LoopShape
<1>10. PICK u : u = IF t.on /\ k = e THEN Tm!IncrementTima(Tm!Advanced(t, k)) ELSE Tm!Advanced(t, k)
  OBVIOUS
<1>11. Tm!Cycled(w.timer) = u /\ ~ Tm!Reloads(w.timer)
  <2>1. t.delay = 0 /\ (t.on => k =< Tm!UntilEdge(t))
    BY <1>1, <1>3, <1>4
  <2>2. /\ Tm!Cycled(Tm!Advanced(t, k - 1)) =
             IF t.on /\ k = Tm!UntilEdge(t) THEN Tm!IncrementTima(Tm!Advanced(t, k)) ELSE Tm!Advanced(t, k)
        /\ ~ Tm!Reloads(Tm!Advanced(t, k - 1))
    BY <2>1, NextCycle
  <2> QED
    BY <1>2, <1>3, <1>9, <1>10, <2>2, Zenon
<1>12. (w.irq \/ Tm!Reloads(w.timer)) = b
  <2>1. (b \/ FALSE) = b
    OBVIOUS
  <2>2. CASE b = TRUE
    BY <1>9, <2>2
  <2>3. CASE b = FALSE
    BY <1>9, <1>11, <2>3
  <2> QED
    BY <2>2, <2>3
<1>13. Tm!SlowTurn(w) = Tm!Loop(u, m - 1, b)
  BY <1>6, <1>9, <1>11, <1>12, Zenon DEF Tm!SlowTurn
<1>14. Quiet(r, k) = Tm!Loop(u, l - k, b)
  BY <1>1, <1>3, <1>10, Zenon DEF Quiet
<1> QED
  BY <1>2, <1>6, <1>7, <1>8, <1>13, <1>14, Zenon

(* The states of tick, a cycle a turn.                                      *)
LEMMA SlowRuns ==
  ASSUME NEW p \in Tm!Timers, NEW n \in Nat
  PROVE  \E d \in [Nat -> Turning] :
           /\ d[0] = Tm!Loop(p, n, FALSE)
           /\ \A i \in Nat : d[i + 1] = Tm!SlowTurn(d[i])
           /\ Tm!SlowRun(p, n) = d[n]
<1> DEFINE step == [r \in Turning |-> Tm!SlowTurn(r)]
           s == Tm!Loop(p, n, FALSE)
<1>1. step \in [Turning -> Turning] /\ s \in Turning
  BY SlowShape, LoopShape
<1> HIDE DEF s
<1>2. \A r \in Turning : step[r] = Tm!SlowTurn(r)
  OBVIOUS
<1> HIDE DEF step
<1>3. PICK t \in [Nat -> Turning] : t[0] = s /\ \A i \in Nat : t[i + 1] = step[t[i]]
  <2>1. StatesOf(Turning)
    BY LoopStates
  <2> QED
    BY <1>1, <2>1, Zenon DEF StatesOf
<1>4. \A i \in Nat : t[i + 1] = Tm!SlowTurn(t[i])
  BY <1>2, <1>3
<1>5. \A i \in Nat \ {0} : t[i] = Tm!SlowTurn(t[i - 1])
  <2> TAKE i \in Nat \ {0}
  <2>1. PICK j \in Nat : j = i - 1 /\ j + 1 = i
    OBVIOUS
  <2> QED
    BY <1>4, <2>1
<1>6. t = [i \in Nat |-> IF i = 0 THEN s ELSE Tm!SlowTurn(t[i - 1])]
  BY <1>3, <1>5
<1> DEFINE a == CHOOSE a : a = [i \in Nat |-> IF i = 0 THEN s ELSE Tm!SlowTurn(a[i - 1])]
<1>7. a = [i \in Nat |-> IF i = 0 THEN s ELSE Tm!SlowTurn(a[i - 1])]
  BY <1>6, Zenon
<1>8. Tm!SlowRun(p, n) = a[n]
  BY DEF Tm!SlowRun, s
<1> HIDE DEF a
<1>9. a[0] = s /\ \A i \in Nat : a[i + 1] = Tm!SlowTurn(a[i])
  <2>1. a[0] = s
    BY <1>7
  <2>2. ASSUME NEW i \in Nat PROVE a[i + 1] = Tm!SlowTurn(a[i])
    <3>1. PICK j \in Nat : j = i + 1 /\ j # 0 /\ j - 1 = i
      OBVIOUS
    <3> QED
      BY <1>7, <3>1, Zenon
  <2> QED
    BY <2>1, <2>2
<1> DEFINE A == {i \in Nat : a[i] = t[i]}
<1>10. 0 \in A
  BY <1>3, <1>9
<1>11. ASSUME NEW i \in Nat, i \in A PROVE i + 1 \in A
  <2>1. a[i] = t[i]
    BY <1>11
  <2>2. a[i + 1] = t[i + 1]
    BY <1>4, <1>9, <2>1, Zenon
  <2> QED
    BY <2>2
<1> HIDE DEF A
<1>12. n \in A
  BY <1>10, <1>11, Induction
<1> QED
  BY <1>3, <1>4, <1>8, <1>12 DEF A, s

(* A stretch without a reload, cycle by cycle.                              *)
LEMMA Stretch ==
  ASSUME NEW d \in [Nat -> Turning], \A i \in Nat : d[i + 1] = Tm!SlowTurn(d[i]),
         NEW j \in Nat, d[j].timer.delay = 0,
         NEW c \in Nat \ {0}, c =< d[j].left, d[j].timer.on => c =< Tm!UntilEdge(d[j].timer)
  PROVE  d[j + c] = Quiet(d[j], c)
<1>1. PICK r \in Turning : r = d[j] /\ r.timer.delay = 0
  OBVIOUS
<1>2. PICK e \in Nat \ {0} : e = Tm!UntilEdge(r.timer)
  BY LoopWhole, EdgeAhead
<1>3. r.left \in Nat /\ c =< r.left /\ (r.timer.on => c =< e)
  BY <1>1, <1>2, LoopWhole
<1> DEFINE A == {i \in Nat : i =< c => d[j + i] = Quiet(r, i)}
<1>4. 0 \in A
  <2>1. Tm!Advanced(r.timer, 0) = r.timer /\ Tm!Loop(r.timer, r.left, r.irq) = r
    BY LoopWhole, AdvancedShape
  <2>2. r.left - 0 = r.left /\ j + 0 = j
    BY <1>3
  <2>3. 0 # Tm!UntilEdge(r.timer)
    BY <1>2
  <2>4. Quiet(r, 0) = r
    BY <2>1, <2>2, <2>3, Zenon DEF Quiet
  <2> QED
    BY <1>1, <2>2, <2>4
<1>5. ASSUME NEW i \in Nat, i \in A PROVE i + 1 \in A
  <2> SUFFICES ASSUME i + 1 =< c PROVE d[j + (i + 1)] = Quiet(r, i + 1)
    OBVIOUS
  <2>1. d[j + i] = Quiet(r, i)
    BY <1>5
  <2>2. i < r.left /\ (r.timer.on => i < Tm!UntilEdge(r.timer))
    BY <1>2, <1>3
  <2>3. Tm!SlowTurn(Quiet(r, i)) = Quiet(r, i + 1)
    BY <1>1, <2>2, QuietTurn
  <2>4. j + i \in Nat /\ (j + i) + 1 = j + (i + 1)
    OBVIOUS
  <2>5. d[(j + i) + 1] = Tm!SlowTurn(d[j + i])
    BY <2>4
  <2> QED
    BY <2>1, <2>3, <2>4, <2>5, Zenon
<1> HIDE DEF A
<1>6. c \in A
  BY <1>4, <1>5, Induction
<1> QED
  BY <1>1, <1>6 DEF A

(* A turn of tick_fast is some turns of tick.                               *)
LEMMA Jump ==
  ASSUME NEW d \in [Nat -> Turning], \A i \in Nat : d[i + 1] = Tm!SlowTurn(d[i]),
         NEW j \in Nat, d[j].left # 0
  PROVE  \E c \in 1 .. d[j].left : Tm!FastTurn(d[j]) = d[j + c]
<1>1. PICK r \in Turning : r = d[j]
  OBVIOUS
<1>2. PICK e \in Nat \ {0} : e = Tm!UntilEdge(r.timer)
  BY LoopWhole, EdgeAhead
<1>3. PICK l \in Nat \ {0} : l = r.left
  BY <1>1, LoopWhole
<1>4. r.timer.delay \in Nat
  BY LoopWhole, TimerConstants DEF Tm!Timers
<1>5. CASE r.timer.delay > 0
  <2>1. Tm!FastTurn(r) = Tm!SlowTurn(r)
    BY <1>5 DEF Tm!FastTurn
  <2>2. Tm!FastTurn(r) = d[j + 1] /\ 1 \in 1 .. l
    BY <1>1, <2>1
  <2> QED
    BY <1>1, <1>3, <2>2
<1>6. CASE r.timer.delay = 0 /\ (~ r.timer.on \/ e > l)
  <2>1. ~ (r.timer.delay > 0)
    BY <1>6
  <2>2. Tm!FastTurn(r) = Tm!Loop(Tm!Advanced(r.timer, l), 0, r.irq)
    BY <1>2, <1>3, <1>6, <2>1, Zenon DEF Tm!FastTurn
  <2>3. ~ (r.timer.on /\ l = e) /\ (r.timer.on => l =< e) /\ l - l = 0
    BY <1>6
  <2>4. Quiet(r, l) = Tm!Loop(Tm!Advanced(r.timer, l), 0, r.irq)
    BY <1>2, <1>3, <2>3, Zenon DEF Quiet
  <2>5. d[j + l] = Quiet(d[j], l)
    <3>1. d[j].timer.delay = 0 /\ l =< d[j].left /\ (d[j].timer.on => l =< Tm!UntilEdge(d[j].timer))
      BY <1>1, <1>2, <1>3, <1>6, <2>3
    <3> QED
      BY <3>1, Stretch
  <2>6. Tm!FastTurn(d[j]) = d[j + l] /\ l \in 1 .. l
    BY <1>1, <2>2, <2>4, <2>5
  <2> QED
    BY <1>1, <1>3, <2>6
<1>7. CASE r.timer.delay = 0 /\ ~ (~ r.timer.on \/ e > l)
  <2>1. ~ (r.timer.delay > 0) /\ r.timer.on
    BY <1>7
  <2>2. Tm!FastTurn(r) = Tm!Loop(Tm!IncrementTima(Tm!Advanced(r.timer, e)), l - e, r.irq)
    BY <1>2, <1>3, <1>7, <2>1, Zenon DEF Tm!FastTurn
  <2>3. Quiet(r, e) = Tm!Loop(Tm!IncrementTima(Tm!Advanced(r.timer, e)), l - e, r.irq)
    BY <1>2, <1>3, <2>1, Zenon DEF Quiet
  <2>4. e \in 1 .. l
    BY <1>7
  <2>5. d[j + e] = Quiet(d[j], e)
    <3>1. d[j].timer.delay = 0 /\ e =< d[j].left /\ (d[j].timer.on => e =< Tm!UntilEdge(d[j].timer))
      BY <1>1, <1>2, <1>3, <1>7, <2>4
    <3> QED
      BY <3>1, Stretch
  <2>6. Tm!FastTurn(d[j]) = d[j + e]
    BY <1>1, <2>2, <2>3, <2>5
  <2> QED
    BY <1>1, <1>3, <2>4, <2>6
<1> QED
  BY <1>4, <1>5, <1>6, <1>7

(* Nothing moves once nothing is left.                                      *)
LEMMA FastRests ==
  ASSUME NEW r \in Turning, r.left = 0
  PROVE  Tm!FastTurn(r) = r
<1>1. PICK e \in Nat \ {0} : e = Tm!UntilEdge(r.timer)
  BY LoopWhole, EdgeAhead
<1>2. e > r.left
  BY <1>1
<1>3. Tm!Advanced(r.timer, 0) = r.timer /\ Tm!Loop(r.timer, r.left, r.irq) = r
  BY LoopWhole, AdvancedShape
<1>4. CASE r.timer.delay > 0
  BY <1>4, Zenon DEF Tm!FastTurn, Tm!SlowTurn
<1>5. CASE ~ (r.timer.delay > 0)
  BY <1>1, <1>2, <1>3, <1>5, Zenon DEF Tm!FastTurn
<1> QED
  BY <1>4, <1>5

LEMMA FastShape ==
  ASSUME NEW r \in Turning
  PROVE  Tm!FastTurn(r) \in Turning
<1>1. CASE r.left = 0
  BY <1>1, FastRests
<1>2. CASE r.left # 0
  <2>1. PICK t \in Tm!Timers, b \in BOOLEAN, l \in Nat \ {0}, e \in Nat \ {0} :
          t = r.timer /\ b = r.irq /\ l = r.left /\ e = Tm!UntilEdge(r.timer)
    BY <1>2, LoopWhole, EdgeAhead
  <2>2. CASE t.delay > 0
    BY <2>1, <2>2, SlowShape DEF Tm!FastTurn
  <2>3. CASE ~ (t.delay > 0) /\ (~ t.on \/ e > l)
    <3>1. Tm!FastTurn(r) = Tm!Loop(Tm!Advanced(t, l), 0, b)
      BY <2>1, <2>3, Zenon DEF Tm!FastTurn
    <3>2. Tm!Advanced(t, l) \in Tm!Timers /\ 0 \in Nat
      BY AdvancedShape
    <3> QED
      BY <3>1, <3>2, LoopShape
  <2>4. CASE ~ (t.delay > 0) /\ ~ (~ t.on \/ e > l)
    <3>1. Tm!FastTurn(r) = Tm!Loop(Tm!IncrementTima(Tm!Advanced(t, e)), l - e, b)
      BY <2>1, <2>4, Zenon DEF Tm!FastTurn
    <3>2. Tm!IncrementTima(Tm!Advanced(t, e)) \in Tm!Timers /\ l - e \in Nat
      BY <2>4, AdvancedShape, Increment
    <3> QED
      BY <3>1, <3>2, LoopShape
  <2> QED
    BY <2>2, <2>3, <2>4
<1> QED
  BY <1>1, <1>2

(* The states of tick_fast.                                                 *)
LEMMA FastRuns ==
  ASSUME NEW p \in Tm!Timers, NEW n \in Nat
  PROVE  \E d \in [Nat -> Turning] :
           /\ d[0] = Tm!Loop(p, n, FALSE)
           /\ \A i \in Nat : d[i + 1] = Tm!FastTurn(d[i])
           /\ Tm!FastRun(p, n) = d[n]
<1> DEFINE step == [r \in Turning |-> Tm!FastTurn(r)]
           s == Tm!Loop(p, n, FALSE)
<1>1. step \in [Turning -> Turning] /\ s \in Turning
  BY FastShape, LoopShape
<1> HIDE DEF s
<1>2. \A r \in Turning : step[r] = Tm!FastTurn(r)
  OBVIOUS
<1> HIDE DEF step
<1>3. PICK t \in [Nat -> Turning] : t[0] = s /\ \A i \in Nat : t[i + 1] = step[t[i]]
  <2>1. StatesOf(Turning)
    BY LoopStates
  <2> QED
    BY <1>1, <2>1, Zenon DEF StatesOf
<1>4. \A i \in Nat : t[i + 1] = Tm!FastTurn(t[i])
  BY <1>2, <1>3
<1>5. \A i \in Nat \ {0} : t[i] = Tm!FastTurn(t[i - 1])
  <2> TAKE i \in Nat \ {0}
  <2>1. PICK j \in Nat : j = i - 1 /\ j + 1 = i
    OBVIOUS
  <2> QED
    BY <1>4, <2>1
<1>6. t = [i \in Nat |-> IF i = 0 THEN s ELSE Tm!FastTurn(t[i - 1])]
  BY <1>3, <1>5
<1> DEFINE a == CHOOSE a : a = [i \in Nat |-> IF i = 0 THEN s ELSE Tm!FastTurn(a[i - 1])]
<1>7. a = [i \in Nat |-> IF i = 0 THEN s ELSE Tm!FastTurn(a[i - 1])]
  BY <1>6, Zenon
<1>8. Tm!FastRun(p, n) = a[n]
  BY DEF Tm!FastRun, s
<1> HIDE DEF a
<1>9. a[0] = s /\ \A i \in Nat : a[i + 1] = Tm!FastTurn(a[i])
  <2>1. a[0] = s
    BY <1>7
  <2>2. ASSUME NEW i \in Nat PROVE a[i + 1] = Tm!FastTurn(a[i])
    <3>1. PICK j \in Nat : j = i + 1 /\ j # 0 /\ j - 1 = i
      OBVIOUS
    <3> QED
      BY <1>7, <3>1, Zenon
  <2> QED
    BY <2>1, <2>2
<1> DEFINE A == {i \in Nat : a[i] = t[i]}
<1>10. 0 \in A
  BY <1>3, <1>9
<1>11. ASSUME NEW i \in Nat, i \in A PROVE i + 1 \in A
  <2>1. a[i] = t[i]
    BY <1>11
  <2>2. a[i + 1] = t[i + 1]
    BY <1>4, <1>9, <2>1, Zenon
  <2> QED
    BY <2>2
<1> HIDE DEF A
<1>12. n \in A
  BY <1>10, <1>11, Induction
<1> QED
  BY <1>3, <1>4, <1>8, <1>12 DEF A, s

(* Each turn of tick takes one cycle of what was left.                      *)
LEMMA SlowLeft ==
  ASSUME NEW n \in Nat, NEW d \in [Nat -> Turning], d[0].left = n,
         \A i \in Nat : d[i + 1] = Tm!SlowTurn(d[i])
  PROVE  \A i \in Nat : i =< n => d[i].left = n - i
<1> DEFINE A == {i \in Nat : i =< n => d[i].left = n - i}
<1>1. 0 \in A
  OBVIOUS
<1>2. ASSUME NEW i \in Nat, i \in A PROVE i + 1 \in A
  <2> SUFFICES ASSUME i + 1 =< n PROVE d[i + 1].left = n - (i + 1)
    OBVIOUS
  <2>1. PICK r \in Turning : r = d[i] /\ r.left = n - i /\ r.left # 0
    BY <1>2
  <2>2. d[i + 1] = Tm!SlowTurn(r)
    BY <2>1
  <2>3. Tm!SlowTurn(r).left = r.left - 1
    BY <2>1 DEF Tm!SlowTurn, Tm!Loop
  <2> QED
    BY <2>1, <2>2, <2>3
<1> HIDE DEF A
<1>3. \A i \in Nat : i \in A
  BY <1>1, <1>2, Induction
<1> QED
  BY <1>3 DEF A

(* The two ticks of the timer (timer.rs, tick and tick_fast) bring it to the *)
(* same registers and say the same of the interrupt.                        *)
LEMMA TicksMeet ==
  ASSUME NEW p \in Tm!Timers, NEW n \in Nat
  PROVE  Tm!FastRun(p, n) = Tm!SlowRun(p, n)
<1>1. PICK d \in [Nat -> Turning] :
        /\ d[0] = Tm!Loop(p, n, FALSE)
        /\ \A i \in Nat : d[i + 1] = Tm!SlowTurn(d[i])
        /\ Tm!SlowRun(p, n) = d[n]
  BY SlowRuns
<1>2. PICK f \in [Nat -> Turning] :
        /\ f[0] = Tm!Loop(p, n, FALSE)
        /\ \A i \in Nat : f[i + 1] = Tm!FastTurn(f[i])
        /\ Tm!FastRun(p, n) = f[n]
  BY FastRuns
<1>3. f[0] = d[0] /\ d[0].left = n
  <2>1. Tm!Loop(p, n, FALSE).left = n
    BY Zenon DEF Tm!Loop
  <2> QED
    BY <1>1, <1>2, <2>1
<1>4. \A i \in Nat : i =< n => d[i].left = n - i
  BY <1>1, <1>3, SlowLeft
<1> DEFINE A == {i \in Nat : \E j \in 0 .. n : f[i] = d[j] /\ (j = n \/ i =< j)}
<1>5. 0 \in A
  BY <1>3
<1>6. ASSUME NEW i \in Nat, i \in A PROVE i + 1 \in A
  <2>1. PICK j \in 0 .. n : f[i] = d[j] /\ (j = n \/ i =< j)
    BY <1>6
  <2>2. d[j].left = n - j /\ j \in Nat
    BY <1>4
  <2>3. f[i + 1] = Tm!FastTurn(d[j])
    BY <1>2, <2>1
  <2>4. CASE j = n
    <3>1. Tm!FastTurn(d[j]) = d[j]
      BY <2>2, <2>4, FastRests
    <3> QED
      BY <2>1, <2>3, <2>4, <3>1
  <2>5. CASE j # n
    <3>1. d[j].left # 0
      BY <2>2, <2>5
    <3>2. PICK c \in 1 .. d[j].left : Tm!FastTurn(d[j]) = d[j + c]
      BY <1>1, <2>2, <3>1, Jump
    <3>3. j + c \in 0 .. n /\ i + 1 =< j + c
      BY <2>1, <2>2, <2>5, <3>2
    <3>4. f[i + 1] = d[j + c]
      BY <2>3, <3>2
    <3> QED
      BY <3>3, <3>4
  <2> QED
    BY <2>4, <2>5
<1> HIDE DEF A
<1>7. n \in A
  BY <1>5, <1>6, Induction
<1>8. PICK j \in 0 .. n : f[n] = d[j] /\ (j = n \/ n =< j)
  BY <1>7 DEF A
<1>9. j = n
  BY <1>8
<1> QED
  BY <1>1, <1>2, <1>8, <1>9

LEMMA TimerTicksAgree == Tm!Spec => []Tm!FastAgrees
<1>1. TimerInv => Tm!FastAgrees
  <2> SUFFICES ASSUME TimerInv, NEW n \in 0 .. MaxChunk PROVE Tm!FastRun(timer, n) = Tm!SlowRun(timer, n)
    BY DEF Tm!FastAgrees
  <2>1. PICK p \in Tm!Timers : p = timer
    BY DEF TimerInv, Tm!TypeOK
  <2>2. n \in Nat
    BY TimerAssumption DEF Tm!TimerParameters
  <2> QED
    BY <2>1, <2>2, TicksMeet
<1> QED
  BY <1>1, TimerInit, TimerNext, PTL DEF Tm!Spec

-----------------------------------------------------------------------------
(* The sound unit: what it keeps to, operation by operation, and its time    *)
(* cycle by cycle.                                                           *)

(* The sizes, as the assumption gives them.                                  *)
LEMMA SoundSizes ==
  /\ Channels \subseteq 1 .. 4
  /\ LowPitches \in Nat \ {0} /\ HighPitches \in Nat \ {0} /\ ZeroPace \in Nat \ {0}
  /\ MaxLength \in Nat \ {0} /\ Phases \in Nat \ {0} /\ NoiseWord \in Nat \ {0}
  /\ MinNoisePeriod \in Nat \ {0} /\ SampleCycles \in Nat \ {0} /\ SequencerCycles \in Nat \ {0}
  /\ Oversample \in Nat \ {0} /\ MaxVolume \in Nat /\ BootPace \in Nat /\ MaxFrames \in Nat
  /\ 0 \in WaveBytes /\ NoiseBits \in 3 .. 15 /\ NarrowBits \in 2 .. NoiseBits - 1
  /\ SweepWrites \subseteq Au!Sweeps /\ EnvelopeWrites \subseteq Au!Envelopes
  /\ NoiseWrites \subseteq Au!Noises /\ BootNoise \in Au!Noises
  /\ Capacities \subseteq Nat /\ TickSizes \subseteq Nat
BY ApuAssumption DEF Au!ApuParameters

(* Two samples to a byte.                                                    *)
LEMMA WaveSize == \E n \in Nat \ {0} : Nibbles = 2 * n /\ Nibbles \div 2 = n
<1>1. PICK n \in Nat \ {0} : Nibbles = 2 * n
  BY ApuAssumption DEF Au!ApuParameters
<1>2. Nibbles = 2 * n + 0 /\ 0 \in 0 .. 2 - 1 /\ 2 \in Nat \ {0} /\ Nibbles \in Int /\ n \in Int
  BY <1>1
<1>3. Nibbles \div 2 = n
  BY <1>2, OnlyDivision
<1> QED
  BY <1>1, <1>3

(* The powers of two are what their recursion says. *)
LEMMA PowerSteps ==
  /\ Au!PowerOfTwo \in [0 .. 15 -> Nat \ {0}]
  /\ Au!PowerOfTwo[0] = 1
  /\ \A n \in 1 .. 15 : Au!PowerOfTwo[n] = 2 * Au!PowerOfTwo[n - 1]
<1>0. PICK S : S = Nat \ {0}
  OBVIOUS
<1> DEFINE step == [x \in Nat \ {0} |-> 2 * x]
<1>1. step \in [Nat \ {0} -> Nat \ {0}] /\ 1 \in Nat \ {0}
  OBVIOUS
<1>2. \A x \in Nat \ {0} : step[x] = 2 * x
  OBVIOUS
<1> HIDE DEF step
<1>3. PICK t \in [Nat -> Nat \ {0}] : t[0] = 1 /\ \A i \in Nat : t[i + 1] = step[t[i]]
  <2>1. step \in [S -> S] /\ 1 \in S
    BY <1>0, <1>1
  <2>2. \E f \in [Nat -> S] : f[0] = 1 /\ \A n \in Nat : f[n + 1] = step[f[n]]
    <3>1. StatesOf(S)
      BY LoopStates
    <3> QED
      BY <2>1, <3>1, Zenon DEF StatesOf
  <2> QED
    BY <1>0, <2>2
<1> DEFINE p == [n \in 0 .. 15 |-> t[n]]
<1>4. p \in [0 .. 15 -> Nat \ {0}] /\ p[0] = 1
  BY <1>3
<1>5. \A n \in 0 .. 15 : n # 0 => p[n] = 2 * p[n - 1]
  <2> TAKE n \in 0 .. 15
  <2> HAVE n # 0
  <2>1. PICK j \in 0 .. 15 : j = n - 1 /\ j + 1 = n /\ j \in Nat
    OBVIOUS
  <2>2. t[n] = 2 * t[j]
    BY <1>2, <1>3, <2>1
  <2> QED
    BY <2>1, <2>2
<1> HIDE DEF p
<1>6. p = [n \in 0 .. 15 |-> IF n = 0 THEN 1 ELSE 2 * p[n - 1]]
  BY <1>4, <1>5
<1> DEFINE a == Au!PowerOfTwo
<1>7. a = [n \in 0 .. 15 |-> IF n = 0 THEN 1 ELSE 2 * a[n - 1]]
  BY <1>6, Zenon DEF Au!PowerOfTwo
<1>8. Au!PowerOfTwo = a
  OBVIOUS
<1> HIDE DEF a
<1> DEFINE A == {n \in Nat : n =< 15 => a[n] = p[n]}
<1>9. 0 \in A
  BY <1>4, <1>7
<1>10. ASSUME NEW n \in Nat, n \in A PROVE n + 1 \in A
  <2> SUFFICES ASSUME n + 1 =< 15 PROVE a[n + 1] = p[n + 1]
    OBVIOUS
  <2>1. PICK m \in 0 .. 15 : m = n + 1 /\ m # 0 /\ m - 1 = n
    OBVIOUS
  <2>2. a[n] = p[n]
    BY <1>10
  <2>3. a[m] = 2 * a[m - 1]
    BY <1>7, <2>1
  <2>4. p[m] = 2 * p[m - 1]
    BY <1>5, <2>1
  <2> QED
    BY <2>1, <2>2, <2>3, <2>4
<1> HIDE DEF A
<1>11. \A n \in Nat : n \in A
  BY <1>9, <1>10, Induction
<1>12. \A n \in 0 .. 15 : a[n] = p[n]
  BY <1>11 DEF A
<1>13. a \in [0 .. 15 -> Nat \ {0}]
  <2>1. a = [n \in 0 .. 15 |-> a[n]]
    BY <1>7
  <2> QED
    BY <1>4, <1>12, <2>1
<1>14. \A n \in 1 .. 15 : a[n] = 2 * a[n - 1]
  BY <1>7
<1> QED
  BY <1>4, <1>8, <1>12, <1>13, <1>14

(* A channel, and the unit. *)
Chans ==
  [enabled : BOOLEAN, bit : BOOLEAN, dac : BOOLEAN, length : Nat, volume : Nat, period : Nat,
   up : BOOLEAN, counter : Nat, timer : Nat, phase : Nat, held : WaveBytes, lfsr : Nat,
   stale : BOOLEAN, switched : BOOLEAN]
Pitches == 0 .. Au!MaxPitch
SweepStates ==
  [shadow : Pitches, counter : Nat, used : BOOLEAN, period : Nat, negate : BOOLEAN, shift : 0 .. 15]
Registers ==
  [pitch : [Channels -> Pitches], lengthOn : [Channels -> BOOLEAN], noise : Au!Noises,
   env : [Channels -> Au!Envelopes]]
Queues ==
  [queue : Seq(Nat), capacity : Nat \ {0}, generated : Nat, dropped : Nat, taken : Nat, cleared : Nat]
Units ==
  [on : BOOLEAN, chan : [Channels -> Chans], sweep : SweepStates, regs : Registers, cycles : Nat,
   step : 0 .. 7, sample : Nat, wave : [0 .. (Nibbles \div 2) - 1 -> WaveBytes], pcm : Queues]

(* What the clocks of lengths, envelopes and sweep leave of a channel.       *)
Quieter(x, y) ==
  /\ y \in Chans
  /\ y.enabled => x.enabled
  /\ (x.bit <=> x.enabled) => (y.bit <=> y.enabled)
  /\ y.dac = x.dac /\ y.phase = x.phase /\ y.held = x.held /\ y.lfsr = x.lfsr
  /\ y.stale = x.stale /\ y.switched = x.switched

(* Off is quieter; so are the same, an envelope clocked, and the quieter of a*)
(* quieter.                                                                  *)
LEMMA OffQuiets ==
  ASSUME NEW x \in Chans
  PROVE  Quieter(x, Au!Off(x)) /\ ~ Au!Off(x).enabled
BY DEF Quieter, Au!Off, Chans

LEMMA SameQuiets ==
  ASSUME NEW x \in Chans
  PROVE  Quieter(x, x)
BY DEF Quieter

LEMMA EnvelopeQuiets ==
  ASSUME NEW x \in Chans
  PROVE  Quieter(x, Au!EnvelopeClocked(x))
<1> DEFINE left == IF x.counter = 0 THEN 0 ELSE x.counter - 1
           v == IF x.up THEN (IF x.volume < MaxVolume THEN x.volume + 1 ELSE x.volume)
                ELSE (IF x.volume > 0 THEN x.volume - 1 ELSE x.volume)
<1>1. left \in Nat /\ v \in Nat
  BY DEF Chans
<1>2. Au!EnvelopeClocked(x) \in {x, [x EXCEPT !.counter = left], [x EXCEPT !.counter = x.period, !.volume = v]}
  BY DEF Au!EnvelopeClocked
<1> HIDE DEF left, v
<1>3. Quieter(x, [x EXCEPT !.counter = left])
  BY <1>1 DEF Quieter, Chans
<1>4. Quieter(x, [x EXCEPT !.counter = x.period, !.volume = v])
  BY <1>1 DEF Quieter, Chans
<1> QED
  BY <1>2, <1>3, <1>4, SameQuiets

LEMMA Quietest ==
  ASSUME NEW x, NEW y, NEW z, Quieter(x, y), Quieter(y, z)
  PROVE  Quieter(x, z)
BY DEF Quieter

(* The clock of lengths.                                                     *)
LEMMA LengthQuiets ==
  ASSUME NEW a \in Units
  PROVE  /\ Au!LengthClocked(a) \in Units
         /\ \A c \in Channels : Quieter(a.chan[c], Au!LengthClocked(a).chan[c])
         /\ \E g \in [Channels -> Chans] : Au!LengthClocked(a) = [a EXCEPT !.chan = g]
<1> DEFINE g == [c \in Channels |->
                   LET ch == a.chan[c]
                   IN IF ~ ch.enabled \/ ~ a.regs.lengthOn[c] \/ ch.length = 0 THEN ch
                      ELSE IF ch.length = 1 THEN Au!Off([ch EXCEPT !.length = 0])
                      ELSE [ch EXCEPT !.length = @ - 1]]
<1>1. ASSUME NEW c \in Channels PROVE Quieter(a.chan[c], g[c])
  <2>1. PICK ch \in Chans : ch = a.chan[c]
    BY DEF Units
  <2>2. \/ g[c] = ch \/ g[c] = Au!Off([ch EXCEPT !.length = 0])
        \/ (ch.length # 0 /\ g[c] = [ch EXCEPT !.length = ch.length - 1])
    <3>1. g[c] = IF ~ ch.enabled \/ ~ a.regs.lengthOn[c] \/ ch.length = 0 THEN ch
                 ELSE IF ch.length = 1 THEN Au!Off([ch EXCEPT !.length = 0])
                 ELSE [ch EXCEPT !.length = ch.length - 1]
      BY <2>1
    <3> HIDE DEF g
    <3> QED
      BY <3>1, Zenon
  <2>3. [ch EXCEPT !.length = 0] \in Chans /\ Quieter(ch, [ch EXCEPT !.length = 0])
    BY DEF Chans, Quieter
  <2>4. Quieter(ch, Au!Off([ch EXCEPT !.length = 0]))
    BY <2>3, OffQuiets, Quietest
  <2>5. ASSUME ch.length # 0 PROVE Quieter(ch, [ch EXCEPT !.length = ch.length - 1])
    <3>1. PICK n \in Nat : n = ch.length - 1
      BY <2>5 DEF Chans
    <3>2. Quieter(ch, [ch EXCEPT !.length = n])
      BY <3>1 DEF Chans, Quieter
    <3> QED
      BY <3>1, <3>2
  <2> HIDE DEF g
  <2> QED
    BY <2>1, <2>2, <2>4, <2>5, SameQuiets
<1>2. Au!LengthClocked(a) = [a EXCEPT !.chan = g]
  BY DEF Au!LengthClocked
<1>3. g = [c \in Channels |-> g[c]]
  OBVIOUS
<1> HIDE DEF g
<1>4. g \in [Channels -> Chans]
  BY <1>1, <1>3 DEF Quieter
<1>5. [a EXCEPT !.chan = g] \in Units /\ [a EXCEPT !.chan = g].chan = g
  BY <1>4 DEF Units
<1> QED
  BY <1>1, <1>2, <1>4, <1>5

(* The pitch a sweep comes to.                                               *)
LEMMA SweptShape ==
  ASSUME NEW p \in Pitches, NEW n \in BOOLEAN, NEW s \in 0 .. 15
  PROVE  Au!Swept(p, n, s) \in Nat
<1>1. PICK q \in Nat \ {0} : q = Au!PowerOfTwo[s]
  BY PowerSteps
<1>2. p \in Nat
  BY DEF Pitches
<1>3. PICK d \in Nat, r \in 0 .. q - 1 : d = p \div q /\ r = p % q /\ p = q * d + r
  BY <1>2, Divided
<1>4. d =< p
  <2>1. PICK x \in Nat : x = q * d /\ x >= d
    <3>1. PICK e \in Nat : q = 1 + e
      <4>1. q - 1 \in Nat /\ q = 1 + (q - 1)
        OBVIOUS
      <4> QED
        BY <4>1
    <3>2. PICK y \in Nat : y = e * d
      OBVIOUS
    <3>3. q * d = d + y
      BY <3>1, <3>2
    <3> QED
      BY <3>2, <3>3
  <2> QED
    BY <1>2, <1>3, <2>1
<1>5. p - d \in Nat /\ p + d \in Nat
  BY <1>2, <1>4
<1> QED
  BY <1>1, <1>3, <1>5 DEF Au!Swept

(* A pitch that is not too high fits the registers.                          *)
LEMMA FitsRegister ==
  ASSUME NEW p \in Nat, ~ Au!TooHigh(p)
  PROVE  p \in Pitches
BY SoundSizes DEF Au!TooHigh, Pitches, Au!MaxPitch

(* A clock that leaves what is heard and waits alone.                        *)
Calmer(a, b) ==
  /\ b \in Units
  /\ b.on = a.on /\ b.wave = a.wave /\ b.regs.noise = a.regs.noise /\ b.pcm = a.pcm
  /\ b.sample = a.sample /\ b.cycles = a.cycles
  /\ \A c \in Channels : Quieter(a.chan[c], b.chan[c])

(* With the check made, the sweep's next pitch fits.                         *)
SweepGood(a, checked) ==
  1 \in Channels /\ a.chan[1].enabled /\ checked /\ a.sweep.shift # 0
    => ~ Au!TooHigh(Au!Swept(a.sweep.shadow, a.sweep.negate, a.sweep.shift))

(* Each clock of the sequencer calms the unit, and the sweep's checked pitch *)
(* stays one that fits.                                                      *)
LEMMA LengthCalms ==
  ASSUME NEW a \in Units, NEW checked
  PROVE  /\ Calmer(a, Au!LengthClocked(a))
         /\ SweepGood(a, checked) => SweepGood(Au!LengthClocked(a), checked)
<1>1. PICK g \in [Channels -> Chans] : Au!LengthClocked(a) = [a EXCEPT !.chan = g]
  BY LengthQuiets
<1>2. PICK b \in Units : b = Au!LengthClocked(a)
  BY LengthQuiets
<1>3. \A c \in Channels : Quieter(a.chan[c], b.chan[c])
  BY <1>2, LengthQuiets
<1>4. b.on = a.on /\ b.wave = a.wave /\ b.regs = a.regs /\ b.pcm = a.pcm
      /\ b.sample = a.sample /\ b.cycles = a.cycles /\ b.sweep = a.sweep
  BY <1>1, <1>2 DEF Units
<1>5. Calmer(a, b)
  BY <1>3, <1>4 DEF Calmer
<1>6. SweepGood(a, checked) => SweepGood(b, checked)
  BY <1>3, <1>4 DEF SweepGood, Quieter
<1> QED
  BY <1>2, <1>5, <1>6

LEMMA SweepCalms ==
  ASSUME NEW a \in Units, NEW checked, 1 \in Channels
  PROVE  /\ Calmer(a, Au!SweepClocked(a))
         /\ SweepGood(a, checked) => SweepGood(Au!SweepClocked(a), checked)
<1> DEFINE s == a.sweep
           left == IF s.counter = 0 THEN 0 ELSE s.counter - 1
           reloaded == [s EXCEPT !.counter = Au!Reload(s.period)]
           next == Au!Swept(s.shadow, s.negate, s.shift)
           used == [reloaded EXCEPT !.used = @ \/ s.negate]
           off == [a.chan EXCEPT ![1] = Au!Off(@)]
           r == Au!SweepClocked(a)
<1>1. s \in SweepStates /\ left \in Nat /\ next \in Nat
  <2>1. s \in SweepStates
    BY DEF Units
  <2>2. left \in Nat /\ s.shadow \in Pitches /\ s.negate \in BOOLEAN /\ s.shift \in 0 .. 15
    BY <2>1 DEF SweepStates
  <2> QED
    BY <2>1, <2>2, SweptShape
<1>2. /\ reloaded \in SweepStates /\ reloaded.shadow = s.shadow
      /\ reloaded.negate = s.negate /\ reloaded.shift = s.shift
  <2>1. PICK n \in Nat : n = Au!Reload(s.period)
    BY <1>1, SoundSizes DEF Au!Reload, SweepStates
  <2>2. reloaded = [s EXCEPT !.counter = n]
    BY <2>1
  <2> HIDE DEF s, reloaded
  <2> QED
    BY <1>1, <2>2 DEF SweepStates
<1>3. /\ used \in SweepStates /\ used.shadow = s.shadow
      /\ used.negate = s.negate /\ used.shift = s.shift
  <2>1. PICK u \in BOOLEAN : u = (reloaded.used \/ s.negate)
    BY <1>1, <1>2 DEF SweepStates
  <2>2. used = [reloaded EXCEPT !.used = u]
    BY <2>1
  <2> HIDE DEF reloaded, s, used
  <2> QED
    BY <1>2, <2>2 DEF SweepStates
<1>4. /\ off \in [Channels -> Chans] /\ off[1] = Au!Off(a.chan[1]) /\ ~ off[1].enabled
      /\ \A c \in Channels : Quieter(a.chan[c], off[c]) /\ Quieter(a.chan[c], a.chan[c])
  <2>1. a.chan \in [Channels -> Chans]
    BY DEF Units
  <2>2. Au!Off(a.chan[1]) \in Chans /\ ~ Au!Off(a.chan[1]).enabled /\ Quieter(a.chan[1], Au!Off(a.chan[1]))
    BY <2>1, OffQuiets DEF Quieter
  <2> QED
    BY <2>1, <2>2, SameQuiets
<1>5. \/ r = a \/ r = [a EXCEPT !.sweep.counter = left] \/ r = [a EXCEPT !.sweep = reloaded]
      \/ r = [a EXCEPT !.sweep = used, !.chan = off]
      \/ (s.shift = 0 /\ r = [a EXCEPT !.sweep = used])
      \/ (~ Au!TooHigh(next) /\ r = [a EXCEPT !.sweep = [used EXCEPT !.shadow = next], !.regs.pitch[1] = next,
                                  !.chan = IF Au!SecondTooHigh(next, s) THEN off ELSE a.chan])
  BY Zenon DEF Au!SweepClocked
<1>0. SUFFICES Calmer(a, r) /\ (SweepGood(a, checked) => SweepGood(r, checked))
  OBVIOUS
<1> HIDE DEF r, off, used, reloaded, left, next
<1>6. CASE r = a
  BY <1>4, <1>6 DEF Calmer
<1>7. CASE r = [a EXCEPT !.sweep.counter = left]
  <2>1. r \in Units /\ r.sweep.shadow = s.shadow /\ r.sweep.negate = s.negate /\ r.sweep.shift = s.shift
    BY <1>1, <1>7 DEF Units, SweepStates
  <2>2. r.chan = a.chan /\ r.on = a.on /\ r.wave = a.wave /\ r.regs = a.regs /\ r.pcm = a.pcm
        /\ r.sample = a.sample /\ r.cycles = a.cycles
    BY <1>7 DEF Units
  <2> QED
    BY <1>4, <2>1, <2>2 DEF Calmer, SweepGood
<1>8. CASE r = [a EXCEPT !.sweep = reloaded]
  <2>1. r \in Units /\ r.sweep = reloaded
    BY <1>2, <1>8 DEF Units
  <2>2. r.chan = a.chan /\ r.on = a.on /\ r.wave = a.wave /\ r.regs = a.regs /\ r.pcm = a.pcm
        /\ r.sample = a.sample /\ r.cycles = a.cycles
    BY <1>8 DEF Units
  <2> QED
    BY <1>2, <1>4, <2>1, <2>2 DEF Calmer, SweepGood
<1>9. CASE r = [a EXCEPT !.sweep = used, !.chan = off]
  <2>1. r \in Units /\ r.sweep = used /\ r.chan = off
    BY <1>3, <1>4, <1>9 DEF Units
  <2>2. r.on = a.on /\ r.wave = a.wave /\ r.regs = a.regs /\ r.pcm = a.pcm
        /\ r.sample = a.sample /\ r.cycles = a.cycles
    BY <1>9 DEF Units
  <2> QED
    BY <1>3, <1>4, <2>1, <2>2 DEF Calmer, SweepGood
<1>10. CASE s.shift = 0 /\ r = [a EXCEPT !.sweep = used]
  <2>1. r \in Units /\ r.sweep = used
    BY <1>3, <1>10 DEF Units
  <2>2. r.chan = a.chan /\ r.on = a.on /\ r.wave = a.wave /\ r.regs = a.regs /\ r.pcm = a.pcm
        /\ r.sample = a.sample /\ r.cycles = a.cycles
    BY <1>10 DEF Units
  <2> QED
    BY <1>3, <1>4, <1>10, <2>1, <2>2 DEF Calmer, SweepGood
<1>11. CASE ~ Au!TooHigh(next) /\ r = [a EXCEPT !.sweep = [used EXCEPT !.shadow = next], !.regs.pitch[1] = next,
                                  !.chan = IF Au!SecondTooHigh(next, s) THEN off ELSE a.chan]
  <2>1. next \in Pitches
    BY <1>1, <1>11, FitsRegister
  <2>2. PICK w \in SweepStates : /\ w = [used EXCEPT !.shadow = next] /\ w.shadow = next
                                 /\ w.negate = s.negate /\ w.shift = s.shift
    <3>1. PICK u \in SweepStates : u = used
      BY <1>3
    <3>2. [u EXCEPT !.shadow = next] \in SweepStates /\ [u EXCEPT !.shadow = next].shadow = next
      BY <2>1 DEF SweepStates
    <3>3. [u EXCEPT !.shadow = next].negate = u.negate /\ [u EXCEPT !.shadow = next].shift = u.shift
      BY DEF SweepStates
    <3> QED
      BY <1>3, <3>1, <3>2, <3>3
  <2>3. PICK g \in [Channels -> Chans] :
          /\ g = IF Au!SecondTooHigh(next, s) THEN off ELSE a.chan
          /\ Au!SecondTooHigh(next, s) => ~ g[1].enabled
          /\ \A c \in Channels : Quieter(a.chan[c], g[c])
    BY <1>4 DEF Units
  <2>4. PICK p \in [Channels -> Pitches] : p = [a.regs.pitch EXCEPT ![1] = next]
    BY <2>1 DEF Units, Registers
  <2>5. PICK q \in Registers : q = [a.regs EXCEPT !.pitch = p] /\ q.noise = a.regs.noise
    <3>1. PICK u \in Registers : u = a.regs
      BY DEF Units
    <3>2. [u EXCEPT !.pitch = p] \in Registers /\ [u EXCEPT !.pitch = p].noise = u.noise
      BY DEF Registers
    <3> QED
      BY <3>1, <3>2
  <2>6. r = [a EXCEPT !.sweep = w, !.regs = q, !.chan = g]
    BY <1>11, <2>2, <2>3, <2>4, <2>5
  <2>7. r \in Units /\ r.sweep = w /\ r.chan = g /\ r.regs = q
    BY <2>6 DEF Units
  <2>8. r.on = a.on /\ r.wave = a.wave /\ r.pcm = a.pcm
        /\ r.sample = a.sample /\ r.cycles = a.cycles
    BY <2>6 DEF Units
  <2>9. Calmer(a, r)
    BY <2>3, <2>5, <2>7, <2>8 DEF Calmer
  <2>10. SweepGood(r, checked)
    BY <2>2, <2>3, <2>7 DEF SweepGood, Au!SecondTooHigh
  <2> QED
    BY <2>9, <2>10
<1> QED
  BY <1>5, <1>6, <1>7, <1>8, <1>9, <1>10, <1>11

(* Calming twice, and not at all.                                            *)
LEMMA CalmestIsCalm ==
  ASSUME NEW a, NEW b, NEW d, Calmer(a, b), Calmer(b, d)
  PROVE  Calmer(a, d)
<1>1. \A c \in Channels : Quieter(a.chan[c], d.chan[c])
  BY Quietest DEF Calmer
<1> QED
  BY <1>1 DEF Calmer

LEMMA SameCalms ==
  ASSUME NEW a \in Units
  PROVE  Calmer(a, a)
<1>1. \A c \in Channels : Quieter(a.chan[c], a.chan[c])
  BY SameQuiets DEF Units
<1> QED
  BY <1>1 DEF Calmer

(* The envelopes' clock, on every channel but the wave channel.              *)
LEMMA EnvelopesCalm ==
  ASSUME NEW a \in Units, NEW checked
  PROVE  LET b == [a EXCEPT !.chan = [c \in Channels |->
                      IF c = 3 THEN a.chan[c] ELSE Au!EnvelopeClocked(a.chan[c])]]
         IN Calmer(a, b) /\ (SweepGood(a, checked) => SweepGood(b, checked))
<1> DEFINE g == [c \in Channels |-> IF c = 3 THEN a.chan[c] ELSE Au!EnvelopeClocked(a.chan[c])]
           b == [a EXCEPT !.chan = g]
<1>1. \A c \in Channels : Quieter(a.chan[c], g[c])
  BY SameQuiets, EnvelopeQuiets DEF Units
<1>2. g \in [Channels -> Chans]
  <2>1. g = [c \in Channels |-> g[c]]
    OBVIOUS
  <2> HIDE DEF g
  <2> QED
    BY <1>1, <2>1 DEF Quieter
<1> HIDE DEF g
<1>3. b \in Units /\ b.chan = g
  BY <1>2 DEF Units
<1>4. b.on = a.on /\ b.wave = a.wave /\ b.regs = a.regs /\ b.pcm = a.pcm
      /\ b.sample = a.sample /\ b.cycles = a.cycles /\ b.sweep = a.sweep
  BY DEF Units
<1>5. Calmer(a, b)
  BY <1>1, <1>3, <1>4 DEF Calmer
<1>6. SweepGood(a, checked) => SweepGood(b, checked)
  BY <1>1, <1>3, <1>4 DEF SweepGood, Quieter
<1> QED
  BY <1>5, <1>6 DEF g

(* A step of the sequencer starts its count again, and calms.                *)
LEMMA StepCalms ==
  ASSUME NEW a \in Units, NEW checked
  PROVE  \E b \in Units :
           /\ b.on = a.on /\ b.wave = a.wave /\ b.regs = a.regs /\ b.pcm = a.pcm /\ b.chan = a.chan
           /\ b.sample = a.sample /\ b.cycles = 0 /\ b.sweep = a.sweep
           /\ Calmer(b, Au!SequencerStep(a))
           /\ SweepGood(b, checked) => SweepGood(Au!SequencerStep(a), checked)
<1>1. PICK step \in 0 .. 7 : step = (a.step + 1) % 8
  BY DEF Units
<1>2. PICK b \in Units : b = [a EXCEPT !.step = step, !.cycles = 0]
  BY DEF Units
<1>3. b.on = a.on /\ b.wave = a.wave /\ b.regs = a.regs /\ b.pcm = a.pcm /\ b.chan = a.chan
      /\ b.sample = a.sample /\ b.cycles = 0 /\ b.sweep = a.sweep
  BY <1>2 DEF Units
<1>4. PICK l : l = IF step % 2 = 0 THEN Au!LengthClocked(b) ELSE b
  OBVIOUS
<1>5. Calmer(b, l) /\ (SweepGood(b, checked) => SweepGood(l, checked)) /\ l \in Units
  <2>1. CASE step % 2 = 0
    BY <1>4, <2>1, LengthCalms DEF Calmer
  <2>2. CASE step % 2 # 0
    BY <1>4, <2>2, SameCalms
  <2> QED
    BY <2>1, <2>2
<1>6. PICK s : s = IF step \in {2, 6} /\ 1 \in Channels THEN Au!SweepClocked(l) ELSE l
  OBVIOUS
<1>7. Calmer(l, s) /\ (SweepGood(l, checked) => SweepGood(s, checked)) /\ s \in Units
  <2>1. CASE step \in {2, 6} /\ 1 \in Channels
    BY <1>5, <1>6, <2>1, SweepCalms DEF Calmer
  <2>2. CASE ~ (step \in {2, 6} /\ 1 \in Channels)
    BY <1>5, <1>6, <2>2, SameCalms
  <2> QED
    BY <2>1, <2>2
<1>8. PICK e : e = [s EXCEPT !.chan = [c \in Channels |->
                      IF c = 3 THEN s.chan[c] ELSE Au!EnvelopeClocked(s.chan[c])]]
  OBVIOUS
<1>9. Calmer(s, e) /\ (SweepGood(s, checked) => SweepGood(e, checked))
  BY <1>7, <1>8, EnvelopesCalm
<1>10. Au!SequencerStep(a) = IF step = 7 THEN e ELSE s
  BY <1>1, <1>2, <1>4, <1>6, <1>8, ZenonT(120) DEF Au!SequencerStep
<1>11. Calmer(b, s) /\ Calmer(b, e)
  BY <1>5, <1>7, <1>9, CalmestIsCalm
<1> QED
  BY <1>3, <1>5, <1>7, <1>9, <1>10, <1>11

(* What a unit keeps to besides.                                             *)
SwitchGood(a) ==
  \A c \in Channels :
    /\ a.chan[c].bit <=> a.chan[c].enabled
    /\ a.chan[c].enabled => a.chan[c].dac /\ a.on

(* The byte held is the one of its place, and the noise register is awake.   *)
WaveGood(a) ==
  3 \in Channels =>
    /\ a.chan[3].phase < Nibbles
    /\ ~ a.chan[3].stale => a.chan[3].held = a.wave[a.chan[3].phase \div 2]

(* In narrow mode the low bits go round by themselves.                       *)
Awake(lfsr, narrow) == lfsr # 0 /\ (narrow => lfsr % Au!PowerOfTwo[NarrowBits] # 0)

NoiseGood(a) ==
  4 \in Channels /\ ~ a.chan[4].switched => Awake(a.chan[4].lfsr, a.regs.noise.narrow)

(* What calms a unit keeps what it kept to.                                  *)
LEMMA CalmKeeps ==
  ASSUME NEW a, NEW b, Calmer(a, b), SwitchGood(a), WaveGood(a), NoiseGood(a)
  PROVE  SwitchGood(b) /\ WaveGood(b) /\ NoiseGood(b)
<1>1. \A c \in Channels : Quieter(a.chan[c], b.chan[c])
  BY DEF Calmer
<1>2. b.on = a.on /\ b.wave = a.wave /\ b.regs.noise = a.regs.noise
  BY DEF Calmer
<1>3. SwitchGood(b)
  BY <1>1, <1>2, Zenon DEF SwitchGood, Quieter
<1>4. WaveGood(b)
  BY <1>1, <1>2 DEF WaveGood, Quieter
<1>5. NoiseGood(b)
  BY <1>1, <1>2 DEF NoiseGood, Quieter
<1> QED
  BY <1>3, <1>4, <1>5
-----------------------------------------------------------------------------
(* The noise register                                                        *)

(* A multiple leaves nothing.                                                *)
LEMMA Multiple ==
  ASSUME NEW b \in Nat \ {0}, NEW q \in Int, NEW a \in Int, a = b * q
  PROVE  a % b = 0
<1>1. PICK r \in 0 .. b - 1 : r = 0
  OBVIOUS
<1>2. a = b * q + r
  BY <1>1
<1> QED
  BY <1>1, <1>2, OnlyDivision

(* A shift of a register that is not zero leaves one that is not.            *)
LEMMA WideAwake ==
  ASSUME NEW l \in Nat \ {0}, NEW h \in Nat, NEW b \in 0 .. 1, l = 2 * h + b,
         NEW f \in 0 .. 1, f = (l + h) % 2, NEW top \in Nat \ {0}
  PROVE  h + (f * top) \in Nat \ {0}
<1>1. PICK y \in Nat : y = f * top
  OBVIOUS
<1>2. CASE h # 0
  BY <1>1, <1>2
<1>3. CASE h = 0
  <2>1. l = 1
    BY <1>3
  <2>2. l + h = 2 * 0 + 1 /\ 1 \in 0 .. 2 - 1 /\ 2 \in Nat \ {0} /\ l + h \in Int
    BY <1>3, <2>1
  <2>3. f = 1
    BY <2>2, OnlyDivision
  <2>4. y = top
    BY <1>1, <2>3
  <2> QED
    BY <1>1, <1>3, <2>4
<1> QED
  BY <1>2, <1>3

(* The bit fed back, the bits that narrow mode goes round, and what it makes *)
(* of a shifted register.                                                    *)
FedBack(l, h) == (l + h) % 2
LowBits(x, half) == x % (4 * half)
Narrowed(wide, f, half) == wide + ((f - ((wide \div (2 * half)) % 2)) * (2 * half))

(* With the fed back bit in the place of the one shifted there.              *)
LEMMA NarrowAwake ==
  ASSUME NEW l \in Nat, NEW h \in Nat, NEW b \in 0 .. 1, l = 2 * h + b,
         NEW f \in 0 .. 1, f = FedBack(l, h), NEW half \in Nat \ {0},
         LowBits(l, half) # 0, NEW wide \in Nat, f = 0 => wide = h
  PROVE  LowBits(Narrowed(wide, f, half), half) # 0
<1>0. f = (l + h) % 2 /\ l % (4 * half) # 0
  BY DEF FedBack, LowBits
<1>1. PICK p \in Nat \ {0} : p = 2 * half
  OBVIOUS
<1>2. PICK w \in Nat, r \in 0 .. p - 1 : w = wide \div p /\ r = wide % p /\ wide = p * w + r
  BY Divided
<1>3. PICK u \in Nat, e \in 0 .. 1 : u = w \div 2 /\ e = w % 2 /\ w = 2 * u + e
  <2>1. PICK two \in Nat \ {0} : two = 2
    OBVIOUS
  <2>2. PICK u \in Nat, e \in 0 .. two - 1 : u = w \div two /\ e = w % two /\ w = two * u + e
    BY Divided
  <2> QED
    BY <2>1, <2>2
<1>4. PICK x \in Nat, y \in Nat, z \in Nat : x = p * u /\ y = p * e /\ z = p * f
  <2>1. PICK x \in Nat : x = p * u
    BY <1>3
  <2>2. PICK y \in Nat : y = p * e
    BY <1>3
  <2>3. PICK z \in Nat : z = p * f
    OBVIOUS
  <2> QED
    BY <2>1, <2>2, <2>3
<1>5. wide = 2 * x + y + r
  <2>1. p * w = 2 * x + y
    BY <1>3, <1>4
  <2> QED
    BY <1>2, <2>1
<1>6. (f - e) * p = z - y
  BY <1>3, <1>4
<1>7. PICK v : v = wide + ((f - e) * p)
  OBVIOUS
<1>8. v = 2 * x + z + r
  BY <1>4, <1>5, <1>6, <1>7
<1>9. PICK q \in Nat \ {0} : q = 4 * half /\ q = 2 * p /\ q * u = 2 * x
  <2>1. (2 * p) * u = 2 * (p * u)
    OBVIOUS
  <2> QED
    BY <1>1, <1>4, <2>1
<1>10. z + r \in 0 .. q - 1
  <2>1. z = 0 \/ z = p
    BY <1>4
  <2> QED
    BY <1>9, <2>1
<1>11. v % q = z + r
  <2>1. v = q * u + (z + r) /\ v \in Int /\ u \in Int
    BY <1>8, <1>9, <1>10
  <2> QED
    BY <1>10, <2>1, OnlyDivision
<1>12. z + r # 0
  <2> SUFFICES ASSUME z + r = 0 PROVE FALSE
    OBVIOUS
  <2>1. z = 0 /\ r = 0 /\ f = 0
    <3>1. z = 0 /\ r = 0
      BY <1>4
    <3>2. ASSUME f = 1 PROVE FALSE
      <4>1. z = p
        BY <1>4, <3>2
      <4> QED
        BY <3>1, <4>1
    <3> QED
      BY <3>1, <3>2
  <2>2. PICK m \in Nat : m = half * w /\ h = 2 * m
    <3>1. h = p * w
      BY <1>2, <2>1
    <3>2. p * w = 2 * (half * w)
      BY <1>1
    <3> QED
      BY <3>1, <3>2
  <2>3. l + h = 2 * (3 * m) + b /\ l + h \in Int /\ 3 * m \in Int
    BY <2>2
  <2>4. f = b
    <3>1. b \in 0 .. 2 - 1 /\ 2 \in Nat \ {0}
      OBVIOUS
    <3> QED
      BY <1>0, <2>3, <3>1, OnlyDivision
  <2>5. l = 4 * m
    BY <2>1, <2>2, <2>4
  <2>6. q * w = 4 * m
    <3>1. (4 * half) * w = 4 * (half * w)
      OBVIOUS
    <3> QED
      BY <1>9, <2>2, <3>1
  <2>7. l = q * w /\ w \in Int
    BY <1>2, <2>5, <2>6
  <2>8. l % q = 0
    <3>1. q \in Nat \ {0} /\ l \in Int /\ w \in Int
      BY <1>9, <2>7
    <3> QED
      BY <2>7, <3>1, Multiple, Zenon
  <2> QED
    BY <1>0, <1>9, <2>8
<1>13. v \in Nat /\ v % q # 0
  BY <1>8, <1>11, <1>12
<1>14. v = Narrowed(wide, f, half)
  BY <1>1, <1>2, <1>3, <1>7, Zenon DEF Narrowed
<1> QED
  BY <1>9, <1>13, <1>14, Zenon DEF LowBits

(* A shifted register stays awake.                                           *)
LEMMA ShiftAwake ==
  ASSUME NEW l \in Nat, NEW narrow \in BOOLEAN
  PROVE  /\ Au!Shifted(l, narrow) \in Nat
         /\ Awake(l, narrow) => Awake(Au!Shifted(l, narrow), narrow)
<1>1. PICK h \in Nat, b \in 0 .. 1 : h = l \div 2 /\ b = l % 2 /\ l = 2 * h + b
  <2>1. PICK two \in Nat \ {0} : two = 2
    OBVIOUS
  <2>2. PICK u \in Nat, e \in 0 .. two - 1 : u = l \div two /\ e = l % two /\ l = two * u + e
    BY Divided
  <2> QED
    BY <2>1, <2>2
<1>2. PICK f \in 0 .. 1 : f = (l + h) % 2
  <2>1. PICK two \in Nat \ {0}, s \in Int : two = 2 /\ s = l + h
    OBVIOUS
  <2>2. s % two \in 0 .. two - 1
    BY Division
  <2> QED
    BY <2>1, <2>2
<1>3. PICK top \in Nat \ {0}, half \in Nat \ {0} :
        /\ top = Au!PowerOfTwo[NoiseBits - 1]
        /\ Au!PowerOfTwo[NarrowBits - 1] = 2 * half
        /\ Au!PowerOfTwo[NarrowBits] = 4 * half
  <2>1. NoiseBits - 1 \in 0 .. 15 /\ NarrowBits \in 1 .. 15 /\ NarrowBits - 1 \in 1 .. 15
        /\ NarrowBits - 1 - 1 \in 0 .. 15
    BY SoundSizes
  <2>2. Au!PowerOfTwo[NoiseBits - 1] \in Nat \ {0} /\ Au!PowerOfTwo[NarrowBits - 1 - 1] \in Nat \ {0}
    BY <2>1, PowerSteps
  <2>3. /\ Au!PowerOfTwo[NarrowBits] = 2 * Au!PowerOfTwo[NarrowBits - 1]
        /\ Au!PowerOfTwo[NarrowBits - 1] = 2 * Au!PowerOfTwo[NarrowBits - 1 - 1]
    BY <2>1, PowerSteps
  <2>4. PICK half \in Nat \ {0} : half = Au!PowerOfTwo[NarrowBits - 1 - 1]
    BY <2>2
  <2> QED
    BY <2>2, <2>3, <2>4
<1>4. PICK wide \in Nat : wide = h + (f * top)
  OBVIOUS
<1>5. PICK v : v = wide + ((f - ((wide \div (2 * half)) % 2)) * (2 * half))
  OBVIOUS
<1>6. Au!Shifted(l, narrow) = IF narrow THEN v ELSE wide
  BY <1>1, <1>2, <1>3, <1>4, <1>5, Zenon DEF Au!Shifted
<1>7. f = 0 => wide = h
  BY <1>4
<1>8. v \in Nat
  <2>1. PICK p \in Nat \ {0} : p = 2 * half
    OBVIOUS
  <2>2. PICK w \in Nat, r \in 0 .. p - 1 : w = wide \div p /\ r = wide % p /\ wide = p * w + r
    BY Divided
  <2>3. PICK e \in 0 .. 1 : e = w % 2 /\ e =< w
    <3>1. PICK two \in Nat \ {0} : two = 2
      OBVIOUS
    <3>2. PICK u \in Nat, e \in 0 .. two - 1 : u = w \div two /\ e = w % two /\ w = two * u + e
      BY Divided
    <3> QED
      BY <3>1, <3>2
  <2>4. v = wide + ((f - e) * p)
    BY <1>5, <2>1, <2>2, <2>3
  <2>5. PICK x \in Nat, y \in Nat, z \in Nat : x = p * w /\ y = p * e /\ z = p * f
    BY <2>3
  <2>6. y =< x
    <3>1. e = 0 => y = 0
      BY <2>5
    <3>2. e = 1 => y = p
      BY <2>5
    <3>3. ASSUME w >= 1 PROVE x >= p
      <4>1. PICK k \in Nat : w = k + 1
        <5>1. w - 1 \in Nat /\ w = (w - 1) + 1
          BY <3>3
        <5> QED
          BY <5>1
      <4>2. PICK m \in Nat : m = p * k
        OBVIOUS
      <4>3. x = m + p
        BY <2>5, <4>1, <4>2
      <4> QED
        BY <4>3
    <3> QED
      BY <2>3, <2>5, <3>1, <3>2, <3>3
  <2>7. (f - e) * p = z - y
    BY <2>5, <2>3
  <2> QED
    BY <2>2, <2>4, <2>5, <2>6, <2>7
<1>9. ASSUME Awake(l, narrow) PROVE Awake(Au!Shifted(l, narrow), narrow)
  <2>1. CASE ~ narrow
    <3>1. l # 0
      BY <1>9 DEF Awake
    <3>2. wide # 0
      BY <1>1, <1>2, <1>4, <3>1, WideAwake
    <3> QED
      BY <1>6, <2>1, <3>2 DEF Awake
  <2>2. CASE narrow
    <3>1. l % (4 * half) # 0
      BY <1>3, <1>9, <2>2 DEF Awake
    <3>2. v % (4 * half) # 0
      <4>1. l = 2 * h + b /\ f = FedBack(l, h) /\ (f = 0 => wide = h) /\ LowBits(l, half) # 0
        BY <1>1, <1>2, <1>7, <3>1 DEF FedBack, LowBits
      <4>2. LowBits(Narrowed(wide, f, half), half) # 0
        BY <4>1, NarrowAwake
      <4> QED
        BY <1>5, <4>2, Zenon DEF Narrowed, LowBits
    <3>3. v # 0
      <4>1. PICK q \in Nat \ {0} : q = 4 * half
        OBVIOUS
      <4>2. 0 % q = 0
        BY SmallDivision
      <4> QED
        BY <3>2, <4>1, <4>2
    <3> QED
      BY <1>3, <1>6, <2>2, <3>2, <3>3 DEF Awake
  <2> QED
    BY <2>1, <2>2
<1> QED
  BY <1>6, <1>8, <1>9
(* The loops over the numbers have theirs. *)
LEMMA NumberStates == StatesOf(Nat)
BY LoopStates

(* Shifts one after the other.                                               *)
LEMMA ShiftRuns ==
  ASSUME NEW l \in Nat, NEW narrow \in BOOLEAN
  PROVE  \E t \in [Nat -> Nat] :
           /\ t[0] = l
           /\ \A i \in Nat : t[i + 1] = Au!Shifted(t[i], narrow)
           /\ \A i \in Nat : Au!ShiftedBy(l, narrow, i) = t[i]
<1> DEFINE step == [x \in Nat |-> Au!Shifted(x, narrow)]
<1>1. step \in [Nat -> Nat] /\ \A x \in Nat : step[x] = Au!Shifted(x, narrow)
  BY ShiftAwake
<1> HIDE DEF step
<1>3. PICK t \in [Nat -> Nat] : t[0] = l /\ \A i \in Nat : t[i + 1] = step[t[i]]
  BY <1>1, NumberStates, ZenonT(120) DEF StatesOf
<1>4. \A i \in Nat : t[i + 1] = Au!Shifted(t[i], narrow)
  BY <1>1, <1>3
<1>5. \A i \in Nat \ {0} : t[i] = Au!Shifted(t[i - 1], narrow)
  <2> TAKE i \in Nat \ {0}
  <2>1. PICK j \in Nat : j = i - 1 /\ j + 1 = i
    OBVIOUS
  <2> QED
    BY <1>4, <2>1
<1>6. t = [i \in Nat |-> IF i = 0 THEN l ELSE Au!Shifted(t[i - 1], narrow)]
  BY <1>3, <1>5
<1> DEFINE a == CHOOSE a : a = [i \in Nat |-> IF i = 0 THEN l ELSE Au!Shifted(a[i - 1], narrow)]
<1>7. a = [i \in Nat |-> IF i = 0 THEN l ELSE Au!Shifted(a[i - 1], narrow)]
  BY <1>6, Zenon
<1>8. \A i \in Nat : Au!ShiftedBy(l, narrow, i) = a[i]
  BY Zenon DEF Au!ShiftedBy
<1> HIDE DEF a
<1>9. a[0] = l /\ \A i \in Nat : a[i + 1] = Au!Shifted(a[i], narrow)
  <2>1. a[0] = l
    BY <1>7
  <2>2. ASSUME NEW i \in Nat PROVE a[i + 1] = Au!Shifted(a[i], narrow)
    <3>1. PICK j \in Nat : j = i + 1 /\ j # 0 /\ j - 1 = i
      OBVIOUS
    <3> QED
      BY <1>7, <3>1, Zenon
  <2> QED
    BY <2>1, <2>2
<1> DEFINE A == {i \in Nat : a[i] = t[i]}
<1>10. 0 \in A
  BY <1>3, <1>9
<1>11. ASSUME NEW i \in Nat, i \in A PROVE i + 1 \in A
  <2>1. a[i] = t[i]
    BY <1>11
  <2>2. a[i + 1] = t[i + 1]
    BY <1>4, <1>9, <2>1, Zenon
  <2> QED
    BY <2>2
<1> HIDE DEF A
<1>12. \A i \in Nat : i \in A
  BY <1>10, <1>11, Induction
<1>13. \A i \in Nat : Au!ShiftedBy(l, narrow, i) = t[i]
  BY <1>8, <1>12 DEF A
<1> QED
  BY <1>3, <1>4, <1>13

(* However many shifts; and one more is one more.                            *)
LEMMA ShiftsKeepAwake ==
  ASSUME NEW l \in Nat, NEW narrow \in BOOLEAN, NEW n \in Nat
  PROVE  /\ Au!ShiftedBy(l, narrow, n) \in Nat
         /\ Awake(l, narrow) => Awake(Au!ShiftedBy(l, narrow, n), narrow)
         /\ Au!ShiftedBy(Au!ShiftedBy(l, narrow, n), narrow, 1) = Au!ShiftedBy(l, narrow, n + 1)
<1>1. PICK t \in [Nat -> Nat] :
        /\ t[0] = l
        /\ \A i \in Nat : t[i + 1] = Au!Shifted(t[i], narrow)
        /\ \A i \in Nat : Au!ShiftedBy(l, narrow, i) = t[i]
  BY ShiftRuns, ZenonT(120)
<1>2. Au!ShiftedBy(l, narrow, n) = t[n] /\ Au!ShiftedBy(l, narrow, n + 1) = Au!Shifted(t[n], narrow)
  BY <1>1
<1>3. Au!ShiftedBy(t[n], narrow, 1) = Au!Shifted(t[n], narrow)
  <2>0. PICK x \in Nat : x = t[n]
    BY <1>1
  <2>1. PICK u \in [Nat -> Nat] :
          /\ u[0] = x
          /\ \A i \in Nat : u[i + 1] = Au!Shifted(u[i], narrow)
          /\ \A i \in Nat : Au!ShiftedBy(x, narrow, i) = u[i]
    BY ShiftRuns, ZenonT(120)
  <2>2. u[0 + 1] = Au!Shifted(u[0], narrow) /\ 0 + 1 = 1
    BY <2>1
  <2> QED
    BY <2>0, <2>1, <2>2
<1>4. ASSUME Awake(l, narrow) PROVE Awake(t[n], narrow)
  <2> DEFINE A == {i \in Nat : Awake(t[i], narrow)}
  <2>1. 0 \in A
    BY <1>1, <1>4
  <2>2. ASSUME NEW i \in Nat, i \in A PROVE i + 1 \in A
    <3>1. t[i + 1] = Au!Shifted(t[i], narrow) /\ t[i] \in Nat /\ Awake(t[i], narrow)
      BY <1>1, <2>2
    <3>2. Awake(Au!Shifted(t[i], narrow), narrow)
      BY <3>1, ShiftAwake
    <3> QED
      BY <3>1, <3>2
  <2> HIDE DEF A
  <2>3. n \in A
    BY <2>1, <2>2, Induction
  <2> QED
    BY <2>3 DEF A
<1> QED
  BY <1>1, <1>2, <1>3, <1>4

-----------------------------------------------------------------------------
(* A chunk of time for a channel                                             *)

(* No channel's period is zero.                                              *)
LEMMA PeriodShape ==
  ASSUME NEW a \in Units, NEW c \in Channels
  PROVE  Au!Period(a, c) \in Nat \ {0}
<1>1. CASE c # 4
  <2>1. a.regs.pitch[c] \in Pitches
    BY DEF Units, Registers
  <2>2. PICK m \in Int : m = Au!MaxPitch
    BY SoundSizes DEF Au!MaxPitch
  <2>3. m + 1 - a.regs.pitch[c] \in Nat \ {0}
    BY <2>1, <2>2 DEF Pitches
  <2> QED
    BY <1>1, <2>2, <2>3 DEF Au!Period
<1>2. CASE c = 4
  <2>1. PICK n \in Au!Noises : n = a.regs.noise
    BY DEF Units, Registers
  <2>2. PICK q \in Nat \ {0} : q = Au!PowerOfTwo[n.shift]
    BY PowerSteps DEF Au!Noises
  <2>3. PICK d \in Nat : d = n.divisor * q
    BY DEF Au!Noises
  <2>4. PICK r \in Nat : r = d % NoiseWord
    <3>1. d % NoiseWord \in 0 .. NoiseWord - 1
      BY SoundSizes, Division
    <3> QED
      BY <3>1
  <2>5. PICK x \in Nat \ {0} : x = MinNoisePeriod
    BY SoundSizes
  <2>6. Au!Max({x, r}) \in Nat \ {0}
    <3>1. \E y \in {x, r} : \A z \in {x, r} : y >= z
      OBVIOUS
    <3>2. Au!Max({x, r}) \in {x, r} /\ \A z \in {x, r} : Au!Max({x, r}) >= z
      BY <3>1, Zenon DEF Au!Max
    <3> QED
      BY <3>2
  <2> QED
    BY <1>2, <2>1, <2>2, <2>3, <2>4, <2>5, <2>6 DEF Au!Period
<1> QED
  BY <1>1, <1>2

(* A channel that hears nothing of time, what is left until its deadline, and *)
(* what it is after meeting so many.                                         *)
Idle(a, c) == ~ a.chan[c].enabled \/ (c = 4 /\ a.regs.noise.shift >= FrozenShift)
Wait(a, c) == IF a.chan[c].timer = 0 THEN Au!Period(a, c) ELSE a.chan[c].timer
Reached(a, c, left, met) ==
  LET ch == a.chan[c]
      on == [ch EXCEPT !.timer = left]
      place == (ch.phase + met) % Nibbles
  IN CASE c \in {1, 2} -> [on EXCEPT !.phase = (@ + met) % Phases]
       [] c = 3 -> [on EXCEPT !.phase = place, !.held = a.wave[place \div 2], !.stale = FALSE]
       [] c = 4 -> [on EXCEPT !.lfsr = Au!ShiftedBy(@, a.regs.noise.narrow, met)]

(* Nor its wait.                                                             *)
LEMMA WaitShape ==
  ASSUME NEW a \in Units, NEW c \in Channels
  PROVE  Wait(a, c) \in Nat \ {0}
<1>1. a.chan[c].timer \in Nat
  BY DEF Units, Chans
<1> QED
  BY <1>1, PeriodShape DEF Wait

(* A chunk passes an idle channel by, ends before its deadline, or meets it and*)
(* so many of its periods after it.                                          *)
LEMMA AdvancedCases ==
  ASSUME NEW a \in Units, NEW c \in Channels, NEW k \in Nat
  PROVE  /\ Idle(a, c) => Au!Advanced(a, c, k) = a.chan[c]
         /\ ~ Idle(a, c) /\ k < Wait(a, c) =>
              Au!Advanced(a, c, k) = [a.chan[c] EXCEPT !.timer = Wait(a, c) - k]
         /\ ~ Idle(a, c) => \A q \in Nat, r \in 0 .. Au!Period(a, c) - 1 :
              k - Wait(a, c) = Au!Period(a, c) * q + r =>
              Au!Advanced(a, c, k) = Reached(a, c, Au!Period(a, c) - r, 1 + q)
<1>1. PICK p \in Nat \ {0} : p = Au!Period(a, c)
  BY PeriodShape
<1>2. PICK w \in Nat \ {0} : w = Wait(a, c)
  BY WaitShape
<1>3. PICK late \in Int : late = k - w
  OBVIOUS
<1>4. ASSUME Idle(a, c) PROVE Au!Advanced(a, c, k) = a.chan[c]
  BY <1>4, Zenon DEF Idle, Au!Advanced
<1>5. ASSUME ~ Idle(a, c), k < w PROVE Au!Advanced(a, c, k) = [a.chan[c] EXCEPT !.timer = w - k]
  <2>1. late < 0
    BY <1>3, <1>5
  <2> QED
    BY <1>2, <1>3, <1>5, <2>1, Zenon DEF Idle, Wait, Au!Advanced
<1>6. ASSUME ~ Idle(a, c), NEW q \in Nat, NEW r \in 0 .. p - 1, k - w = p * q + r
      PROVE Au!Advanced(a, c, k) = Reached(a, c, p - r, 1 + q)
  <2>1. late \div p = q /\ late % p = r
    BY <1>3, <1>6, OnlyDivision
  <2>2. ~ (late < 0)
    <3>1. PICK x \in Nat : x = p * q
      OBVIOUS
    <3> QED
      BY <1>3, <1>6, <3>1
  <2> QED
    BY <1>1, <1>2, <1>3, <1>6, <2>1, <2>2, Zenon DEF Idle, Wait, Au!Advanced, Reached
<1> QED
  BY <1>1, <1>2, <1>4, <1>5, <1>6

(* What time leaves of a channel.                                            *)
Played(a, c, y) ==
  LET x == a.chan[c] IN
  /\ y \in Chans
  /\ y.enabled = x.enabled /\ y.bit = x.bit /\ y.dac = x.dac /\ y.switched = x.switched
  /\ c = 3 => \/ y.phase = x.phase /\ y.held = x.held /\ y.stale = x.stale
              \/ y.phase < Nibbles /\ y.held = a.wave[y.phase \div 2]
  /\ c = 4 => (Awake(x.lfsr, a.regs.noise.narrow) => Awake(y.lfsr, a.regs.noise.narrow))

(* A place of the wave has its byte.                                         *)
LEMMA WavePlace ==
  ASSUME NEW a \in Units, NEW n \in Nat
  PROVE  /\ n % Nibbles \in Nat /\ n % Nibbles < Nibbles
         /\ a.wave[(n % Nibbles) \div 2] \in WaveBytes
<1>1. PICK h \in Nat \ {0} : Nibbles = 2 * h /\ Nibbles \div 2 = h
  BY WaveSize
<1>2. PICK m \in Nat \ {0} : m = Nibbles
  BY <1>1
<1>3. PICK r \in 0 .. m - 1 : r = n % m
  <2>1. n % m \in 0 .. m - 1
    BY Division
  <2> QED
    BY <2>1
<1>4. PICK two \in Nat \ {0} : two = 2
  OBVIOUS
<1>5. PICK d \in Nat, e \in 0 .. two - 1 : d = r \div two /\ e = r % two /\ r = two * d + e
  BY Divided
<1>6. d \in 0 .. h - 1
  BY <1>1, <1>2, <1>3, <1>4, <1>5
<1>7. a.wave[d] \in WaveBytes
  BY <1>1, <1>6 DEF Units
<1>8. r \in Nat /\ r < m
  BY <1>3
<1>9. a.wave[(n % Nibbles) \div 2] = a.wave[d]
  BY <1>2, <1>3, <1>4, <1>5, Zenon
<1> QED
  BY <1>2, <1>3, <1>7, <1>8, <1>9, Zenon

(* Deadlines met leave a channel of the unit; and so does any chunk.         *)
LEMMA ReachedShape ==
  ASSUME NEW a \in Units, NEW c \in Channels, NEW left \in Nat, NEW met \in Nat
  PROVE  Played(a, c, Reached(a, c, left, met))
<1>1. PICK ch \in Chans : ch = a.chan[c]
  BY DEF Units
<1>2. PICK s \in Nat : s = ch.phase + met
  BY DEF Chans
<1>a. PICK on : on = [ch EXCEPT !.timer = left]
  OBVIOUS
<1>b. on \in Chans
  BY <1>a DEF Chans
<1>c. /\ on.phase = ch.phase /\ on.lfsr = ch.lfsr /\ on.enabled = ch.enabled /\ on.bit = ch.bit
      /\ on.dac = ch.dac /\ on.switched = ch.switched
  BY <1>a DEF Chans
<1>0. on = [ch EXCEPT !.timer = left] /\ on.phase = ch.phase /\ on.lfsr = ch.lfsr
  BY <1>a, <1>c
<1>3. CASE c \in {1, 2}
  <2>1. PICK r \in Nat : r = s % Phases
    <3>1. s % Phases \in 0 .. Phases - 1
      BY SoundSizes, Division
    <3> QED
      BY <3>1
  <2>3. c # 3 /\ c # 4
    BY <1>3
  <2>6. PICK y : y = [on EXCEPT !.phase = r]
    OBVIOUS
  <2>2. Reached(a, c, left, met) = y
    BY <1>0, <1>1, <1>2, <1>3, <2>1, <2>3, <2>6 DEF Reached
  <2>4. y \in Chans
    BY <1>b, <2>1, <2>6 DEF Chans
  <2>5. y.enabled = on.enabled /\ y.bit = on.bit /\ y.dac = on.dac /\ y.switched = on.switched
    BY <1>b, <2>6 DEF Chans
  <2> QED
    BY <1>1, <1>c, <2>2, <2>3, <2>4, <2>5, Zenon DEF Played
<1>4. CASE c = 3
  <2>1. PICK r \in Nat, h \in WaveBytes : r = s % Nibbles /\ r < Nibbles /\ h = a.wave[r \div 2]
    BY WavePlace
  <2>2. PICK y : y = [on EXCEPT !.phase = r, !.held = h, !.stale = FALSE]
    OBVIOUS
  <2>3. Reached(a, c, left, met) = y
    <3>1. c \notin {1, 2} /\ c # 4
      BY <1>4
    <3> QED
      BY <1>0, <1>1, <1>2, <1>4, <2>1, <2>2, <3>1, Zenon DEF Reached
  <2>4. y \in Chans /\ y.phase = r /\ y.held = h
    BY <1>b, <2>1, <2>2, ZenonT(120), ZenonT(120) DEF Chans
  <2>5. y.enabled = on.enabled /\ y.bit = on.bit /\ y.dac = on.dac /\ y.switched = on.switched
    BY <1>b, <2>2 DEF Chans
  <2>6. c # 4
    BY <1>4
  <2> QED
    BY <1>1, <1>c, <2>1, <2>3, <2>4, <2>5, <2>6, Zenon DEF Played
<1>5. CASE c = 4
  <2>1. a.regs.noise.narrow \in BOOLEAN /\ ch.lfsr \in Nat
    BY DEF Units, Registers, Au!Noises, Chans
  <2>2. PICK l \in Nat : l = Au!ShiftedBy(ch.lfsr, a.regs.noise.narrow, met)
    BY <2>1, ShiftsKeepAwake
  <2>3. Awake(ch.lfsr, a.regs.noise.narrow) => Awake(l, a.regs.noise.narrow)
    BY <2>1, <2>2, ShiftsKeepAwake, ZenonT(120), ZenonT(120)
  <2>4. PICK y : y = [on EXCEPT !.lfsr = l]
    OBVIOUS
  <2>5. Reached(a, c, left, met) = y
    <3>1. c \notin {1, 2} /\ c # 3
      BY <1>5
    <3> QED
      BY <1>0, <1>1, <1>5, <2>2, <2>4, <3>1, Zenon DEF Reached
  <2>6. y \in Chans /\ y.lfsr = l
    BY <1>b, <2>2, <2>4 DEF Chans
  <2>7. y.enabled = on.enabled /\ y.bit = on.bit /\ y.dac = on.dac /\ y.switched = on.switched
    BY <1>b, <2>4 DEF Chans
  <2>8. c # 3
    BY <1>5
  <2> QED
    BY <1>1, <1>c, <2>3, <2>5, <2>6, <2>7, <2>8, Zenon DEF Played
<1>6. c \in {1, 2} \/ c = 3 \/ c = 4
  BY SoundSizes
<1> QED
  BY <1>3, <1>4, <1>5, <1>6

LEMMA ChannelAdvances ==
  ASSUME NEW a \in Units, NEW c \in Channels, NEW k \in Nat
  PROVE  Played(a, c, Au!Advanced(a, c, k))
<1>1. PICK ch \in Chans : ch = a.chan[c]
  BY DEF Units
<1>2. PICK p \in Nat \ {0} : p = Au!Period(a, c)
  BY PeriodShape
<1>3. PICK w \in Nat \ {0} : w = Wait(a, c)
  BY WaitShape
<1>4. CASE Idle(a, c)
  <2>1. Au!Advanced(a, c, k) = ch
    BY <1>1, <1>4, AdvancedCases
  <2> QED
    BY <1>1, <2>1, Zenon DEF Played
<1>5. CASE ~ Idle(a, c) /\ k < w
  <2>1. PICK n \in Nat : n = w - k
    BY <1>5
  <2>2. PICK y : y = [ch EXCEPT !.timer = n]
    OBVIOUS
  <2>3. Au!Advanced(a, c, k) = y
    BY <1>1, <1>3, <1>5, <2>1, <2>2, AdvancedCases
  <2>4. y \in Chans /\ y.phase = ch.phase /\ y.lfsr = ch.lfsr /\ y.held = ch.held
    BY <2>1, <2>2 DEF Chans
  <2>5. y.enabled = ch.enabled /\ y.bit = ch.bit /\ y.dac = ch.dac /\ y.switched = ch.switched
        /\ y.stale = ch.stale
    BY <2>2 DEF Chans
  <2> QED
    BY <1>1, <2>3, <2>4, <2>5, Zenon DEF Played
<1>6. CASE ~ Idle(a, c) /\ ~ (k < w)
  <2>1. PICK late \in Nat : late = k - w
    BY <1>6
  <2>2. PICK q \in Nat, r \in 0 .. p - 1 : late = p * q + r
    BY Divided, ZenonT(120), ZenonT(120)
  <2>3. PICK left \in Nat, met \in Nat : left = p - r /\ met = 1 + q
    OBVIOUS
  <2>4. Au!Advanced(a, c, k) = Reached(a, c, left, met)
    BY <1>2, <1>3, <1>6, <2>1, <2>2, <2>3, AdvancedCases
  <2>5. Played(a, c, Reached(a, c, left, met))
    BY ReachedShape
  <2> QED
    BY <2>4, <2>5
<1> QED
  BY <1>4, <1>5, <1>6

(* Waiting on after a deadline, and meeting the next.                        *)
LEMMA ReachedWaits ==
  ASSUME NEW a \in Units, NEW c \in Channels, NEW left, NEW met \in Nat, NEW n
  PROVE  [Reached(a, c, left, met) EXCEPT !.timer = n] = Reached(a, c, n, met)
<1>1. PICK ch \in Chans : ch = a.chan[c]
  BY DEF Units
<1>2. PICK x, y : x = [ch EXCEPT !.timer = left] /\ y = [ch EXCEPT !.timer = n]
  OBVIOUS
<1>3. CASE c \in {1, 2}
  <2>1. PICK r : r = (ch.phase + met) % Phases
    OBVIOUS
  <2>2. x.phase = ch.phase /\ y.phase = ch.phase
    BY <1>2 DEF Chans
  <2>3. c # 3 /\ c # 4
    BY <1>3
  <2>4. Reached(a, c, left, met) = [x EXCEPT !.phase = r] /\ Reached(a, c, n, met) = [y EXCEPT !.phase = r]
    BY <1>1, <1>2, <1>3, <2>1, <2>2, <2>3 DEF Reached
  <2>5. [[x EXCEPT !.phase = r] EXCEPT !.timer = n] = [y EXCEPT !.phase = r]
    BY <1>2 DEF Chans
  <2> QED
    BY <2>4, <2>5
<1>4. CASE c = 3
  <2>1. PICK r, h : r = (ch.phase + met) % Nibbles /\ h = a.wave[r \div 2]
    OBVIOUS
  <2>2. c \notin {1, 2} /\ c # 4
    BY <1>4
  <2>3. /\ Reached(a, c, left, met) = [x EXCEPT !.phase = r, !.held = h, !.stale = FALSE]
        /\ Reached(a, c, n, met) = [y EXCEPT !.phase = r, !.held = h, !.stale = FALSE]
    BY <1>1, <1>2, <1>4, <2>1, <2>2, Zenon DEF Reached
  <2>4. [[x EXCEPT !.phase = r, !.held = h, !.stale = FALSE] EXCEPT !.timer = n]
         = [y EXCEPT !.phase = r, !.held = h, !.stale = FALSE]
    BY <1>2 DEF Chans
  <2> QED
    BY <2>3, <2>4
<1>5. CASE c = 4
  <2>1. PICK l : l = Au!ShiftedBy(ch.lfsr, a.regs.noise.narrow, met)
    OBVIOUS
  <2>2. x.lfsr = ch.lfsr /\ y.lfsr = ch.lfsr
    BY <1>2 DEF Chans
  <2>3. c \notin {1, 2} /\ c # 3
    BY <1>5
  <2>4. Reached(a, c, left, met) = [x EXCEPT !.lfsr = l] /\ Reached(a, c, n, met) = [y EXCEPT !.lfsr = l]
    BY <1>1, <1>2, <1>5, <2>1, <2>2, <2>3, Zenon DEF Reached
  <2>5. [[x EXCEPT !.lfsr = l] EXCEPT !.timer = n] = [y EXCEPT !.lfsr = l]
    BY <1>2 DEF Chans
  <2> QED
    BY <2>4, <2>5
<1>6. c \in {1, 2} \/ c = 3 \/ c = 4
  BY SoundSizes
<1> QED
  BY <1>3, <1>4, <1>5, <1>6

(* Counting one on before the remainder or after it.                         *)
LEMMA OneLater ==
  ASSUME NEW a \in Nat, NEW b \in Nat \ {0}
  PROVE  ((a % b) + 1) % b = (a + 1) % b
<1>1. a \in Int /\ 1 \in Int
  OBVIOUS
<1> QED
  BY <1>1, LaterDivision, Zenon

(* One deadline more.                                                        *)
LEMMA ReachedAgain ==
  ASSUME NEW a \in Units, NEW b \in Units, NEW c \in Channels, NEW left \in Nat, NEW met \in Nat,
         NEW n, b.regs = a.regs, b.wave = a.wave, b.chan[c] = Reached(a, c, left, met)
  PROVE  Reached(b, c, n, 1) = Reached(a, c, n, met + 1)
<1>1. PICK ch \in Chans : ch = a.chan[c]
  BY DEF Units
<1>2. PICK x, y : x = [ch EXCEPT !.timer = left] /\ y = [ch EXCEPT !.timer = n]
  OBVIOUS
<1>3. PICK s \in Nat : s = ch.phase + met
  BY <1>1 DEF Chans
<1>4. PICK z : z = b.chan[c]
  OBVIOUS
<1>5. CASE c \in {1, 2}
  <2>1. PICK r \in Nat : r = s % Phases
    <3>1. s % Phases \in 0 .. Phases - 1
      BY SoundSizes, Division
    <3> QED
      BY <3>1
  <2>2. x.phase = ch.phase /\ y.phase = ch.phase
    BY <1>2 DEF Chans
  <2>3. c # 3 /\ c # 4
    BY <1>5
  <2>4. z = [x EXCEPT !.phase = r]
    BY <1>1, <1>2, <1>3, <1>4, <1>5, <2>1, <2>2, <2>3 DEF Reached
  <2>5. PICK u : u = (s + 1) % Phases /\ u = (r + 1) % Phases
    BY <2>1, SoundSizes, OneLater
  <2>6. Reached(a, c, n, met + 1) = [y EXCEPT !.phase = u]
    <3>1. ch.phase + (met + 1) = s + 1
      BY <1>3 DEF Chans
    <3> QED
      BY <1>1, <1>2, <1>5, <2>2, <2>3, <2>5, <3>1 DEF Reached
  <2>7. Reached(b, c, n, 1) = [z EXCEPT !.timer = n, !.phase = u]
    <3>1. z.phase = r /\ [z EXCEPT !.timer = n].phase = r
      BY <1>2, <2>4 DEF Chans
    <3> QED
      BY <1>4, <1>5, <2>3, <2>5, <3>1, ZenonT(120) DEF Reached
  <2>8. [z EXCEPT !.timer = n, !.phase = u] = [y EXCEPT !.phase = u]
    BY <1>2, <2>4 DEF Chans
  <2> QED
    BY <2>6, <2>7, <2>8
<1>6. CASE c = 3
  <2>1. PICK r \in Nat : r = s % Nibbles
    BY WavePlace
  <2>2. PICK h : h = a.wave[r \div 2]
    OBVIOUS
  <2>3. c \notin {1, 2} /\ c # 4
    BY <1>6
  <2>4. z = [x EXCEPT !.phase = r, !.held = h, !.stale = FALSE]
    BY <1>1, <1>2, <1>3, <1>4, <1>6, <2>1, <2>2, <2>3, Zenon DEF Reached
  <2>5. PICK u, g : u = (s + 1) % Nibbles /\ u = (r + 1) % Nibbles /\ g = a.wave[u \div 2]
    <3>1. PICK m \in Nat \ {0} : m = Nibbles
      BY WaveSize
    <3>2. ((s % m) + 1) % m = (s + 1) % m
      BY OneLater
    <3> QED
      BY <2>1, <3>1, <3>2
  <2>6. Reached(a, c, n, met + 1) = [y EXCEPT !.phase = u, !.held = g, !.stale = FALSE]
    <3>1. ch.phase + (met + 1) = s + 1
      BY <1>3 DEF Chans
    <3> QED
      BY <1>1, <1>2, <1>6, <2>3, <2>5, <3>1, Zenon DEF Reached
  <2>7. Reached(b, c, n, 1) = [z EXCEPT !.timer = n, !.phase = u, !.held = g, !.stale = FALSE]
    <3>1. z.phase = r
      BY <1>2, <2>4 DEF Chans
    <3>2. Reached(b, c, n, 1) = [[z EXCEPT !.timer = n] EXCEPT !.phase = u, !.held = g, !.stale = FALSE]
      BY <1>4, <1>6, <2>3, <2>5, <3>1, Zenon DEF Reached
    <3> QED
      BY <3>2
  <2>8. [z EXCEPT !.timer = n, !.phase = u, !.held = g, !.stale = FALSE]
         = [y EXCEPT !.phase = u, !.held = g, !.stale = FALSE]
    BY <1>2, <2>4 DEF Chans
  <2> QED
    BY <2>6, <2>7, <2>8
<1>7. CASE c = 4
  <2>1. PICK narrow \in BOOLEAN, f \in Nat : narrow = a.regs.noise.narrow /\ f = ch.lfsr
    BY DEF Units, Registers, Au!Noises, Chans
  <2>2. PICK l \in Nat : l = Au!ShiftedBy(f, narrow, met)
    BY ShiftsKeepAwake
  <2>3. x.lfsr = f /\ y.lfsr = f
    BY <1>2, <2>1 DEF Chans
  <2>4. c \notin {1, 2} /\ c # 3
    BY <1>7
  <2>5. z = [x EXCEPT !.lfsr = l]
    BY <1>1, <1>2, <1>4, <1>7, <2>1, <2>2, <2>3, <2>4, Zenon DEF Reached
  <2>6. PICK u : u = Au!ShiftedBy(f, narrow, met + 1) /\ u = Au!ShiftedBy(l, narrow, 1)
    BY <2>2, ShiftsKeepAwake
  <2>7. Reached(a, c, n, met + 1) = [y EXCEPT !.lfsr = u]
    BY <1>1, <1>2, <1>7, <2>1, <2>3, <2>4, <2>6, Zenon DEF Reached
  <2>8. Reached(b, c, n, 1) = [z EXCEPT !.timer = n, !.lfsr = u]
    <3>1. [z EXCEPT !.timer = n].lfsr = l
      BY <1>2, <2>5 DEF Chans
    <3>2. Reached(b, c, n, 1) = [[z EXCEPT !.timer = n] EXCEPT !.lfsr = u]
      BY <1>4, <1>7, <2>1, <2>4, <2>6, <3>1, Zenon DEF Reached
    <3> QED
      BY <3>2
  <2>9. [z EXCEPT !.timer = n, !.lfsr = u] = [y EXCEPT !.lfsr = u]
    BY <1>2, <2>5 DEF Chans
  <2> QED
    BY <2>7, <2>8, <2>9
<1>8. c \in {1, 2} \/ c = 3 \/ c = 4
  BY SoundSizes
<1> QED
  BY <1>5, <1>6, <1>7, <1>8

(* The end of a chunk that is a deadline.                                    *)
LEMMA AdvancedExactly ==
  ASSUME NEW a \in Units, NEW c \in Channels, NEW k \in Nat, NEW p \in Nat \ {0}, NEW w \in Nat,
         NEW m \in Nat, ~ Idle(a, c), p = Au!Period(a, c), w = Wait(a, c), k - w = p * m
  PROVE  Au!Advanced(a, c, k) = Reached(a, c, p, m + 1)
<1>1. PICK r \in 0 .. p - 1 : r = 0
  OBVIOUS
<1>2. k - w = p * m + r /\ p - r = p /\ m + 1 = 1 + m
  BY <1>1
<1>3. Au!Advanced(a, c, k) = Reached(a, c, p - r, 1 + m)
  BY <1>2, AdvancedCases
<1> QED
  BY <1>2, <1>3, Zenon

(* A cycle more, after a chunk.                                              *)
LEMMA OneMoreCycle ==
  ASSUME NEW a \in Units, NEW b \in Units, NEW c \in Channels, NEW k \in Nat,
         b.regs = a.regs, b.wave = a.wave, b.chan[c] = Au!Advanced(a, c, k)
  PROVE  Au!Advanced(b, c, 1) = Au!Advanced(a, c, k + 1)
<1>0. k + 1 \in Nat /\ 1 \in Nat
  OBVIOUS
<1>1. PICK ch \in Chans : ch = a.chan[c]
  BY DEF Units
<1>2. PICK p \in Nat \ {0} : p = Au!Period(a, c)
  BY PeriodShape
<1>3. p = Au!Period(b, c)
  BY <1>2, Zenon DEF Au!Period
<1>4. PICK w \in Nat \ {0} : w = Wait(a, c)
  BY WaitShape
<1>5. Idle(b, c) <=> Idle(a, c)
  <2>1. b.chan[c].enabled = a.chan[c].enabled
    BY ChannelAdvances DEF Played
  <2> QED
    BY <2>1, Zenon DEF Idle
<1>6. CASE Idle(a, c)
  <2>1. Au!Advanced(a, c, k) = ch /\ Au!Advanced(a, c, k + 1) = ch
    BY <1>0, <1>1, <1>6, AdvancedCases
  <2>2. Au!Advanced(b, c, 1) = b.chan[c]
    BY <1>0, <1>5, <1>6, AdvancedCases
  <2> QED
    BY <2>1, <2>2
<1>7. CASE ~ Idle(a, c) /\ k < w
  <2>1. PICK n \in Nat \ {0} : n = w - k
    BY <1>7
  <2>2. b.chan[c] = [ch EXCEPT !.timer = n]
    BY <1>1, <1>4, <1>7, <2>1, AdvancedCases
  <2>3. Wait(b, c) = n
    <3>1. b.chan[c].timer = n
      BY <2>2 DEF Chans
    <3> QED
      BY <2>1, <3>1 DEF Wait
  <2>4. CASE n # 1
    <3>1. 1 < n /\ k + 1 < w /\ w - (k + 1) = n - 1
      BY <2>1, <2>4
    <3>2. Au!Advanced(b, c, 1) = [b.chan[c] EXCEPT !.timer = n - 1]
      BY <1>0, <1>5, <1>7, <2>3, <3>1, AdvancedCases
    <3>3. Au!Advanced(a, c, k + 1) = [ch EXCEPT !.timer = n - 1]
      BY <1>0, <1>1, <1>4, <1>7, <3>1, AdvancedCases
    <3>4. [[ch EXCEPT !.timer = n] EXCEPT !.timer = n - 1] = [ch EXCEPT !.timer = n - 1]
      BY DEF Chans
    <3> QED
      BY <2>2, <3>2, <3>3, <3>4
  <2>5. CASE n = 1
    <3>0. PICK zero \in Nat, j \in Nat, one \in Nat : zero = 0 /\ j = k + 1 /\ one = 1
      OBVIOUS
    <3>1. j - w = p * zero /\ one - n = p * zero
      BY <2>1, <2>5, <3>0
    <3>a. ~ Idle(a, c) /\ ~ Idle(b, c)
      BY <1>5, <1>7
    <3>2. Au!Advanced(a, c, j) = Reached(a, c, p, zero + 1)
      BY <1>2, <1>4, <3>a, <3>1, AdvancedExactly
    <3>3. Au!Advanced(b, c, one) = Reached(b, c, p, zero + 1)
      BY <1>3, <2>3, <3>a, <3>1, AdvancedExactly
    <3>4. PICK z : z = b.chan[c]
      OBVIOUS
    <3>5. [z EXCEPT !.timer = p] = [ch EXCEPT !.timer = p]
      BY <2>2, <3>4 DEF Chans
    <3>6. z.phase = ch.phase /\ z.lfsr = ch.lfsr
      BY <2>2, <3>4 DEF Chans
    <3>7. Reached(b, c, p, 1) = Reached(a, c, p, 1)
      BY <1>1, <3>4, <3>5, <3>6, Zenon DEF Reached
    <3> QED
      BY <3>0, <3>1, <3>2, <3>3, <3>7
  <2> QED
    BY <2>4, <2>5
<1>8. CASE ~ Idle(a, c) /\ ~ (k < w)
  <2>1. PICK late \in Nat : late = k - w
    BY <1>8
  <2>2. PICK q \in Nat, r \in 0 .. p - 1 : late = p * q + r
    BY Divided, ZenonT(120), ZenonT(120)
  <2>3. PICK left \in Nat \ {0}, met \in Nat : left = p - r /\ met = 1 + q
    OBVIOUS
  <2>4. b.chan[c] = Reached(a, c, left, met)
    BY <1>2, <1>4, <1>8, <2>1, <2>2, <2>3, AdvancedCases
  <2>5. Wait(b, c) = left
    <3>1. b.chan[c].timer = left
      <4>1. Reached(a, c, left, met) = [Reached(a, c, left, met) EXCEPT !.timer = left]
        BY ReachedWaits
      <4>2. Reached(a, c, left, met) \in Chans
        BY ReachedShape DEF Played
      <4>3. PICK z \in Chans : z = Reached(a, c, left, met) /\ z = [z EXCEPT !.timer = left]
        BY <4>1, <4>2, Zenon
      <4>4. [z EXCEPT !.timer = left].timer = left
        BY DEF Chans
      <4> QED
        BY <2>4, <4>3, <4>4
    <3> QED
      BY <2>3, <3>1 DEF Wait
  <2>6. CASE left # 1
    <3>1. 1 < left /\ r + 1 \in 0 .. p - 1 /\ p - (r + 1) = left - 1
      BY <2>3, <2>6
    <3>2. Au!Advanced(b, c, 1) = [b.chan[c] EXCEPT !.timer = left - 1]
      BY <1>0, <1>5, <1>8, <2>5, <3>1, AdvancedCases
    <3>3. (k + 1) - w = p * q + (r + 1)
      <4>1. PICK x \in Nat : x = p * q
        OBVIOUS
      <4> QED
        BY <2>1, <2>2, <4>1
    <3>4. Au!Advanced(a, c, k + 1) = Reached(a, c, left - 1, met)
      BY <1>0, <1>2, <1>4, <1>8, <2>3, <3>1, <3>3, AdvancedCases
    <3>5. [b.chan[c] EXCEPT !.timer = left - 1] = Reached(a, c, left - 1, met)
      BY <2>4, ReachedWaits
    <3> QED
      BY <3>2, <3>4, <3>5
  <2>7. CASE left = 1
    <3>0. PICK zero \in Nat, j \in Nat, one \in Nat : zero = 0 /\ j = k + 1 /\ one = 1
      OBVIOUS
    <3>1. one - left = p * zero
      BY <2>7, <3>0
    <3>a. ~ Idle(b, c)
      BY <1>5, <1>8
    <3>2. Au!Advanced(b, c, one) = Reached(b, c, p, zero + 1)
      BY <1>3, <2>5, <3>a, <3>1, AdvancedExactly
    <3>3. PICK m \in Nat : m = q + 1
      OBVIOUS
    <3>4. j - w = p * m /\ m + 1 = met + 1
      <4>1. PICK x \in Nat : x = p * q
        OBVIOUS
      <4>2. p * m = x + p
        BY <3>3, <4>1
      <4>3. r + 1 = p
        BY <2>3, <2>7
      <4> QED
        BY <2>1, <2>2, <2>3, <3>0, <3>3, <4>1, <4>2, <4>3
    <3>5. Au!Advanced(a, c, j) = Reached(a, c, p, m + 1)
      BY <1>2, <1>4, <1>8, <3>4, AdvancedExactly, SMTT(90)
    <3>6. Reached(b, c, p, 1) = Reached(a, c, p, met + 1)
      BY <2>4, ReachedAgain
    <3> QED
      BY <3>0, <3>1, <3>2, <3>4, <3>5, <3>6
  <2> QED
    BY <2>6, <2>7
<1> QED
  BY <1>6, <1>7, <1>8

-----------------------------------------------------------------------------
(* The queue                                                                 *)

(* The greater of two.                                                       *)
LEMMA Greater ==
  ASSUME NEW x \in Int, NEW y \in Int
  PROVE  Au!Max({x, y}) = IF x >= y THEN x ELSE y
<1>1. \E m \in {x, y} : \A z \in {x, y} : m >= z
  OBVIOUS
<1>2. Au!Max({x, y}) \in {x, y} /\ \A z \in {x, y} : Au!Max({x, y}) >= z
  BY <1>1, Zenon DEF Au!Max
<1> QED
  BY <1>2

Newest(q, last) == \A i \in 1 .. Len(q) : q[i] = (last - Len(q)) + i

(* Frames lost at the front leave the newest, and so does the next one appended.*)
LEMMA NewestKeeps ==
  ASSUME NEW q \in Seq(Nat), NEW last \in Nat, Newest(q, last), NEW lost \in 0 .. Len(q)
  PROVE  /\ SubSeq(q, lost + 1, Len(q)) \in Seq(Nat)
         /\ Len(SubSeq(q, lost + 1, Len(q))) = Len(q) - lost
         /\ Newest(SubSeq(q, lost + 1, Len(q)), last)
<1>1. PICK m \in Int, n \in Nat : m = lost + 1 /\ n = Len(q)
  OBVIOUS
<1>2. \A i \in m .. n : q[i] \in Nat
  BY <1>1
<1>3. PICK r : r = SubSeq(q, m, n)
  OBVIOUS
<1>4. r \in Seq(Nat) /\ Len(r) = (IF m =< n THEN n - m + 1 ELSE 0) /\ \A i \in 1 .. n - m + 1 : r[i] = q[m + i - 1]
  BY <1>2, <1>3, SubSeqProperties
<1>5. Len(r) = n - lost
  BY <1>1, <1>4
<1>6. ASSUME NEW i \in 1 .. Len(r) PROVE r[i] = (last - Len(r)) + i
  <2>1. i \in 1 .. n - m + 1 /\ i + lost \in 1 .. n /\ m + i - 1 = i + lost
    BY <1>1, <1>5
  <2>2. r[i] = q[i + lost] /\ q[i + lost] = (last - n) + (i + lost)
    BY <1>1, <1>4, <2>1 DEF Newest
  <2> QED
    BY <1>1, <1>5, <2>2
<1> QED
  BY <1>1, <1>3, <1>4, <1>5, <1>6 DEF Newest

LEMMA NewestGoesOn ==
  ASSUME NEW q \in Seq(Nat), NEW last \in Nat, Newest(q, last)
  PROVE  /\ Append(q, last + 1) \in Seq(Nat) /\ Len(Append(q, last + 1)) = Len(q) + 1
         /\ Newest(Append(q, last + 1), last + 1)
<1>1. PICK r : r = Append(q, last + 1)
  OBVIOUS
<1>2. PICK n \in Nat, f \in Nat : n = Len(q) /\ f = last + 1
  OBVIOUS
<1>3. r \in Seq(Nat) /\ Len(r) = n + 1 /\ (\A i \in 1 .. n : r[i] = q[i]) /\ r[n + 1] = f
  BY <1>1, <1>2, AppendProperties
<1>4. ASSUME NEW i \in 1 .. n + 1 PROVE r[i] = (f - (n + 1)) + i
  <2>1. CASE i \in 1 .. n
    <3>1. r[i] = q[i] /\ q[i] = (last - n) + i
      BY <1>2, <1>3, <2>1 DEF Newest
    <3> QED
      BY <1>2, <3>1
  <2>2. CASE i = n + 1
    BY <1>2, <1>3, <2>2
  <2> QED
    BY <2>1, <2>2
<1> QED
  BY <1>1, <1>2, <1>3, <1>4 DEF Newest

QueueGood(q) ==
  /\ Len(q.queue) =< q.capacity
  /\ Newest(q.queue, q.generated)
  /\ q.generated = Len(q.queue) + q.taken + q.dropped + q.cleared

(* A frame enqueued keeps the queue's word.                                  *)
LEMMA EnqueuedKeeps ==
  ASSUME NEW a \in Units, QueueGood(a.pcm)
  PROVE  /\ Au!Enqueued(a) \in Units /\ QueueGood(Au!Enqueued(a).pcm)
         /\ \E p \in Queues : Au!Enqueued(a) = [a EXCEPT !.pcm = p]
<1>1. CASE subject # 0
  <2>1. Au!Enqueued(a) = a
    BY <1>1 DEF Au!Enqueued
  <2>2. a.pcm \in Queues /\ a = [a EXCEPT !.pcm = a.pcm]
    BY DEF Units
  <2> QED
    BY <2>1, <2>2
<1>2. CASE subject = 0
  <2>1. PICK q \in Queues : q = a.pcm
    BY DEF Units
  <2>2. PICK s \in Seq(Nat), cap \in Nat \ {0}, g \in Nat, d \in Nat, t \in Nat, w \in Nat :
          s = q.queue /\ cap = q.capacity /\ g = q.generated /\ d = q.dropped /\ t = q.taken /\ w = q.cleared
    BY DEF Queues
  <2>3. PICK n \in Nat : n = Len(s)
    OBVIOUS
  <2>4. n =< cap /\ Newest(s, g) /\ g = n + t + d + w
    BY <2>1, <2>2, <2>3 DEF QueueGood
  <2>5. PICK lost \in 0 .. 1 : lost = Au!Max({0, n + 1 - cap}) /\ (n + 1) - lost =< cap
    <3>1. PICK x \in Int : x = n + 1 - cap
      OBVIOUS
    <3>2. Au!Max({0, x}) = IF 0 >= x THEN 0 ELSE x
      BY Greater
    <3> QED
      BY <2>4, <3>1, <3>2
  <2>6. PICK u \in Seq(Nat) : u = Append(s, g + 1) /\ Len(u) = n + 1 /\ Newest(u, g + 1)
    BY <2>3, <2>4, NewestGoesOn
  <2>7. PICK v \in Seq(Nat) : v = SubSeq(u, lost + 1, n + 1) /\ Len(v) = (n + 1) - lost /\ Newest(v, g + 1)
    <3>1. PICK f \in Nat, m \in Nat : f = g + 1 /\ m = n + 1 /\ lost \in 0 .. m
      OBVIOUS
    <3>2. lost \in 0 .. Len(u) /\ Newest(u, f) /\ Len(u) = m
      BY <2>6, <3>1
    <3>3. SubSeq(u, lost + 1, m) \in Seq(Nat) /\ Len(SubSeq(u, lost + 1, m)) = m - lost
          /\ Newest(SubSeq(u, lost + 1, m), f)
      BY <3>2, NewestKeeps
    <3> QED
      BY <3>1, <3>3
  <2>8. PICK p : p = [q EXCEPT !.queue = v, !.dropped = d + lost, !.generated = g + 1]
    OBVIOUS
  <2>9. /\ p \in Queues /\ p.queue = v /\ p.capacity = cap /\ p.generated = g + 1
        /\ p.dropped = d + lost /\ p.taken = t /\ p.cleared = w
    <3>1. PICK e \in Nat, f \in Nat : e = d + lost /\ f = g + 1
      OBVIOUS
    <3>2. p = [q EXCEPT !.queue = v, !.dropped = e, !.generated = f]
      BY <2>8, <3>1
    <3>3. p \in Queues /\ p.queue = v /\ p.generated = f /\ p.dropped = e
      BY <3>2 DEF Queues
    <3>4. p.capacity = q.capacity /\ p.taken = q.taken /\ p.cleared = q.cleared
      BY <3>2 DEF Queues
    <3> QED
      BY <2>2, <3>1, <3>3, <3>4
  <2>10. QueueGood(p)
    <3>1. g + 1 = ((n + 1) - lost) + t + (d + lost) + w
      BY <2>4
    <3> QED
      BY <2>5, <2>7, <2>9, <3>1 DEF QueueGood
  <2>11. Au!Enqueued(a) = [a EXCEPT !.pcm = p]
    BY <1>2, <2>1, <2>2, <2>3, <2>5, <2>6, <2>7, <2>8, Zenon DEF Au!Enqueued
  <2>12. [a EXCEPT !.pcm = p] \in Units /\ [a EXCEPT !.pcm = p].pcm = p
    BY <2>9 DEF Units
  <2> QED
    BY <2>9, <2>10, <2>11, <2>12
<1> QED
  BY <1>1, <1>2

-----------------------------------------------------------------------------
(* A chunk of time for the unit                                              *)

Sounds(a, checked) ==
  /\ a \in Units /\ SwitchGood(a) /\ SweepGood(a, checked) /\ WaveGood(a) /\ NoiseGood(a)
  /\ QueueGood(a.pcm)
Healthy(a, checked) ==
  Sounds(a, checked) /\ a.cycles < SequencerCycles /\ a.sample < SampleCycles

(* The channels' time, and then the frame's and the sequencer's.             *)
Moved(a, k) ==
  [a EXCEPT !.chan = [c \in Channels |-> Au!Advanced(a, c, k)], !.cycles = @ + k, !.sample = @ + k]
Framed(b) == IF b.sample >= SampleCycles THEN Au!Enqueued([b EXCEPT !.sample = 0]) ELSE b
Ended(b) ==
  IF Framed(b).cycles >= SequencerCycles THEN Au!SequencerStep(Framed(b)) ELSE Framed(b)

(* A chunk is its parts, and each keeps the unit healthy.                    *)
LEMMA ProcessedParts ==
  ASSUME NEW a, NEW k
  PROVE  Au!Processed(a, k) = Ended(Moved(a, k))
BY Zenon DEF Au!Processed, Ended, Framed, Moved

LEMMA MovedShape ==
  ASSUME NEW a \in Units, NEW k \in Nat
  PROVE  /\ Moved(a, k) \in Units
         /\ Moved(a, k).chan = [c \in Channels |-> Au!Advanced(a, c, k)]
         /\ Moved(a, k).cycles = a.cycles + k /\ Moved(a, k).sample = a.sample + k
         /\ Moved(a, k).on = a.on /\ Moved(a, k).wave = a.wave /\ Moved(a, k).regs = a.regs
         /\ Moved(a, k).sweep = a.sweep /\ Moved(a, k).pcm = a.pcm
<1>1. PICK g \in [Channels -> Chans] : g = [c \in Channels |-> Au!Advanced(a, c, k)]
  BY ChannelAdvances DEF Played
<1>2. PICK m \in Nat, n \in Nat : m = a.cycles + k /\ n = a.sample + k
  BY DEF Units
<1>3. PICK b : b = [a EXCEPT !.chan = g, !.cycles = m, !.sample = n]
  OBVIOUS
<1>4. Moved(a, k) = b
  BY <1>1, <1>2, <1>3 DEF Moved
<1>5. b \in Units /\ b.chan = g /\ b.cycles = m /\ b.sample = n
  BY <1>3 DEF Units
<1>6. b.on = a.on /\ b.wave = a.wave /\ b.regs = a.regs /\ b.sweep = a.sweep /\ b.pcm = a.pcm
  BY <1>3 DEF Units
<1> QED
  BY <1>1, <1>2, <1>4, <1>5, <1>6

LEMMA MovedSounds ==
  ASSUME NEW a, NEW checked, Sounds(a, checked), NEW k \in Nat
  PROVE  Sounds(Moved(a, k), checked)
<1>1. a \in Units
  BY DEF Sounds
<1>2. PICK b \in Units : b = Moved(a, k)
  BY <1>1, MovedShape
<1>a. b.chan = [c \in Channels |-> Au!Advanced(a, c, k)]
  BY <1>1, <1>2, MovedShape
<1>b. \A c \in Channels : Played(a, c, Au!Advanced(a, c, k))
  BY <1>1, ChannelAdvances
<1>3. \A c \in Channels : Played(a, c, b.chan[c])
  BY <1>a, <1>b
<1>4. b.on = a.on /\ b.wave = a.wave /\ b.regs = a.regs /\ b.sweep = a.sweep /\ b.pcm = a.pcm
  BY <1>1, <1>2, MovedShape
<1>5. SwitchGood(b)
  BY <1>3, <1>4 DEF Sounds, SwitchGood, Played
<1>6. SweepGood(b, checked)
  BY <1>3, <1>4 DEF Sounds, SweepGood, Played
<1>7. WaveGood(b)
  BY <1>3, <1>4 DEF Sounds, WaveGood, Played
<1>8. NoiseGood(b)
  BY <1>3, <1>4 DEF Sounds, NoiseGood, Played
<1> QED
  BY <1>2, <1>4, <1>5, <1>6, <1>7, <1>8 DEF Sounds

LEMMA FramedSounds ==
  ASSUME NEW a, NEW checked, Sounds(a, checked)
  PROVE  /\ Sounds(Framed(a), checked) /\ Framed(a).sample < SampleCycles
         /\ Framed(a).cycles = a.cycles /\ Framed(a).on = a.on
<1>1. a \in Units
  BY DEF Sounds
<1>2. CASE a.sample >= SampleCycles
  <2>1. PICK b \in Units : b = [a EXCEPT !.sample = 0]
    BY <1>1 DEF Units
  <2>2. /\ b.chan = a.chan /\ b.on = a.on /\ b.wave = a.wave /\ b.regs = a.regs /\ b.sweep = a.sweep
        /\ b.pcm = a.pcm /\ b.cycles = a.cycles /\ b.sample = 0
    BY <1>1, <2>1 DEF Units
  <2>3. QueueGood(b.pcm)
    BY <2>2 DEF Sounds
  <2>4. PICK p \in Queues, e \in Units : e = Au!Enqueued(b) /\ e = [b EXCEPT !.pcm = p] /\ QueueGood(e.pcm)
    BY <2>3, EnqueuedKeeps
  <2>5. /\ e.chan = a.chan /\ e.on = a.on /\ e.wave = a.wave /\ e.regs = a.regs /\ e.sweep = a.sweep
        /\ e.cycles = a.cycles /\ e.sample = 0
    BY <2>2, <2>4 DEF Units
  <2>6. Framed(a) = e
    BY <1>2, <2>1, <2>4 DEF Framed
  <2>7. SwitchGood(e) /\ SweepGood(e, checked) /\ WaveGood(e) /\ NoiseGood(e)
    BY <2>5 DEF Sounds, SwitchGood, SweepGood, WaveGood, NoiseGood
  <2> QED
    BY <2>4, <2>5, <2>6, <2>7, SoundSizes DEF Sounds
<1>3. CASE ~ (a.sample >= SampleCycles)
  BY <1>1, <1>3, SoundSizes, SMTT(90) DEF Framed, Units
<1> QED
  BY <1>2, <1>3

LEMMA EndedHealthy ==
  ASSUME NEW a, NEW checked, Sounds(a, checked)
  PROVE  Healthy(Ended(a), checked) /\ Ended(a).on = a.on
<1>1. PICK f : f = Framed(a)
  OBVIOUS
<1>2. Sounds(f, checked) /\ f.sample < SampleCycles /\ f.on = a.on /\ f \in Units
  BY <1>1, FramedSounds DEF Sounds
<1>3. CASE f.cycles >= SequencerCycles
  <2>1. PICK e : e = Au!SequencerStep(f)
    OBVIOUS
  <2>2. PICK b \in Units :
           /\ b.on = f.on /\ b.wave = f.wave /\ b.regs = f.regs /\ b.pcm = f.pcm /\ b.chan = f.chan
           /\ b.sample = f.sample /\ b.cycles = 0 /\ b.sweep = f.sweep
           /\ Calmer(b, e)
           /\ SweepGood(b, checked) => SweepGood(e, checked)
    BY <1>2, <2>1, StepCalms
  <2>3. SwitchGood(b) /\ SweepGood(b, checked) /\ WaveGood(b) /\ NoiseGood(b) /\ QueueGood(b.pcm)
    BY <1>2, <2>2 DEF Sounds, SwitchGood, SweepGood, WaveGood, NoiseGood
  <2>4. SwitchGood(e) /\ WaveGood(e) /\ NoiseGood(e)
    BY <2>2, <2>3, CalmKeeps
  <2>5. e \in Units /\ e.pcm = b.pcm /\ e.sample = b.sample /\ e.cycles = b.cycles /\ e.on = b.on
    BY <2>2 DEF Calmer
  <2>6. Ended(a) = e
    BY <1>1, <1>3, <2>1 DEF Ended
  <2> QED
    BY <1>2, <2>2, <2>3, <2>4, <2>5, <2>6, SoundSizes DEF Healthy, Sounds
<1>4. CASE ~ (f.cycles >= SequencerCycles)
  <2>1. Ended(a) = f
    BY <1>1, <1>4 DEF Ended
  <2>2. f.cycles < SequencerCycles
    BY <1>2, <1>4, SoundSizes DEF Units
  <2> QED
    BY <1>2, <2>1, <2>2 DEF Healthy
<1> QED
  BY <1>3, <1>4

LEMMA ProcessedHealthy ==
  ASSUME NEW a, NEW checked, Healthy(a, checked), NEW k \in Nat
  PROVE  Healthy(Au!Processed(a, k), checked) /\ Au!Processed(a, k).on = a.on
<1>1. Sounds(a, checked) /\ a \in Units
  BY DEF Healthy, Sounds
<1>2. PICK b : b = Moved(a, k)
  OBVIOUS
<1>3. Sounds(b, checked) /\ b.on = a.on
  BY <1>1, <1>2, MovedSounds, MovedShape
<1>4. Healthy(Ended(b), checked) /\ Ended(b).on = b.on
  BY <1>3, EndedHealthy
<1> QED
  BY <1>2, <1>3, <1>4, ProcessedParts

(* Where no frame ends and no step comes, a chunk is a cycle and the rest.   *)
LEMMA ProcessedAgain ==
  ASSUME NEW a, NEW checked, Healthy(a, checked), NEW k \in Nat,
         a.cycles + k < SequencerCycles, a.sample + k < SampleCycles
  PROVE  Au!Processed(Au!Processed(a, k), 1) = Au!Processed(a, k + 1)
<1>1. a \in Units
  BY DEF Healthy, Sounds
<1>2. PICK b \in Units : b = Moved(a, k)
  BY <1>1, MovedShape
<1>3. /\ b.chan = [c \in Channels |-> Au!Advanced(a, c, k)]
      /\ b.cycles = a.cycles + k /\ b.sample = a.sample + k /\ b.wave = a.wave /\ b.regs = a.regs
  BY <1>1, <1>2, MovedShape
<1>4. Au!Processed(a, k) = b
  <2>1. b.sample < SampleCycles /\ b.cycles < SequencerCycles
    BY <1>3
  <2>2. b.sample \in Nat /\ b.cycles \in Nat
    BY DEF Units
  <2>3. ~ (b.sample >= SampleCycles) /\ ~ (b.cycles >= SequencerCycles)
    BY <2>1, <2>2, SoundSizes
  <2>4. Framed(b) = b
    BY <2>3 DEF Framed
  <2>5. Ended(b) = b
    BY <2>3, <2>4 DEF Ended
  <2> QED
    BY <1>2, <2>5, ProcessedParts
<1>5. Moved(b, 1) = Moved(a, k + 1)
  <2>1. \A c \in Channels : Au!Advanced(b, c, 1) = Au!Advanced(a, c, k + 1)
    BY <1>1, <1>3, OneMoreCycle
  <2>2. PICK g : g = [c \in Channels |-> Au!Advanced(b, c, 1)] /\ g = [c \in Channels |-> Au!Advanced(a, c, k + 1)]
    BY <2>1
  <2>3. PICK m, n : m = a.cycles + (k + 1) /\ n = a.sample + (k + 1) /\ m = b.cycles + 1 /\ n = b.sample + 1
    BY <1>1, <1>3 DEF Units
  <2>4. PICK h, m0, n0 : b = [a EXCEPT !.chan = h, !.cycles = m0, !.sample = n0]
    BY <1>2, ZenonT(120) DEF Moved
  <2>5. [b EXCEPT !.chan = g, !.cycles = m, !.sample = n] = [a EXCEPT !.chan = g, !.cycles = m, !.sample = n]
    BY <1>1, <2>4 DEF Units
  <2> QED
    BY <2>2, <2>3, <2>5 DEF Moved
<1> QED
  BY <1>4, <1>5, ProcessedParts

-----------------------------------------------------------------------------
(* Cycles one by one                                                         *)

(* A chunk stays within what is left, the frame and the step.                *)
LEMMA ChunkSize ==
  ASSUME NEW a, NEW checked, Healthy(a, checked), NEW left \in Nat \ {0}
  PROVE  /\ Au!NextChunk(a, left) \in 1 .. left
         /\ a.cycles + Au!NextChunk(a, left) =< SequencerCycles
         /\ a.sample + Au!NextChunk(a, left) =< SampleCycles
<1>1. PICK x \in Nat \ {0}, y \in Nat \ {0}, z \in Nat \ {0} :
        x = SampleCycles - a.sample /\ y = SequencerCycles - a.cycles /\ z = Oversample
  BY SoundSizes DEF Healthy, Sounds, Units
<1>2. \E m \in {left, x, y, z} : \A n \in {left, x, y, z} : m =< n
  <2>1. PICK u \in {left, x} : u =< left /\ u =< x
    OBVIOUS
  <2>2. PICK v \in {y, z} : v =< y /\ v =< z
    OBVIOUS
  <2>3. PICK w \in {u, v} : w =< u /\ w =< v
    <3>1. u =< v \/ v =< u
      BY <1>1
    <3> QED
      BY <3>1
  <2>4. w \in {left, x, y, z} /\ \A n \in {left, x, y, z} : w =< n
    BY <2>1, <2>2, <2>3
  <2> QED
    BY <2>4
<1>3. PICK k : k = Au!Min({left, x, y, z})
  OBVIOUS
<1>4. k \in {left, x, y, z} /\ \A n \in {left, x, y, z} : k =< n
  BY <1>2, <1>3, Zenon DEF Au!Min
<1>5. Au!NextChunk(a, left) = k
  BY <1>1, <1>3 DEF Au!NextChunk
<1>6. k \in Nat \ {0} /\ k =< left /\ k =< x /\ k =< y
  BY <1>1, <1>4
<1>7. a.cycles + k =< SequencerCycles /\ a.sample + k =< SampleCycles
  BY <1>1, <1>6, SoundSizes, SMTT(90) DEF Healthy, Sounds, Units
<1> QED
  BY <1>5, <1>6, <1>7

(* The unit after each cycle.                                                *)
Cycled(t, checked) ==
  \A n \in Nat : Healthy(t[n], checked) /\ t[n + 1] = Au!Processed(t[n], 1) /\ t[n + 1].on = t[n].on

(* The unit after each cycle stays healthy.                                  *)
LEMMA CycleStates ==
  ASSUME NEW a, NEW checked, Healthy(a, checked)
  PROVE  \E t : t[0] = a /\ Cycled(t, checked)
<1>1. PICK S : S = {x \in Units : Healthy(x, checked)}
  OBVIOUS
<1>2. \A x : x \in S <=> Healthy(x, checked)
  BY <1>1 DEF Healthy, Sounds
<1>3. \A x \in S : Au!Processed(x, 1) \in S /\ Au!Processed(x, 1).on = x.on
  BY <1>2, ProcessedHealthy
<1> DEFINE step == [x \in S |-> Au!Processed(x, 1)]
<1>4. step \in [S -> S] /\ \A x \in S : step[x] = Au!Processed(x, 1)
  BY <1>3
<1> HIDE DEF step
<1>5. PICK t \in [Nat -> S] : t[0] = a /\ \A n \in Nat : t[n + 1] = step[t[n]]
  <2>1. a \in S
    BY <1>2
  <2>2. \E f \in [Nat -> S] : f[0] = a /\ \A n \in Nat : f[n + 1] = step[f[n]]
    <3>1. StatesOf(S)
      BY LoopStates
    <3> QED
      BY <1>4, <2>1, <3>1, Zenon DEF StatesOf
  <2> QED
    BY <2>2
<1>6. \A n \in Nat : t[n] \in S
  BY <1>5
<1>7. Cycled(t, checked)
  BY <1>2, <1>3, <1>4, <1>5, <1>6, Zenon DEF Cycled
<1> QED
  BY <1>5, <1>7

(* A chunk is its cycles.                                                    *)
LEMMA ChunkIsCycles ==
  ASSUME NEW t, NEW checked, Cycled(t, checked), NEW n \in Nat, NEW k \in Nat \ {0},
         t[n].cycles + k =< SequencerCycles, t[n].sample + k =< SampleCycles
  PROVE  Au!Processed(t[n], k) = t[n + k]
<1>1. PICK a \in Units : a = t[n] /\ Healthy(a, checked)
  BY DEF Cycled, Healthy, Sounds
<1>2. PICK cy \in Nat, sa \in Nat : cy = a.cycles /\ sa = a.sample
  BY DEF Units
<1> DEFINE A == {j \in Nat : j + 1 =< k => Au!Processed(a, j + 1) = t[n + (j + 1)]}
<1>3. 0 \in A
  <2>1. t[n + 1] = Au!Processed(a, 1) /\ 0 + 1 = 1
    BY <1>1 DEF Cycled
  <2> QED
    BY <2>1
<1>4. ASSUME NEW j \in Nat, j \in A PROVE j + 1 \in A
  <2> SUFFICES ASSUME (j + 1) + 1 =< k PROVE Au!Processed(a, (j + 1) + 1) = t[n + ((j + 1) + 1)]
    OBVIOUS
  <2>1. PICK i \in Nat : i = j + 1
    OBVIOUS
  <2>2. cy + i < SequencerCycles /\ sa + i < SampleCycles
    BY <1>1, <1>2, <2>1, SoundSizes
  <2>3. Au!Processed(Au!Processed(a, i), 1) = Au!Processed(a, i + 1)
    BY <1>1, <1>2, <2>2, ProcessedAgain
  <2>4. Au!Processed(a, i) = t[n + i]
    BY <1>4, <2>1
  <2>5. t[(n + i) + 1] = Au!Processed(t[n + i], 1)
    <3>1. n + i \in Nat
      OBVIOUS
    <3> QED
      BY <3>1, Zenon DEF Cycled
  <2>6. (n + i) + 1 = n + (i + 1)
    OBVIOUS
  <2> QED
    BY <2>1, <2>3, <2>4, <2>5, <2>6
<1> HIDE DEF A
<1>5. \A j \in Nat : j \in A
  BY <1>3, <1>4, Induction
<1>6. PICK j \in Nat : j + 1 = k
  <2>1. k - 1 \in Nat /\ (k - 1) + 1 = k
    OBVIOUS
  <2> QED
    BY <2>1
<1>7. j \in A
  BY <1>5
<1>8. Au!Processed(a, j + 1) = t[n + (j + 1)]
  BY <1>6, <1>7 DEF A
<1> QED
  BY <1>1, <1>6, <1>8

(* What a tick comes to, is its cycles.                                      *)
LEMMA TickIsCycles ==
  ASSUME NEW t, NEW checked, Cycled(t, checked), NEW cycles \in Nat, t[0].on
  PROVE  Au!Ticked(t[0], cycles) = t[cycles]
<1> DEFINE a == t[0]
           after == CHOOSE f : f = [k \in Nat |-> IF k = 0 THEN [apu |-> a, left |-> cycles] ELSE Au!Passed(f[k - 1])]
<1>1. ASSUME NEW l \in 0 .. cycles
      PROVE  \E m \in 0 .. cycles :
               /\ Au!Passed([apu |-> t[cycles - l], left |-> l]) = [apu |-> t[cycles - m], left |-> m]
               /\ l # 0 => m < l
               /\ l = 0 => m = 0
  <2>1. PICK n \in Nat : n = cycles - l
    OBVIOUS
  <2>a. PICK r : r = [apu |-> t[n], left |-> l]
    OBVIOUS
  <2>2. r.apu = t[n] /\ r.left = l
    BY <2>a
  <2>3. CASE l = 0
    <3>1. Au!Passed(r) = r
      BY <2>2, <2>3, Zenon DEF Au!Passed
    <3> QED
      BY <2>1, <2>a, <2>3, <3>1
  <2>4. CASE l # 0
    <3>1. PICK x : x = t[n] /\ Healthy(x, checked)
      BY DEF Cycled
    <3>2. PICK j \in Nat \ {0} : j = l
      BY <2>4
    <3>3. PICK k \in 1 .. j : k = Au!NextChunk(x, j) /\ x.cycles + k =< SequencerCycles /\ x.sample + k =< SampleCycles
      BY <3>1, ChunkSize
    <3>4. PICK i \in Nat \ {0} : i = k
      BY <3>3
    <3>5. Au!Processed(t[n], i) = t[n + i]
      BY <3>1, <3>3, <3>4, ChunkIsCycles
    <3>6. PICK m \in 0 .. cycles : m = l - i /\ m < l /\ n + i = cycles - m
      BY <2>1, <3>2, <3>3, <3>4
    <3>7. Au!Passed(r) = [apu |-> Au!Processed(t[n], i), left |-> l - i]
      BY <2>2, <2>4, <3>1, <3>2, <3>3, <3>4, Zenon DEF Au!Passed
    <3> QED
      BY <2>1, <2>a, <2>4, <3>5, <3>6, <3>7
  <2> QED
    BY <2>3, <2>4
<1> DEFINE next == [l \in 0 .. cycles |->
                      CHOOSE m \in 0 .. cycles :
                        /\ Au!Passed([apu |-> t[cycles - l], left |-> l]) = [apu |-> t[cycles - m], left |-> m]
                        /\ l # 0 => m < l
                        /\ l = 0 => m = 0]
<1>2. /\ next \in [0 .. cycles -> 0 .. cycles]
      /\ \A l \in 0 .. cycles :
           /\ Au!Passed([apu |-> t[cycles - l], left |-> l]) = [apu |-> t[cycles - next[l]], left |-> next[l]]
           /\ l # 0 => next[l] < l
           /\ l = 0 => next[l] = 0
  BY <1>1
<1> HIDE DEF next
<1>3. PICK g \in [Nat -> 0 .. cycles] : g[0] = cycles /\ \A k \in Nat : g[k + 1] = next[g[k]]
  <2>1. cycles \in 0 .. cycles
    OBVIOUS
  <2>2. PICK N : N = 0 .. cycles
    OBVIOUS
  <2>3. next \in [N -> N] /\ cycles \in N
    BY <1>2, <2>1, <2>2
  <2>4. \E f \in [Nat -> N] : f[0] = cycles /\ \A n \in Nat : f[n + 1] = next[f[n]]
    <3>1. StatesOf(N)
      BY LoopStates
    <3> QED
      BY <2>3, <3>1, Zenon DEF StatesOf
  <2> QED
    BY <2>2, <2>4
<1>4. PICK h : h = [k \in Nat |-> [apu |-> t[cycles - g[k]], left |-> g[k]]]
  OBVIOUS
<1>5. h = [k \in Nat |-> IF k = 0 THEN [apu |-> a, left |-> cycles] ELSE Au!Passed(h[k - 1])]
  <2>1. h[0] = [apu |-> a, left |-> cycles]
    <3>1. cycles - cycles = 0
      OBVIOUS
    <3> QED
      BY <1>3, <1>4, <3>1
  <2>2. ASSUME NEW k \in Nat \ {0} PROVE h[k] = Au!Passed(h[k - 1])
    <3>1. PICK j \in Nat : j = k - 1 /\ j + 1 = k
      OBVIOUS
    <3>2. g[j] \in 0 .. cycles /\ g[k] = next[g[j]]
      BY <1>3, <3>1
    <3>3. h[j] = [apu |-> t[cycles - g[j]], left |-> g[j]] /\ h[k] = [apu |-> t[cycles - g[k]], left |-> g[k]]
      BY <1>4
    <3> QED
      BY <1>2, <3>1, <3>2, <3>3, ZenonT(120), ZenonT(120)
  <2>3. h = [k \in Nat |-> h[k]]
    BY <1>4
  <2> HIDE DEF a
  <2> QED
    BY <2>1, <2>2, <2>3
<1>6. after = [k \in Nat |-> IF k = 0 THEN [apu |-> a, left |-> cycles] ELSE Au!Passed(after[k - 1])]
  BY <1>5, Zenon
<1>7. Au!Ticked(a, cycles) = after[cycles].apu
  BY Zenon DEF Au!Ticked
<1> HIDE DEF after, a
<1> DEFINE A == {k \in Nat : after[k] = h[k] /\ (g[k] = 0 \/ g[k] =< cycles - k)}
<1>8. 0 \in A
  BY <1>3, <1>5, <1>6
<1>9. ASSUME NEW k \in Nat, k \in A PROVE k + 1 \in A
  <2>1. PICK i \in Nat : i = k + 1 /\ i # 0 /\ i - 1 = k
    OBVIOUS
  <2>2. after[i] = Au!Passed(after[k])
    BY <1>6, <2>1
  <2>3. h[i] = Au!Passed(h[k])
    BY <1>5, <2>1
  <2>4. after[i] = h[i]
    BY <1>9, <2>2, <2>3
  <2>5. g[k] \in 0 .. cycles /\ g[i] = next[g[k]] /\ next[g[k]] \in 0 .. cycles
    BY <1>2, <1>3, <2>1
  <2>6. (g[k] # 0 => next[g[k]] < g[k]) /\ (g[k] = 0 => next[g[k]] = 0)
    BY <1>2, <2>5
  <2>7. g[i] = 0 \/ g[i] =< cycles - i
    BY <1>9, <2>1, <2>5, <2>6
  <2> QED
    BY <2>1, <2>4, <2>7
<1> HIDE DEF A
<1>10. cycles \in A
  BY <1>8, <1>9, Induction
<1>11. after[cycles] = h[cycles] /\ g[cycles] = 0
  BY <1>3, <1>10 DEF A
<1>12. h[cycles].apu = t[cycles]
  BY <1>4, <1>11
<1> QED
  BY <1>7, <1>11, <1>12 DEF a

(* Two pieces leave what one leaves.                                         *)
LEMMA PiecesOfTime ==
  ASSUME NEW a, NEW checked, Healthy(a, checked), NEW n \in Nat
  PROVE  Au!Ticked(Au!Ticked(a, 1), n) = Au!Ticked(a, n + 1)
<1>1. CASE ~ a.on
  BY <1>1, Zenon DEF Au!Ticked
<1>2. CASE a.on
  <2>1. PICK t : t[0] = a /\ Cycled(t, checked)
    BY CycleStates
  <2>2. PICK u : u = [i \in Nat |-> t[i + 1]]
    OBVIOUS
  <2>3. u[0] = t[1] /\ u[n] = t[n + 1]
    BY <2>2
  <2>4. Cycled(u, checked)
    <3> SUFFICES ASSUME NEW i \in Nat
                 PROVE  Healthy(u[i], checked) /\ u[i + 1] = Au!Processed(u[i], 1) /\ u[i + 1].on = u[i].on
      BY DEF Cycled
    <3>1. u[i] = t[i + 1] /\ u[i + 1] = t[(i + 1) + 1] /\ i + 1 \in Nat
      BY <2>2
    <3> QED
      BY <2>1, <3>1, Zenon DEF Cycled
  <2>5. t[0].on /\ u[0].on
    <3>1. t[0 + 1].on = t[0].on /\ 0 + 1 = 1
      BY <2>1 DEF Cycled
    <3> QED
      BY <1>2, <2>1, <2>3, <3>1
  <2>6. Au!Ticked(t[0], 1) = t[1] /\ Au!Ticked(t[0], n + 1) = t[n + 1]
    <3>1. 1 \in Nat /\ n + 1 \in Nat
      OBVIOUS
    <3> QED
      BY <2>1, <2>5, <3>1, TickIsCycles
  <2>7. Au!Ticked(u[0], n) = u[n]
    BY <2>4, <2>5, TickIsCycles
  <2> QED
    BY <2>1, <2>3, <2>6, <2>7
<1> QED
  BY <1>1, <1>2

(* And so it is after any tick.                                              *)
LEMMA TickedHealthy ==
  ASSUME NEW a, NEW checked, Healthy(a, checked), NEW n \in Nat
  PROVE  Healthy(Au!Ticked(a, n), checked)
<1>1. CASE ~ a.on
  BY <1>1, Zenon DEF Au!Ticked
<1>2. CASE a.on
  <2>1. PICK t : t[0] = a /\ Cycled(t, checked)
    BY CycleStates
  <2>2. Au!Ticked(t[0], n) = t[n]
    BY <1>2, <2>1, TickIsCycles
  <2> QED
    BY <2>1, <2>2 DEF Cycled
<1> QED
  BY <1>1, <1>2

-----------------------------------------------------------------------------
(* The registers                                                             *)

(* The powers above the narrow width are its multiples.                      *)
LEMMA HigherPowers ==
  \A j \in Nat : NarrowBits + j =< 15 =>
    \E m \in Nat \ {0} : Au!PowerOfTwo[NarrowBits + j] = Au!PowerOfTwo[NarrowBits] * m
<1>1. PICK n \in 1 .. 15, b \in Nat \ {0} : n = NarrowBits /\ b = Au!PowerOfTwo[n]
  <2>1. PICK n \in 1 .. 15 : n = NarrowBits
    BY SoundSizes
  <2>2. n \in 0 .. 15
    OBVIOUS
  <2> QED
    BY <2>1, <2>2, PowerSteps
<1> DEFINE A == {j \in Nat : n + j =< 15 => \E m \in Nat \ {0} : Au!PowerOfTwo[n + j] = b * m}
<1>2. 0 \in A
  <2>1. n + 0 = n /\ b = b * 1 /\ 1 \in Nat \ {0}
    OBVIOUS
  <2> QED
    BY <1>1, <2>1
<1>3. ASSUME NEW j \in Nat, j \in A PROVE j + 1 \in A
  <2> SUFFICES ASSUME n + (j + 1) =< 15
               PROVE  \E m \in Nat \ {0} : Au!PowerOfTwo[n + (j + 1)] = b * m
    OBVIOUS
  <2>1. PICK m \in Nat \ {0} : Au!PowerOfTwo[n + j] = b * m
    BY <1>3
  <2>2. PICK i \in 1 .. 15 : i = n + (j + 1) /\ i - 1 = n + j
    OBVIOUS
  <2>3. Au!PowerOfTwo[i] = 2 * Au!PowerOfTwo[i - 1]
    BY PowerSteps
  <2>4. 2 * (b * m) = b * (2 * m) /\ 2 * m \in Nat \ {0}
    OBVIOUS
  <2> QED
    BY <2>1, <2>2, <2>3, <2>4
<1> HIDE DEF A
<1>4. \A j \in Nat : j \in A
  BY <1>2, <1>3, Induction
<1> QED
  BY <1>1, <1>4 DEF A

(* A register of ones is awake.                                              *)
LEMMA OnesAwake ==
  Au!NoiseOnes \in Nat /\ \A narrow : Awake(Au!NoiseOnes, narrow)
<1>1. PICK j \in Nat : NoiseBits = NarrowBits + j /\ NarrowBits + j =< 15
  <2>1. NoiseBits - NarrowBits \in Nat /\ NoiseBits = NarrowBits + (NoiseBits - NarrowBits) /\ NoiseBits =< 15
    BY SoundSizes
  <2> QED
    BY <2>1
<1>2. PICK half \in Nat \ {0} : Au!PowerOfTwo[NarrowBits] = 2 * half
  <2>1. NarrowBits \in 1 .. 15 /\ NarrowBits - 1 \in 0 .. 15
    BY SoundSizes
  <2>2. Au!PowerOfTwo[NarrowBits - 1] \in Nat \ {0}
    BY <2>1, PowerSteps
  <2>3. Au!PowerOfTwo[NarrowBits] = 2 * Au!PowerOfTwo[NarrowBits - 1]
    BY <2>1, PowerSteps
  <2> QED
    BY <2>2, <2>3
<1>3. PICK b \in Nat \ {0} : b = Au!PowerOfTwo[NarrowBits] /\ b > 1
  BY <1>2
<1>4. PICK m \in Nat \ {0} : Au!PowerOfTwo[NoiseBits] = b * m
  BY <1>1, <1>3, HigherPowers
<1>5. PICK k \in Nat : m = k + 1
  <2>1. m - 1 \in Nat /\ m = (m - 1) + 1
    OBVIOUS
  <2> QED
    BY <2>1
<1>6. PICK x \in Nat : x = b * k
  OBVIOUS
<1>7. b * m = x + b
  BY <1>5, <1>6
<1>8. PICK r \in 0 .. b - 1, l \in Nat : r = b - 1 /\ l = x + r /\ r # 0 /\ l # 0
  BY <1>3
<1>9. Au!NoiseOnes = l
  BY <1>4, <1>7, <1>8 DEF Au!NoiseOnes
<1>10. l % b = r
  <2>1. l = b * k + r /\ l \in Int /\ k \in Int
    BY <1>6, <1>8
  <2> QED
    BY <2>1, OnlyDivision
<1> QED
  BY <1>3, <1>8, <1>9, <1>10 DEF Awake

(* A pitch is put together from two registers.                               *)
LEMMA PitchParts ==
  ASSUME NEW p \in Pitches
  PROVE  /\ p \div LowPitches \in 0 .. HighPitches - 1
         /\ p % LowPitches \in 0 .. LowPitches - 1
<1>1. PICK l \in Nat \ {0}, h \in Nat \ {0} : l = LowPitches /\ h = HighPitches
  BY SoundSizes
<1>2. PICK x \in Nat : x = h * l
  OBVIOUS
<1>3. p \in Nat /\ p < x
  BY <1>1, <1>2 DEF Pitches, Au!MaxPitch
<1>4. PICK q \in Nat, r \in 0 .. l - 1 : q = p \div l /\ r = p % l /\ p = l * q + r
  BY <1>3, Divided
<1>5. q < h
  <2> SUFFICES ASSUME q >= h PROVE FALSE
    OBVIOUS
  <2>1. PICK d \in Nat : q = h + d
    <3>1. q - h \in Nat /\ q = h + (q - h)
      OBVIOUS
    <3> QED
      BY <3>1
  <2>2. PICK y \in Nat : y = l * d
    OBVIOUS
  <2>3. l * q = x + y
    BY <1>2, <2>1, <2>2
  <2> QED
    BY <1>3, <1>4, <2>3
<1> QED
  BY <1>1, <1>4, <1>5

(* And what is put together is a pitch.                                      *)
LEMMA PitchMade ==
  ASSUME NEW high \in 0 .. HighPitches - 1, NEW low \in 0 .. LowPitches - 1
  PROVE  (high * LowPitches) + low \in Pitches
<1>1. PICK l \in Nat \ {0}, h \in Nat \ {0} : l = LowPitches /\ h = HighPitches
  BY SoundSizes
<1>2. PICK g \in Nat, d \in Nat : g = high /\ h = (g + 1) + d
  <2>1. high \in Nat /\ (h - 1) - high \in Nat /\ h = (high + 1) + ((h - 1) - high)
    BY <1>1
  <2> QED
    BY <2>1
<1>3. PICK x \in Nat, y \in Nat, z \in Nat : x = g * l /\ y = d * l /\ z = h * l
  <2>1. g * l \in Nat /\ d * l \in Nat /\ h * l \in Nat
    OBVIOUS
  <2> QED
    BY <2>1
<1>4. z = (x + l) + y
  BY <1>2, <1>3
<1>5. x + low \in 0 .. z - 1
  BY <1>1, <1>4
<1> QED
  BY <1>1, <1>2, <1>3, <1>5 DEF Pitches, Au!MaxPitch

(* What is good of a channel by itself.                                      *)
ChanGood(a, c, y) ==
  /\ y \in Chans
  /\ y.bit <=> y.enabled
  /\ y.enabled => y.dac /\ a.on
  /\ c = 3 => y.phase < Nibbles /\ (~ y.stale => y.held = a.wave[y.phase \div 2])
  /\ c = 4 => (~ y.switched => Awake(y.lfsr, a.regs.noise.narrow))

(* A unit is healthy by its channels, its sweep, its queue and its counts.   *)
LEMMA ByChannels ==
  ASSUME NEW a \in Units, NEW checked
  PROVE  Healthy(a, checked) <=>
           /\ \A c \in Channels : ChanGood(a, c, a.chan[c])
           /\ SweepGood(a, checked) /\ QueueGood(a.pcm)
           /\ a.cycles < SequencerCycles /\ a.sample < SampleCycles
<1>1. \A c \in Channels : a.chan[c] \in Chans
  BY DEF Units
<1>2. (\A c \in Channels : ChanGood(a, c, a.chan[c])) <=> SwitchGood(a) /\ WaveGood(a) /\ NoiseGood(a)
  BY <1>1 DEF ChanGood, SwitchGood, WaveGood, NoiseGood
<1> QED
  BY <1>2 DEF Healthy, Sounds

(* A channel set anew, and the rest as it was.                               *)
ChanSet(a, c, y) == [a EXCEPT !.chan[c] = y]

(* Nothing else of the unit changes.                                         *)
LEMMA ChanSetShape ==
  ASSUME NEW a \in Units, NEW c \in Channels, NEW y \in Chans
  PROVE  /\ ChanSet(a, c, y) \in Units
         /\ ChanSet(a, c, y).chan = [a.chan EXCEPT ![c] = y]
         /\ ChanSet(a, c, y).on = a.on /\ ChanSet(a, c, y).wave = a.wave
         /\ ChanSet(a, c, y).regs = a.regs /\ ChanSet(a, c, y).sweep = a.sweep
         /\ ChanSet(a, c, y).pcm = a.pcm /\ ChanSet(a, c, y).cycles = a.cycles
         /\ ChanSet(a, c, y).sample = a.sample
<1>1. PICK g \in [Channels -> Chans] : g = [a.chan EXCEPT ![c] = y]
  BY DEF Units
<1>2. PICK b : b = [a EXCEPT !.chan = g]
  OBVIOUS
<1>3. ChanSet(a, c, y) = b
  BY <1>1, <1>2 DEF ChanSet
<1>4. b \in Units /\ b.chan = g
  BY <1>2 DEF Units
<1>5. b.on = a.on /\ b.wave = a.wave /\ b.regs = a.regs /\ b.sweep = a.sweep /\ b.pcm = a.pcm
      /\ b.cycles = a.cycles /\ b.sample = a.sample
  BY <1>2 DEF Units
<1> QED
  BY <1>1, <1>3, <1>4, <1>5

(* A good channel set leaves the unit healthy.                               *)
LEMMA ChanSetHealthy ==
  ASSUME NEW a, NEW checked, Healthy(a, checked), NEW c \in Channels, NEW y, ChanGood(a, c, y),
         c = 1 /\ y.enabled /\ checked => a.chan[1].enabled
  PROVE  Healthy(ChanSet(a, c, y), checked)
<1>1. a \in Units /\ y \in Chans
  BY DEF Healthy, Sounds, ChanGood
<1>2. PICK b \in Units : b = ChanSet(a, c, y)
  BY <1>1, ChanSetShape
<1>3. /\ b.chan = [a.chan EXCEPT ![c] = y] /\ b.on = a.on /\ b.wave = a.wave /\ b.regs = a.regs
      /\ b.sweep = a.sweep /\ b.pcm = a.pcm /\ b.cycles = a.cycles /\ b.sample = a.sample
  BY <1>1, <1>2, ChanSetShape
<1>4. /\ \A d \in Channels : ChanGood(a, d, a.chan[d])
      /\ SweepGood(a, checked) /\ QueueGood(a.pcm) /\ a.cycles < SequencerCycles /\ a.sample < SampleCycles
  BY <1>1, ByChannels
<1>5. \A d \in Channels : b.chan[d] = IF d = c THEN y ELSE a.chan[d]
  BY <1>1, <1>3 DEF Units
<1>6. \A d \in Channels : ChanGood(a, d, b.chan[d])
  BY <1>4, <1>5
<1>7. \A d \in Channels : ChanGood(b, d, b.chan[d])
  BY <1>3, <1>6, Zenon DEF ChanGood
<1>8. SweepGood(b, checked)
  BY <1>3, <1>4, <1>5 DEF SweepGood
<1> QED
  BY <1>2, <1>3, <1>4, <1>7, <1>8, ByChannels

(* The registers set anew; a width changed under a note was noted.           *)
RegsSet(a, r) == [a EXCEPT !.regs = r]

(* They leave it healthy.                                                    *)
LEMMA RegsSetHealthy ==
  ASSUME NEW a, NEW checked, Healthy(a, checked), NEW r \in Registers,
         4 \in Channels /\ ~ a.chan[4].switched => r.noise.narrow = a.regs.noise.narrow
  PROVE  /\ Healthy(RegsSet(a, r), checked) /\ RegsSet(a, r) \in Units
         /\ RegsSet(a, r).chan = a.chan /\ RegsSet(a, r).regs = r /\ RegsSet(a, r).on = a.on
         /\ RegsSet(a, r).wave = a.wave
<1>1. a \in Units
  BY DEF Healthy, Sounds
<1>2. PICK b : b = RegsSet(a, r)
  OBVIOUS
<1>3. b \in Units /\ b.regs = r
  BY <1>1, <1>2 DEF RegsSet, Units
<1>4. b.on = a.on /\ b.wave = a.wave /\ b.chan = a.chan /\ b.sweep = a.sweep /\ b.pcm = a.pcm
      /\ b.cycles = a.cycles /\ b.sample = a.sample
  BY <1>1, <1>2 DEF RegsSet, Units
<1>5. /\ \A d \in Channels : ChanGood(a, d, a.chan[d])
      /\ SweepGood(a, checked) /\ QueueGood(a.pcm) /\ a.cycles < SequencerCycles /\ a.sample < SampleCycles
  BY <1>1, ByChannels
<1>6. \A d \in Channels : ChanGood(b, d, b.chan[d])
  BY <1>3, <1>4, <1>5 DEF ChanGood
<1>7. SweepGood(b, checked)
  BY <1>4, <1>5 DEF SweepGood
<1> QED
  BY <1>2, <1>3, <1>4, <1>5, <1>6, <1>7, ByChannels

(* The sweep set anew.                                                       *)
SweepSet(a, s) == [a EXCEPT !.sweep = s]

(* A sweep whose checked pitch fits leaves it healthy.                       *)
LEMMA SweepSetHealthy ==
  ASSUME NEW a, NEW known, Healthy(a, known), NEW s \in SweepStates, NEW checked,
         1 \in Channels /\ a.chan[1].enabled /\ checked /\ s.shift # 0
           => ~ Au!TooHigh(Au!Swept(s.shadow, s.negate, s.shift))
  PROVE  /\ Healthy(SweepSet(a, s), checked) /\ SweepSet(a, s) \in Units
         /\ SweepSet(a, s).chan = a.chan
<1>1. a \in Units
  BY DEF Healthy, Sounds
<1>2. PICK b : b = SweepSet(a, s)
  OBVIOUS
<1>3. b \in Units /\ b.sweep = s
  BY <1>1, <1>2 DEF SweepSet, Units
<1>4. b.on = a.on /\ b.wave = a.wave /\ b.chan = a.chan /\ b.regs = a.regs /\ b.pcm = a.pcm
      /\ b.cycles = a.cycles /\ b.sample = a.sample
  BY <1>1, <1>2 DEF SweepSet, Units
<1>5. /\ \A d \in Channels : ChanGood(a, d, a.chan[d])
      /\ QueueGood(a.pcm) /\ a.cycles < SequencerCycles /\ a.sample < SampleCycles
  BY <1>1, ByChannels
<1>6. \A d \in Channels : ChanGood(b, d, b.chan[d])
  BY <1>4, <1>5, Zenon DEF ChanGood
<1>7. SweepGood(b, checked)
  BY <1>3, <1>4 DEF SweepGood
<1> QED
  BY <1>2, <1>3, <1>4, <1>5, <1>6, <1>7, ByChannels

(* A check that lapses, and a channel 1 that is silent.                      *)
LEMMA Unchecked ==
  ASSUME NEW a, NEW known, Healthy(a, known), NEW checked,
         checked => known \/ (1 \in Channels => ~ a.chan[1].enabled)
  PROVE  Healthy(a, checked)
BY DEF Healthy, Sounds, SweepGood

(* A healthy unit's channel is good, and off as it is on.                    *)
LEMMA OneChanGood ==
  ASSUME NEW a, NEW checked, Healthy(a, checked), NEW c \in Channels
  PROVE  ChanGood(a, c, a.chan[c]) /\ a \in Units
<1>1. a \in Units
  BY DEF Healthy, Sounds
<1> QED
  BY <1>1, ByChannels

LEMMA OffGood ==
  ASSUME NEW a, NEW c, NEW y, ChanGood(a, c, y)
  PROVE  ChanGood(a, c, Au!Off(y)) /\ ~ Au!Off(y).enabled
<1>1. y \in Chans
  BY DEF ChanGood
<1>2. PICK z : z = Au!Off(y)
  OBVIOUS
<1>3. z \in Chans /\ ~ z.enabled /\ ~ z.bit
  BY <1>1, <1>2 DEF Au!Off, Chans
<1>4. z.phase = y.phase /\ z.stale = y.stale /\ z.held = y.held /\ z.switched = y.switched /\ z.lfsr = y.lfsr
  BY <1>1, <1>2 DEF Au!Off, Chans
<1> QED
  BY <1>2, <1>3, <1>4 DEF ChanGood

(* A register access brings the wave channel's byte up to date.              *)
LEMMA SyncedHealthy ==
  ASSUME NEW a, NEW checked, Healthy(a, checked), NEW c \in Channels
  PROVE  Healthy(Au!Synced(a, c), checked)
<1>1. ChanGood(a, c, a.chan[c]) /\ a \in Units
  BY OneChanGood
<1>2. PICK ch \in Chans : ch = a.chan[c]
  BY <1>1 DEF ChanGood
<1>3. PICK t \in Nat : t = IF ch.timer = 0 THEN Au!Period(a, c) ELSE ch.timer
  BY <1>1, PeriodShape DEF Chans
<1>4. PICK y : y = [ch EXCEPT !.timer = t]
  OBVIOUS
<1>5. y \in Chans /\ y.phase = ch.phase /\ y.stale = ch.stale /\ y.held = ch.held
      /\ y.switched = ch.switched /\ y.lfsr = ch.lfsr
  BY <1>4 DEF Chans
<1>6. y.enabled = ch.enabled /\ y.bit = ch.bit /\ y.dac = ch.dac
  BY <1>4 DEF Chans
<1>7. ChanGood(a, c, y)
  BY <1>1, <1>2, <1>5, <1>6, Zenon DEF ChanGood
<1>8. Au!Synced(a, c) = ChanSet(a, c, y)
  BY <1>1, <1>2, <1>3, <1>4 DEF Au!Synced, ChanSet
<1>9. c = 1 /\ y.enabled /\ checked => a.chan[1].enabled
  BY <1>2, <1>6
<1> QED
  BY <1>7, <1>8, <1>9, ChanSetHealthy

(* A converter switched.                                                     *)
LEMMA WithDacGood ==
  ASSUME NEW a, NEW c, NEW y, ChanGood(a, c, y), NEW on \in BOOLEAN
  PROVE  ChanGood(a, c, Au!WithDac(y, on)) /\ (Au!WithDac(y, on).enabled => y.enabled)
<1>1. y \in Chans
  BY DEF ChanGood
<1>2. CASE on
  <2>1. PICK z : z = [y EXCEPT !.dac = TRUE]
    OBVIOUS
  <2>2. z \in Chans /\ z.dac /\ z.enabled = y.enabled /\ z.bit = y.bit
    BY <1>1, <2>1 DEF Chans
  <2>3. z.phase = y.phase /\ z.stale = y.stale /\ z.held = y.held /\ z.switched = y.switched /\ z.lfsr = y.lfsr
    BY <1>1, <2>1 DEF Chans
  <2>4. ChanGood(a, c, z)
    BY <2>2, <2>3, Zenon DEF ChanGood
  <2> QED
    BY <1>2, <2>1, <2>2, <2>4 DEF Au!WithDac
<1>3. CASE ~ on
  <2>1. PICK z : z = [[y EXCEPT !.dac = FALSE] EXCEPT !.enabled = FALSE, !.bit = FALSE]
    OBVIOUS
  <2>2. z \in Chans /\ ~ z.enabled /\ ~ z.bit
    BY <1>1, <2>1 DEF Chans
  <2>3. z.phase = y.phase /\ z.stale = y.stale /\ z.held = y.held /\ z.switched = y.switched /\ z.lfsr = y.lfsr
    BY <1>1, <2>1 DEF Chans
  <2>4. ChanGood(a, c, z)
    BY <2>2, <2>3 DEF ChanGood
  <2>5. Au!WithDac(y, on) = z
    BY <1>3, <2>1 DEF Au!WithDac, Au!Off
  <2> QED
    BY <2>2, <2>4, <2>5
<1> QED
  BY <1>2, <1>3

(* A note begins.                                                            *)
LEMMA NoteGood ==
  ASSUME NEW a, NEW checked, Healthy(a, checked), NEW c \in Channels, a.chan[c].dac, a.on
  PROVE  LET ch == a.chan[c]
             on == [ch EXCEPT !.enabled = TRUE, !.bit = TRUE, !.length = Au!LengthStarted(@),
                              !.timer = Au!Period(a, c), !.phase = IF c = 3 THEN 0 ELSE @,
                              !.lfsr = Au!NoiseOnes, !.stale = TRUE, !.switched = FALSE]
         IN ChanGood(a, c, IF c = 3 THEN on ELSE Au!EnvelopeStarted(on, a.regs.env[c]))
<1>1. PICK ch \in Chans : ch = a.chan[c]
  BY OneChanGood DEF ChanGood
<1>2. a \in Units
  BY OneChanGood
<1>3. PICK n \in Nat, t \in Nat, p \in Nat, l \in Nat :
        /\ n = Au!LengthStarted(ch.length) /\ t = Au!Period(a, c) /\ l = Au!NoiseOnes
        /\ p = IF c = 3 THEN 0 ELSE ch.phase
  <2>1. ch.length \in Nat /\ ch.phase \in Nat
    BY DEF Chans
  <2>2. Au!LengthStarted(ch.length) \in Nat
    BY <2>1, SoundSizes DEF Au!LengthStarted
  <2>3. Au!Period(a, c) \in Nat
    BY <1>2, PeriodShape
  <2>4. (IF c = 3 THEN 0 ELSE ch.phase) \in Nat
    BY <2>1
  <2> QED
    BY <2>2, <2>3, <2>4, OnesAwake, Zenon
<1>4. PICK on : on = [ch EXCEPT !.enabled = TRUE, !.bit = TRUE, !.length = n, !.timer = t, !.phase = p,
                                !.lfsr = l, !.stale = TRUE, !.switched = FALSE]
  OBVIOUS
<1>5. on \in Chans /\ on.enabled /\ on.bit /\ on.stale /\ on.lfsr = l /\ on.phase = p
  BY <1>4 DEF Chans
<1>6. on.dac = ch.dac
  BY <1>4 DEF Chans
<1>7. \E h \in Nat \ {0} : Nibbles = 2 * h
  BY WaveSize
<1>8. ChanGood(a, c, on)
  BY <1>1, <1>3, <1>5, <1>6, <1>7, OnesAwake DEF ChanGood
<1>9. ASSUME c # 3 PROVE ChanGood(a, c, Au!EnvelopeStarted(on, a.regs.env[c]))
  <2>1. PICK e \in Au!Envelopes : e = a.regs.env[c]
    BY <1>2 DEF Units, Registers
  <2>2. PICK v \in Nat, u \in BOOLEAN, d \in Nat, k \in Nat :
          v = e.volume /\ u = e.up /\ d = e.period /\ k = Au!Reload(e.period)
    <3>1. e.volume \in Nat /\ e.up \in BOOLEAN /\ e.period \in Nat
      BY SoundSizes DEF Au!Envelopes
    <3>2. Au!Reload(e.period) \in Nat
      BY <3>1, SoundSizes DEF Au!Reload
    <3> QED
      BY <3>1, <3>2
  <2>3. PICK z : z = [on EXCEPT !.volume = v, !.up = u, !.period = d, !.counter = k]
    OBVIOUS
  <2>4. z \in Chans /\ z.enabled = on.enabled /\ z.bit = on.bit /\ z.dac = on.dac
    BY <1>5, <2>3, ZenonT(120) DEF Chans
  <2>5. z.stale = on.stale /\ z.lfsr = on.lfsr /\ z.switched = on.switched
    BY <1>5, <2>3 DEF Chans
  <2>6. ChanGood(a, c, z)
    BY <1>8, <1>9, <2>4, <2>5, Zenon DEF ChanGood
  <2>7. Au!EnvelopeStarted(on, a.regs.env[c]) = z
    BY <2>1, <2>2, <2>3, Zenon DEF Au!EnvelopeStarted
  <2> QED
    BY <2>6, <2>7
<1>10. on = [a.chan[c] EXCEPT !.enabled = TRUE, !.bit = TRUE, !.length = Au!LengthStarted(@),
                              !.timer = Au!Period(a, c), !.phase = IF c = 3 THEN 0 ELSE @,
                              !.lfsr = Au!NoiseOnes, !.stale = TRUE, !.switched = FALSE]
  BY <1>1, <1>3, <1>4, Zenon
<1> QED
  BY <1>8, <1>9, <1>10, Zenon

(* The sweep begins with it: a first pitch that does not fit ends the note.  *)
LEMMA SweepStartedHealthy ==
  ASSUME NEW a, NEW known, Healthy(a, known), 1 \in Channels
  PROVE  Healthy(Au!SweepStarted(a), TRUE)
<1>1. a \in Units
  BY DEF Healthy, Sounds
<1>2. PICK s \in SweepStates, p \in Pitches : s = a.sweep /\ p = a.regs.pitch[1]
  BY <1>1 DEF Units, Registers
<1>3. PICK n \in Nat, u \in BOOLEAN : n = Au!Reload(s.period) /\ u = (s.shift # 0 /\ s.negate)
  BY SoundSizes DEF Au!Reload, SweepStates
<1>4. PICK w : w = [s EXCEPT !.shadow = p, !.counter = n, !.used = u]
  OBVIOUS
<1>5. w \in SweepStates /\ w.shadow = p
  BY <1>4 DEF SweepStates
<1>6. w.negate = s.negate /\ w.shift = s.shift
  BY <1>4 DEF SweepStates
<1>7. PICK b : b = SweepSet(a, w)
  OBVIOUS
<1>8. PICK high \in BOOLEAN : high = (s.shift # 0 /\ Au!TooHigh(Au!Swept(p, s.negate, s.shift)))
  OBVIOUS
<1>9. Au!SweepStarted(a) = IF high THEN [b EXCEPT !.chan[1] = Au!Off(@)] ELSE b
  <2>1. b = [a EXCEPT !.sweep = w]
    BY <1>7 DEF SweepSet
  <2> QED
    BY <1>2, <1>3, <1>4, <1>8, <2>1, Zenon DEF Au!SweepStarted
<1>10. CASE high
  <2>1. Healthy(b, FALSE) /\ b \in Units
    BY <1>5, <1>7, SweepSetHealthy
  <2>2. ChanGood(b, 1, b.chan[1])
    BY <2>1, OneChanGood
  <2>3. PICK y : y = Au!Off(b.chan[1])
    OBVIOUS
  <2>4. ChanGood(b, 1, y) /\ ~ y.enabled /\ y \in Chans
    <3>1. ChanGood(b, 1, y) /\ ~ y.enabled
      BY <2>2, <2>3, OffGood
    <3> QED
      BY <3>1 DEF ChanGood
  <2>5. Healthy(ChanSet(b, 1, y), FALSE)
    BY <2>1, <2>4, ChanSetHealthy
  <2>6. ~ ChanSet(b, 1, y).chan[1].enabled
    <3>1. ChanSet(b, 1, y).chan = [b.chan EXCEPT ![1] = y]
      BY <2>1, <2>4, ChanSetShape
    <3> QED
      BY <2>1, <2>4, <3>1 DEF Units
  <2>7. Healthy(ChanSet(b, 1, y), TRUE)
    BY <2>5, <2>6, Unchecked
  <2>8. Au!SweepStarted(a) = ChanSet(b, 1, y)
    BY <1>9, <1>10, <2>3, Zenon DEF ChanSet
  <2> QED
    BY <2>7, <2>8
<1>11. CASE ~ high
  <2>1. Healthy(b, TRUE)
    BY <1>5, <1>6, <1>7, <1>8, <1>11, SweepSetHealthy
  <2> QED
    BY <1>9, <1>11, <2>1
<1> QED
  BY <1>10, <1>11

(* A trigger.                                                                *)
LEMMA TriggeredHealthy ==
  ASSUME NEW a, NEW known, Healthy(a, known), a.on, NEW c \in Channels, NEW checked,
         checked => known \/ c = 1
  PROVE  Healthy(Au!Triggered(a, c), checked)
<1>1. ChanGood(a, c, a.chan[c]) /\ a \in Units
  BY OneChanGood
<1>2. CASE ~ a.chan[c].dac
  <2>1. PICK y : y = Au!Off(a.chan[c])
    OBVIOUS
  <2>2. ChanGood(a, c, y) /\ ~ y.enabled /\ y \in Chans
    <3>1. ChanGood(a, c, y) /\ ~ y.enabled
      BY <1>1, <2>1, OffGood
    <3> QED
      BY <3>1 DEF ChanGood
  <2>3. Healthy(ChanSet(a, c, y), known)
    BY <2>2, ChanSetHealthy
  <2>4. c = 1 => ~ ChanSet(a, c, y).chan[1].enabled
    <3>1. ChanSet(a, c, y).chan = [a.chan EXCEPT ![c] = y]
      BY <1>1, <2>2, ChanSetShape
    <3> QED
      BY <1>1, <2>2, <3>1 DEF Units
  <2>5. Healthy(ChanSet(a, c, y), checked)
    BY <2>3, <2>4, Unchecked
  <2>6. Au!Triggered(a, c) = ChanSet(a, c, y)
    BY <1>2, <2>1, Zenon DEF Au!Triggered, ChanSet
  <2> QED
    BY <2>5, <2>6
<1>3. CASE a.chan[c].dac
  <2>1. PICK on : on = [a.chan[c] EXCEPT !.enabled = TRUE, !.bit = TRUE, !.length = Au!LengthStarted(@),
                              !.timer = Au!Period(a, c), !.phase = IF c = 3 THEN 0 ELSE @,
                              !.lfsr = Au!NoiseOnes, !.stale = TRUE, !.switched = FALSE]
    OBVIOUS
  <2>2. PICK y : y = IF c = 3 THEN on ELSE Au!EnvelopeStarted(on, a.regs.env[c])
    OBVIOUS
  <2>3. ChanGood(a, c, y)
    BY <1>3, <2>1, <2>2, NoteGood, Zenon
  <2>4. PICK b : b = ChanSet(a, c, y)
    OBVIOUS
  <2>5. Au!Triggered(a, c) = IF c = 1 THEN Au!SweepStarted(b) ELSE b
    BY <1>3, <2>1, <2>2, <2>4, Zenon DEF Au!Triggered, ChanSet
  <2>6. CASE c # 1
    <3>1. Healthy(b, known)
      BY <2>3, <2>4, <2>6, ChanSetHealthy
    <3>2. Healthy(b, checked)
      BY <2>6, <3>1, Unchecked
    <3> QED
      BY <2>5, <2>6, <3>2
  <2>7. CASE c = 1
    <3>1. Healthy(a, FALSE)
      BY Unchecked
    <3>2. Healthy(b, FALSE)
      BY <2>3, <2>4, <3>1, ChanSetHealthy
    <3>3. Healthy(Au!SweepStarted(b), TRUE)
      BY <2>7, <3>2, SweepStartedHealthy
    <3>4. Healthy(Au!SweepStarted(b), checked)
      BY <3>3, Unchecked
    <3> QED
      BY <2>5, <2>7, <3>4
  <2> QED
    BY <2>6, <2>7
<1> QED
  BY <1>2, <1>3

-----------------------------------------------------------------------------
(* Every operation keeps it                                                  *)

(* What every operation keeps.                                               *)
SoundInv == Healthy(apu, fits) /\ subject \in Channels \union {0} /\ dmg \in BOOLEAN

(* The sweep register.                                                       *)
LEMMA SweepWritten ==
  ASSUME SoundInv, subject = 1, NEW v \in SweepWrites, Au!WriteSweep(v)
  PROVE  SoundInv'
<1>1. PICK a \in Units : a = apu /\ Healthy(a, fits)
  BY DEF SoundInv, Healthy, Sounds
<1>2. 1 \in Channels
  BY DEF SoundInv
<1>3. PICK s \in SweepStates : s = a.sweep
  BY DEF Units
<1>4. v.period \in Nat /\ v.negate \in BOOLEAN /\ v.shift \in 0 .. 15
  BY SoundSizes DEF Au!Sweeps
<1>5. PICK w : w = [s EXCEPT !.period = v.period, !.negate = v.negate, !.shift = v.shift]
  OBVIOUS
<1>6. w \in SweepStates
  BY <1>4, <1>5 DEF SweepStates
<1>7. PICK b : b = SweepSet(a, w)
  OBVIOUS
<1>8. Healthy(b, FALSE) /\ b \in Units /\ b.chan = a.chan
  BY <1>1, <1>6, <1>7, SweepSetHealthy
<1>9. ChanGood(b, 1, b.chan[1])
  BY <1>2, <1>8, OneChanGood
<1>10. PICK y : y = Au!Off(b.chan[1])
  OBVIOUS
<1>11. ChanGood(b, 1, y) /\ ~ y.enabled
  BY <1>9, <1>10, OffGood
<1>12. Healthy(ChanSet(b, 1, y), FALSE)
  BY <1>2, <1>8, <1>11, ChanSetHealthy
<1>13. apu' = b \/ apu' = ChanSet(b, 1, y)
  <2>1. b = [apu EXCEPT !.sweep = w]
    BY <1>1, <1>7 DEF SweepSet
  <2>2. w = [apu.sweep EXCEPT !.period = v.period, !.negate = v.negate, !.shift = v.shift]
    BY <1>1, <1>3, <1>5
  <2>3. PICK d : d = [apu EXCEPT !.sweep = [@ EXCEPT !.period = v.period, !.negate = v.negate, !.shift = v.shift]]
    OBVIOUS
  <2>4. d = b
    BY <2>1, <2>2, <2>3, Zenon
  <2>5. apu' = d \/ apu' = [d EXCEPT !.chan[1] = Au!Off(@)]
    BY <2>3, Zenon DEF Au!WriteSweep
  <2> QED
    BY <1>10, <2>4, <2>5, Zenon DEF ChanSet
<1>14. fits' = FALSE /\ dmg' = dmg /\ subject' = subject
  BY DEF Au!WriteSweep
<1>15. Healthy(apu', FALSE)
  BY <1>8, <1>12, <1>13
<1> QED
  BY <1>14, <1>15 DEF SoundInv

(* A channel set and nothing else.                                           *)
LEMMA ChanWritten ==
  ASSUME SoundInv, NEW c \in Channels, NEW y, ChanGood(apu, c, y), y.enabled => apu.chan[c].enabled,
         apu' = ChanSet(apu, c, y), UNCHANGED <<dmg, subject, fits>>
  PROVE  SoundInv'
<1>1. PICK a \in Units : a = apu /\ Healthy(a, fits) /\ ChanGood(a, c, y)
  BY DEF SoundInv, Healthy, Sounds
<1>2. c = 1 /\ y.enabled /\ fits => a.chan[1].enabled
  BY <1>1
<1>3. Healthy(ChanSet(a, c, y), fits)
  BY <1>1, <1>2, ChanSetHealthy
<1> QED
  BY <1>1, <1>3 DEF SoundInv

(* A length.                                                                 *)
LEMMA LengthWritten ==
  ASSUME SoundInv, NEW c \in Channels, NEW n \in Au!Lengths, Au!WriteLength(c, n)
  PROVE  SoundInv'
<1>1. PICK a \in Units, ch \in Chans : a = apu /\ ch = a.chan[c] /\ ChanGood(a, c, ch)
  <2>1. Healthy(apu, fits)
    BY DEF SoundInv
  <2>2. ChanGood(apu, c, apu.chan[c]) /\ apu \in Units
    BY <2>1, OneChanGood
  <2> QED
    BY <2>2 DEF ChanGood
<1>2. n \in Nat
  BY SoundSizes DEF Au!Lengths
<1>3. PICK y : y = [ch EXCEPT !.length = n]
  OBVIOUS
<1>4. y \in Chans /\ y.phase = ch.phase /\ y.stale = ch.stale /\ y.held = ch.held
      /\ y.switched = ch.switched /\ y.lfsr = ch.lfsr
  BY <1>2, <1>3 DEF Chans
<1>5. y.enabled = ch.enabled /\ y.bit = ch.bit /\ y.dac = ch.dac
  BY <1>3 DEF Chans
<1>6. ChanGood(a, c, y)
  BY <1>1, <1>4, <1>5, Zenon DEF ChanGood
<1>7. apu' = ChanSet(apu, c, y) /\ UNCHANGED <<dmg, subject, fits>>
  BY <1>1, <1>3 DEF Au!WriteLength, ChanSet
<1> QED
  BY <1>1, <1>5, <1>6, <1>7, ChanWritten

(* The wave channel's converter.                                             *)
LEMMA WaveDacWritten ==
  ASSUME SoundInv, subject = 3, NEW on \in BOOLEAN, Au!WriteWaveDac(on)
  PROVE  SoundInv'
<1>1. 3 \in Channels /\ Healthy(apu, fits)
  BY DEF SoundInv
<1>2. ChanGood(apu, 3, apu.chan[3])
  BY <1>1, OneChanGood
<1>3. PICK x : x = apu.chan[3]
  OBVIOUS
<1>4. ChanGood(apu, 3, Au!WithDac(x, on)) /\ (Au!WithDac(x, on).enabled => x.enabled)
  BY <1>2, <1>3, WithDacGood
<1>5. PICK y : y = Au!WithDac(x, on)
  OBVIOUS
<1>6. apu' = ChanSet(apu, 3, y) /\ UNCHANGED <<dmg, subject, fits>>
  BY <1>3, <1>5, Zenon DEF Au!WriteWaveDac, ChanSet
<1>7. ChanGood(apu, 3, y) /\ (y.enabled => apu.chan[3].enabled)
  BY <1>3, <1>4, <1>5
<1> QED
  BY <1>1, <1>6, <1>7, ChanWritten

(* An envelope.                                                              *)
LEMMA EnvelopeWritten ==
  ASSUME SoundInv, NEW c \in Channels, NEW v \in EnvelopeWrites, Au!WriteEnvelope(c, v)
  PROVE  SoundInv'
<1>1. PICK a \in Units, ch \in Chans : a = apu /\ ch = a.chan[c] /\ ChanGood(a, c, ch) /\ Healthy(a, fits)
  <2>1. Healthy(apu, fits)
    BY DEF SoundInv
  <2>2. ChanGood(apu, c, apu.chan[c]) /\ apu \in Units
    BY <2>1, OneChanGood
  <2> QED
    BY <2>1, <2>2 DEF ChanGood
<1>2. v \in Au!Envelopes /\ v.volume \in Nat /\ v.up \in BOOLEAN /\ v.period \in Nat /\ c # 3
  BY SoundSizes DEF Au!Envelopes, Au!WriteEnvelope
<1>3. PICK stepped : stepped = (ch.enabled /\ ch.period = 0 /\ ch.up /\ v.up /\ v.period = 0)
  OBVIOUS
<1>4. PICK w \in Nat, k \in Nat :
        /\ w = (IF stepped THEN (ch.volume + 1) % (MaxVolume + 1) ELSE v.volume)
        /\ k = Au!Reload(v.period)
  <2>1. PICK m \in Nat \ {0}, x \in Int : m = MaxVolume + 1 /\ x = ch.volume + 1
    <3>1. MaxVolume + 1 \in Nat \ {0} /\ ch.volume + 1 \in Int
      BY SoundSizes DEF Chans
    <3> QED
      BY <3>1
  <2>2. x % m \in 0 .. m - 1
    BY Division
  <2>3. x % m \in Nat
    BY <2>2
  <2>4. Au!Reload(v.period) \in Nat
    BY <1>2, SoundSizes DEF Au!Reload
  <2> QED
    BY <1>2, <2>1, <2>3, <2>4
<1>5. PICK y : y = [ch EXCEPT !.volume = w, !.up = v.up, !.period = v.period, !.counter = k]
  OBVIOUS
<1>6. y \in Chans /\ y.enabled = ch.enabled /\ y.bit = ch.bit /\ y.dac = ch.dac
  BY <1>2, <1>5 DEF Chans
<1>7. y.lfsr = ch.lfsr /\ y.switched = ch.switched
  BY <1>5 DEF Chans
<1>8. PICK r : r = [a.regs EXCEPT !.env[c] = v]
  OBVIOUS
<1>9. r \in Registers /\ r.noise = a.regs.noise
  <2>1. PICK q \in Registers : q = a.regs
    BY DEF Units
  <2>2. PICK e \in [Channels -> Au!Envelopes] : e = [q.env EXCEPT ![c] = v]
    BY <1>2 DEF Registers
  <2>3. r = [q EXCEPT !.env = e]
    BY <1>8, <2>1, <2>2
  <2> QED
    BY <2>1, <2>3 DEF Registers
<1>10. PICK b : b = RegsSet(a, r)
  OBVIOUS
<1>11. Healthy(b, fits) /\ b \in Units /\ b.chan = a.chan /\ b.on = a.on /\ b.wave = a.wave /\ b.regs = r
  BY <1>1, <1>9, <1>10, RegsSetHealthy
<1>12. ChanGood(b, c, y)
  BY <1>1, <1>2, <1>6, <1>7, <1>9, <1>11 DEF ChanGood
<1>13. PICK on \in BOOLEAN : on = (v.volume > 0 \/ v.up)
  OBVIOUS
<1>14. PICK z : z = Au!WithDac(y, on)
  OBVIOUS
<1>15. ChanGood(b, c, z) /\ (z.enabled => y.enabled)
  BY <1>12, <1>14, WithDacGood
<1>16. Healthy(ChanSet(b, c, z), fits)
  <2>1. c = 1 /\ z.enabled /\ fits => b.chan[1].enabled
    BY <1>1, <1>6, <1>11, <1>15
  <2> QED
    BY <1>11, <1>15, <2>1, ChanSetHealthy
<1>17. apu' = ChanSet(b, c, z)
  <2>1. y = [ch EXCEPT !.volume = IF stepped THEN (@ + 1) % (MaxVolume + 1) ELSE v.volume,
                       !.up = v.up, !.period = v.period, !.counter = Au!Reload(v.period)]
    BY <1>4, <1>5, Zenon
  <2>2. apu' = [apu EXCEPT !.regs.env[c] = v, !.chan[c] = z]
    BY <1>1, <1>3, <1>13, <1>14, <2>1, Zenon DEF Au!WriteEnvelope
  <2> QED
    BY <1>1, <1>8, <1>10, <2>2, Zenon DEF RegsSet, ChanSet
<1>18. UNCHANGED <<dmg, subject, fits>>
  BY DEF Au!WriteEnvelope
<1> QED
  BY <1>16, <1>17, <1>18 DEF SoundInv

(* A pitch set anew.                                                         *)
LEMMA PitchSet ==
  ASSUME NEW a, NEW checked, Healthy(a, checked), NEW c \in Channels, NEW p \in Pitches
  PROVE  Healthy([a EXCEPT !.regs.pitch[c] = p], checked) /\ [a EXCEPT !.regs.pitch[c] = p].on = a.on
<1>1. a \in Units
  BY OneChanGood
<1>2. PICK q \in Registers : q = a.regs
  BY <1>1 DEF Units
<1>3. PICK e \in [Channels -> Pitches] : e = [q.pitch EXCEPT ![c] = p]
  BY DEF Registers
<1>4. PICK r : r = [q EXCEPT !.pitch = e]
  OBVIOUS
<1>5. r \in Registers /\ r.noise = q.noise
  BY <1>4 DEF Registers
<1>6. Healthy(RegsSet(a, r), checked) /\ RegsSet(a, r).on = a.on
  BY <1>2, <1>5, RegsSetHealthy
<1>7. RegsSet(a, r) = [a EXCEPT !.regs.pitch[c] = p]
  BY <1>2, <1>3, <1>4 DEF RegsSet
<1> QED
  BY <1>6, <1>7

(* The low register of a pitch.                                              *)
LEMMA PitchWritten ==
  ASSUME SoundInv, NEW c \in Channels, NEW low \in 0 .. LowPitches - 1, Au!WritePitch(c, low)
  PROVE  SoundInv'
<1>1. PICK a \in Units : a = apu /\ Healthy(a, fits)
  BY DEF SoundInv, Healthy, Sounds
<1>2. PICK q \in Pitches : q = a.regs.pitch[c]
  BY DEF Units, Registers
<1>3. PICK high \in 0 .. HighPitches - 1 : high = q \div LowPitches
  BY PitchParts
<1>4. PICK p \in Pitches : p = (high * LowPitches) + low
  BY PitchMade
<1>5. PICK b : b = [a EXCEPT !.regs.pitch[c] = p]
  OBVIOUS
<1>6. Healthy(b, fits)
  BY <1>1, <1>5, PitchSet
<1>7. Healthy(Au!Synced(b, c), fits)
  BY <1>6, SyncedHealthy
<1>8. apu' = Au!Synced(b, c) /\ UNCHANGED <<dmg, subject, fits>>
  BY <1>1, <1>2, <1>3, <1>4, <1>5, Zenon DEF Au!WritePitch
<1> QED
  BY <1>7, <1>8 DEF SoundInv

(* The high one, with the length's switch and the trigger.                   *)
LEMMA ControlWritten ==
  ASSUME SoundInv, NEW c \in Channels, NEW high \in 0 .. HighPitches - 1, NEW l \in BOOLEAN,
         NEW t \in BOOLEAN, Au!WriteControl(c, high, l, t)
  PROVE  SoundInv'
<1>1. PICK a \in Units : a = apu /\ Healthy(a, fits) /\ a.on
  BY DEF SoundInv, Healthy, Sounds, Au!WriteControl
<1>2. PICK q \in Pitches : q = a.regs.pitch[c]
  BY DEF Units, Registers
<1>3. PICK low \in 0 .. LowPitches - 1 : low = q % LowPitches
  BY PitchParts
<1>4. PICK p \in Pitches : p = (high * LowPitches) + low
  BY PitchMade
<1>5. PICK b : b = [a EXCEPT !.regs.pitch[c] = p]
  OBVIOUS
<1>6. Healthy(b, fits) /\ b.on /\ b \in Units
  BY <1>1, <1>5, PitchSet DEF Healthy, Sounds
<1>7. PICK r : r = [b.regs EXCEPT !.lengthOn[c] = l]
  OBVIOUS
<1>8. r \in Registers /\ r.noise = b.regs.noise
  <2>1. PICK u \in Registers : u = b.regs
    BY <1>6 DEF Units
  <2>2. PICK e \in [Channels -> BOOLEAN] : e = [u.lengthOn EXCEPT ![c] = l]
    BY DEF Registers
  <2>3. r = [u EXCEPT !.lengthOn = e]
    BY <1>7, <2>1, <2>2
  <2> QED
    BY <2>1, <2>3 DEF Registers
<1>9. PICK d : d = RegsSet(b, r)
  OBVIOUS
<1>10. Healthy(d, fits) /\ d.on
  BY <1>6, <1>8, <1>9, RegsSetHealthy
<1>11. PICK e : e = IF c = 4 THEN d ELSE Au!Synced(d, c)
  OBVIOUS
<1>12. Healthy(e, fits) /\ e.on
  <2>1. Au!Synced(d, c).on = d.on
    <3>1. d \in Units
      BY <1>10 DEF Healthy, Sounds
    <3>2. PICK g : g = [d.chan EXCEPT ![c].timer = IF @ = 0 THEN Au!Period(d, c) ELSE @]
      OBVIOUS
    <3>3. Au!Synced(d, c) = [d EXCEPT !.chan = g]
      BY <3>2 DEF Au!Synced
    <3> QED
      BY <3>1, <3>3 DEF Units
  <2> QED
    BY <1>10, <1>11, <2>1, SyncedHealthy
<1>13. apu' = IF t THEN Au!Triggered(e, c) ELSE e
  <2>1. d = [a EXCEPT !.regs.pitch[c] = p, !.regs.lengthOn[c] = l]
    BY <1>5, <1>7, <1>9, Zenon DEF RegsSet
  <2> QED
    <3> DEFINE set == [apu EXCEPT !.regs.pitch[c] = (high * LowPitches) + (apu.regs.pitch[c] % LowPitches),
                                  !.regs.lengthOn[c] = l]
    <3>2. apu' = IF t THEN Au!Triggered(IF c = 4 THEN set ELSE Au!Synced(set, c), c)
                 ELSE (IF c = 4 THEN set ELSE Au!Synced(set, c))
      BY Zenon DEF Au!WriteControl
    <3>3. set = d
      BY <1>1, <1>2, <1>3, <1>4, <2>1, Zenon
    <3> HIDE DEF set
    <3>4. apu' = IF t THEN Au!Triggered(IF c = 4 THEN d ELSE Au!Synced(d, c), c)
                 ELSE (IF c = 4 THEN d ELSE Au!Synced(d, c))
      BY <3>2, <3>3, Zenon
    <3> QED
      BY <1>11, <3>4, Zenon
<1>14. fits' = (fits \/ (t /\ c = 1)) /\ UNCHANGED <<dmg, subject>>
  BY DEF Au!WriteControl
<1>15. PICK checked : checked = (fits \/ (t /\ c = 1))
  OBVIOUS
<1>16. CASE t
  <2>1. checked => fits \/ c = 1
    BY <1>15
  <2>2. Healthy(Au!Triggered(e, c), checked)
    BY <1>12, <2>1, TriggeredHealthy
  <2> QED
    BY <1>13, <1>14, <1>15, <1>16, <2>2 DEF SoundInv
<1>17. CASE ~ t
  <2>1. Healthy(e, checked)
    BY <1>12, <1>15, <1>17, Unchecked
  <2> QED
    BY <1>13, <1>14, <1>15, <1>17, <2>1 DEF SoundInv
<1> QED
  BY <1>16, <1>17

(* The noise register, whose narrowing is noted until the next trigger.      *)
LEMMA NoiseWritten ==
  ASSUME SoundInv, subject = 4, NEW v \in NoiseWrites, Au!WriteNoise(v)
  PROVE  SoundInv'
<1>0. 4 \in Channels
  BY DEF SoundInv
<1>1. PICK a \in Units, ch \in Chans : a = apu /\ ch = a.chan[4] /\ ChanGood(a, 4, ch) /\ Healthy(a, fits)
  <2>1. Healthy(apu, fits)
    BY DEF SoundInv
  <2>2. ChanGood(apu, 4, apu.chan[4]) /\ apu \in Units
    BY <1>0, <2>1, OneChanGood
  <2> QED
    BY <2>1, <2>2 DEF ChanGood
<1>2. PICK q \in Registers : q = a.regs
  BY DEF Units
<1>3. v \in Au!Noises /\ v.narrow \in BOOLEAN /\ q.noise.narrow \in BOOLEAN
  BY SoundSizes DEF Au!Noises, Registers
<1>4. PICK sw \in BOOLEAN : sw = (ch.switched \/ v.narrow # q.noise.narrow)
  BY DEF Chans
<1>5. PICK y : y = [ch EXCEPT !.switched = sw]
  OBVIOUS
<1>6. y \in Chans /\ y.switched = sw /\ y.lfsr = ch.lfsr
  BY <1>5 DEF Chans
<1>7. y.enabled = ch.enabled /\ y.bit = ch.bit /\ y.dac = ch.dac
  BY <1>5 DEF Chans
<1>8. ChanGood(a, 4, y)
  <2>1. ~ y.switched => ~ ch.switched
    BY <1>4, <1>6, Zenon
  <2>2. 4 # 3 /\ (~ ch.switched => Awake(ch.lfsr, a.regs.noise.narrow))
    BY <1>1 DEF ChanGood
  <2>3. (y.bit <=> y.enabled) /\ (y.enabled => y.dac /\ a.on)
    BY <1>1, <1>7 DEF ChanGood
  <2> QED
    BY <1>6, <2>1, <2>2, <2>3, Zenon DEF ChanGood
<1>9. PICK b : b = ChanSet(a, 4, y)
  OBVIOUS
<1>10. Healthy(b, fits)
  BY <1>0, <1>1, <1>8, <1>9, ChanSetHealthy
<1>11. b.regs = q /\ b.chan[4] = y /\ b \in Units
  <2>1. b.chan = [a.chan EXCEPT ![4] = y] /\ b.regs = a.regs /\ b \in Units
    BY <1>0, <1>6, <1>9, ChanSetShape
  <2> QED
    BY <1>0, <1>2, <2>1 DEF Units
<1>12. PICK r : r = [q EXCEPT !.noise = v]
  OBVIOUS
<1>13. r \in Registers /\ r.noise = v
  BY <1>3, <1>12 DEF Registers
<1>14. ~ y.switched => v.narrow = q.noise.narrow
  BY <1>3, <1>4, <1>6
<1>15. PICK d : d = RegsSet(b, r)
  OBVIOUS
<1>16. Healthy(d, fits)
  <2>1. 4 \in Channels /\ ~ b.chan[4].switched => r.noise.narrow = b.regs.noise.narrow
    BY <1>11, <1>13, <1>14
  <2> QED
    BY <1>10, <1>13, <1>15, <2>1, RegsSetHealthy
<1>17. Healthy(Au!Synced(d, 4), fits)
  BY <1>0, <1>16, SyncedHealthy
<1>18. apu' = Au!Synced(d, 4) /\ UNCHANGED <<dmg, subject, fits>>
  <2>1. PICK set : set = [apu EXCEPT !.regs.noise = v, !.chan[4].switched = @ \/ v.narrow # apu.regs.noise.narrow]
    OBVIOUS
  <2>2. apu' = Au!Synced(set, 4) /\ UNCHANGED <<dmg, subject, fits>>
    BY <2>1, Zenon DEF Au!WriteNoise
  <2>3. b = [a EXCEPT !.chan[4].switched = sw]
    BY <1>1, <1>5, <1>9, Zenon DEF ChanSet
  <2>4. set = [a EXCEPT !.regs.noise = v, !.chan[4].switched = sw]
    BY <1>1, <1>2, <1>4, <2>1, Zenon
  <2>5. PICK g : g = [a.chan EXCEPT ![4].switched = sw]
    OBVIOUS
  <2>6. b = [a EXCEPT !.chan = g] /\ set = [[a EXCEPT !.regs = r] EXCEPT !.chan = g]
    BY <1>2, <1>12, <2>3, <2>4, <2>5
  <2>7. d = [b EXCEPT !.regs = r]
    BY <1>15 DEF RegsSet
  <2>8. d = set
    BY <2>6, <2>7 DEF Units
  <2> QED
    BY <2>2, <2>8
<1> QED
  BY <1>17, <1>18 DEF SoundInv

(* A byte of the wave.                                                       *)
LEMMA WaveWritten ==
  ASSUME SoundInv, subject = 3, NEW b \in DOMAIN apu.wave, NEW v \in WaveBytes, Au!WriteWave(b, v)
  PROVE  SoundInv'
<1>0. 3 \in Channels
  BY DEF SoundInv
<1>1. PICK a \in Units, ch \in Chans : a = apu /\ ch = a.chan[3] /\ ChanGood(a, 3, ch) /\ Healthy(a, fits)
  <2>1. Healthy(apu, fits)
    BY DEF SoundInv
  <2>2. ChanGood(apu, 3, apu.chan[3]) /\ apu \in Units
    BY <1>0, <2>1, OneChanGood
  <2> QED
    BY <2>1, <2>2 DEF ChanGood
<1>2. PICK W : W = 0 .. (Nibbles \div 2) - 1
  OBVIOUS
<1>3. a.wave \in [W -> WaveBytes] /\ b \in W
  BY <1>1, <1>2 DEF Units
<1>4. PICK played : played = ch.phase \div 2
  OBVIOUS
<1>5. played \in W
  <2>1. PICK h \in Nat \ {0} : Nibbles = 2 * h /\ Nibbles \div 2 = h
    BY WaveSize
  <2>2. PICK p \in Nat : p = ch.phase /\ p < 2 * h
    BY <1>1, <2>1 DEF ChanGood, Chans
  <2>3. PICK two \in Nat \ {0} : two = 2
    OBVIOUS
  <2>4. PICK d \in Nat, e \in 0 .. two - 1 : d = p \div two /\ e = p % two /\ p = two * d + e
    BY Divided
  <2>5. d \in 0 .. h - 1
    BY <2>2, <2>3, <2>4
  <2> QED
    BY <1>2, <1>4, <2>1, <2>2, <2>3, <2>4, <2>5
<1>6. PICK x \in W : x = Au!Visible(b)
  <2>1. Au!Visible(b) = b \/ Au!Visible(b) = played
    BY <1>1, <1>4 DEF Au!Visible, Au!PlayedByte
  <2> QED
    BY <1>3, <1>5, <2>1
<1>7. PICK m : m = [a.wave EXCEPT ![x] = v]
  OBVIOUS
<1>8. m \in [W -> WaveBytes] /\ m[played] = IF x = played THEN v ELSE a.wave[played]
  BY <1>3, <1>5, <1>7
<1>9. PICK st \in BOOLEAN : st = (ch.stale \/ (x = played /\ v # a.wave[played]))
  BY DEF Chans
<1>10. PICK y : y = [ch EXCEPT !.stale = st]
  OBVIOUS
<1>11. y \in Chans /\ y.stale = st /\ y.held = ch.held /\ y.phase = ch.phase
  BY <1>10 DEF Chans
<1>12. y.enabled = ch.enabled /\ y.bit = ch.bit /\ y.dac = ch.dac
  BY <1>10 DEF Chans
<1>13. PICK g : g = [a.chan EXCEPT ![3] = y]
  OBVIOUS
<1>14. PICK u : u = [a EXCEPT !.wave = m, !.chan = g]
  OBVIOUS
<1>15. g \in [Channels -> Chans] /\ g[3] = y /\ \A c \in Channels : c # 3 => g[c] = a.chan[c]
  BY <1>0, <1>11, <1>13 DEF Units
<1>16. u \in Units /\ u.wave = m /\ u.chan = g
  BY <1>2, <1>8, <1>14, <1>15 DEF Units
<1>17. u.on = a.on /\ u.regs = a.regs /\ u.sweep = a.sweep /\ u.pcm = a.pcm
       /\ u.cycles = a.cycles /\ u.sample = a.sample
  BY <1>14 DEF Units
<1>18. /\ \A c \in Channels : ChanGood(a, c, a.chan[c])
       /\ SweepGood(a, fits) /\ QueueGood(a.pcm) /\ a.cycles < SequencerCycles /\ a.sample < SampleCycles
  BY <1>1, ByChannels
<1>19. ASSUME NEW c \in Channels PROVE ChanGood(u, c, u.chan[c])
  <2>1. CASE c = 3
    <3>1. ~ st => ch.held = m[played]
      BY <1>1, <1>4, <1>8, <1>9, ZenonT(120) DEF ChanGood
    <3> QED
      BY <1>1, <1>4, <1>11, <1>12, <1>15, <1>16, <1>17, <2>1, <3>1 DEF ChanGood
  <2>2. CASE c # 3
    BY <1>15, <1>16, <1>17, <1>18, <2>2 DEF ChanGood
  <2> QED
    BY <2>1, <2>2
<1>20. SweepGood(u, fits)
  <2>1. 1 \in Channels => u.chan[1] = a.chan[1]
    BY <1>15, <1>16
  <2> QED
    BY <1>17, <1>18, <2>1 DEF SweepGood
<1>21. Healthy(u, fits)
  BY <1>16, <1>17, <1>18, <1>19, <1>20, ByChannels
<1>22. apu' = u /\ UNCHANGED <<dmg, subject, fits>>
  <2>1. apu' = [apu EXCEPT !.wave[x] = v,
                           !.chan[3].stale = @ \/ (x = apu.chan[3].phase \div 2 /\ v # apu.wave[apu.chan[3].phase \div 2])]
    BY <1>6, Zenon DEF Au!WriteWave, Au!PlayedByte
  <2>2. apu' = [a EXCEPT !.wave[x] = v, !.chan[3].stale = st]
    BY <1>1, <1>4, <1>9, <2>1, Zenon
  <2>3. g = [a.chan EXCEPT ![3].stale = st]
    BY <1>1, <1>10, <1>13, Zenon
  <2>4. u = [a EXCEPT !.wave[x] = v, !.chan[3].stale = st]
    BY <1>7, <1>14, <2>3, Zenon
  <2>5. UNCHANGED <<dmg, subject, fits>>
    BY DEF Au!WriteWave
  <2> QED
    BY <2>2, <2>4, <2>5
<1> QED
  BY <1>21, <1>22 DEF SoundInv

(* The queue set anew.                                                       *)
LEMMA QueueSet ==
  ASSUME NEW a, NEW checked, Healthy(a, checked), NEW p \in Queues, QueueGood(p)
  PROVE  Healthy([a EXCEPT !.pcm = p], checked)
<1>1. a \in Units
  BY DEF Healthy, Sounds
<1>2. PICK b : b = [a EXCEPT !.pcm = p]
  OBVIOUS
<1>3. b \in Units /\ b.pcm = p
  BY <1>1, <1>2 DEF Units
<1>4. b.on = a.on /\ b.wave = a.wave /\ b.chan = a.chan /\ b.regs = a.regs /\ b.sweep = a.sweep
      /\ b.cycles = a.cycles /\ b.sample = a.sample
  BY <1>1, <1>2 DEF Units
<1>5. SwitchGood(b) /\ SweepGood(b, checked) /\ WaveGood(b) /\ NoiseGood(b)
  BY <1>4 DEF Healthy, Sounds, SwitchGood, SweepGood, WaveGood, NoiseGood
<1> QED
  BY <1>2, <1>3, <1>4, <1>5 DEF Healthy, Sounds

(* Frames taken by the host.                                                 *)
LEMMA QueueDrained ==
  ASSUME SoundInv, NEW n \in Nat, Au!Drain(n)
  PROVE  SoundInv'
<1>1. PICK a \in Units, q \in Queues : a = apu /\ Healthy(a, fits) /\ q = a.pcm /\ QueueGood(q)
  BY DEF SoundInv, Healthy, Sounds, Units
<1>2. PICK s \in Seq(Nat), m \in Nat, t \in Nat, g \in Nat :
        s = q.queue /\ m = Len(s) /\ t = q.taken /\ g = q.generated
  BY DEF Queues
<1>3. PICK taken \in 0 .. m : taken = Au!Min({n, m})
  <2>1. \E k \in {n, m} : \A z \in {n, m} : k =< z
    OBVIOUS
  <2>2. Au!Min({n, m}) \in {n, m} /\ \A z \in {n, m} : Au!Min({n, m}) =< z
    BY <2>1, Zenon DEF Au!Min
  <2>3. Au!Min({n, m}) \in 0 .. m
    BY <2>2
  <2> QED
    BY <2>3
<1>4. PICK v \in Seq(Nat) : v = SubSeq(s, taken + 1, m) /\ Len(v) = m - taken /\ Newest(v, g)
  <2>1. Newest(s, g) /\ taken \in 0 .. Len(s)
    BY <1>1, <1>2 DEF QueueGood
  <2>2. /\ SubSeq(s, taken + 1, Len(s)) \in Seq(Nat) /\ Newest(SubSeq(s, taken + 1, Len(s)), g)
        /\ Len(SubSeq(s, taken + 1, Len(s))) = Len(s) - taken
    BY <2>1, NewestKeeps
  <2> QED
    BY <1>2, <2>2
<1>5. PICK e \in Nat : e = t + taken
  OBVIOUS
<1>6. PICK p : p = [q EXCEPT !.queue = v, !.taken = e]
  OBVIOUS
<1>7. p \in Queues /\ p.queue = v /\ p.taken = e
  BY <1>6 DEF Queues
<1>8. p.generated = g /\ p.capacity = q.capacity /\ p.dropped = q.dropped /\ p.cleared = q.cleared
  BY <1>2, <1>6 DEF Queues
<1>9. QueueGood(p)
  <2>1. PICK cap \in Nat, d \in Nat, w \in Nat : cap = q.capacity /\ d = q.dropped /\ w = q.cleared
    BY DEF Queues
  <2>2. m =< cap /\ g = m + t + d + w
    BY <1>1, <1>2, <2>1 DEF QueueGood
  <2>3. m - taken =< cap /\ g = (m - taken) + e + d + w
    BY <1>5, <2>2
  <2> QED
    BY <1>4, <1>7, <1>8, <2>1, <2>3 DEF QueueGood
<1>10. Healthy([a EXCEPT !.pcm = p], fits)
  BY <1>1, <1>7, <1>9, QueueSet
<1>11. apu' = [a EXCEPT !.pcm = p] /\ UNCHANGED <<dmg, subject, fits>>
  <2>1. apu' = [apu EXCEPT !.pcm.queue = SubSeq(@, taken + 1, Len(@)), !.pcm.taken = @ + taken]
        /\ UNCHANGED <<dmg, subject, fits>>
    BY <1>1, <1>2, <1>3, Zenon DEF Au!Drain
  <2>2. p = [q EXCEPT !.queue = SubSeq(@, taken + 1, Len(@)), !.taken = @ + taken]
    BY <1>2, <1>4, <1>5, <1>6, Zenon
  <2> QED
    BY <1>1, <2>1, <2>2, Zenon
<1> QED
  BY <1>10, <1>11 DEF SoundInv

(* A capacity set, with the oldest dropped.                                  *)
LEMMA QueueResized ==
  ASSUME SoundInv, NEW n \in Capacities, Au!Resize(n)
  PROVE  SoundInv'
<1>0. n \in Nat \ {0}
  BY SoundSizes DEF Au!Resize
<1>1. PICK a \in Units, q \in Queues : a = apu /\ Healthy(a, fits) /\ q = a.pcm /\ QueueGood(q)
  BY DEF SoundInv, Healthy, Sounds, Units
<1>2. PICK s \in Seq(Nat), m \in Nat, c \in Nat, g \in Nat :
        s = q.queue /\ m = Len(s) /\ c = q.cleared /\ g = q.generated
  BY DEF Queues
<1>3. PICK lost \in 0 .. m : lost = Au!Max({0, m - n}) /\ m - lost =< n
  <2>1. PICK x \in Int : x = m - n
    BY <1>0
  <2>2. Au!Max({0, x}) = IF 0 >= x THEN 0 ELSE x
    BY Greater
  <2> QED
    BY <1>0, <2>1, <2>2
<1>4. PICK v \in Seq(Nat) : v = SubSeq(s, lost + 1, m) /\ Len(v) = m - lost /\ Newest(v, g)
  <2>1. Newest(s, g) /\ lost \in 0 .. Len(s)
    BY <1>1, <1>2 DEF QueueGood
  <2>2. /\ SubSeq(s, lost + 1, Len(s)) \in Seq(Nat) /\ Newest(SubSeq(s, lost + 1, Len(s)), g)
        /\ Len(SubSeq(s, lost + 1, Len(s))) = Len(s) - lost
    BY <2>1, NewestKeeps
  <2> QED
    BY <1>2, <2>2
<1>5. PICK e \in Nat : e = c + lost
  OBVIOUS
<1>6. PICK p : p = [q EXCEPT !.capacity = n, !.cleared = e, !.queue = v]
  OBVIOUS
<1>7. p \in Queues /\ p.queue = v /\ p.cleared = e /\ p.capacity = n
  BY <1>0, <1>6 DEF Queues
<1>8. p.generated = g /\ p.dropped = q.dropped /\ p.taken = q.taken
  BY <1>2, <1>6 DEF Queues
<1>9. QueueGood(p)
  <2>1. PICK t \in Nat, d \in Nat : t = q.taken /\ d = q.dropped
    BY DEF Queues
  <2>2. g = m + t + d + c
    BY <1>1, <1>2, <2>1 DEF QueueGood
  <2>3. g = (m - lost) + t + d + e
    BY <1>5, <2>2
  <2> QED
    BY <1>3, <1>4, <1>7, <1>8, <2>1, <2>3 DEF QueueGood
<1>10. Healthy([a EXCEPT !.pcm = p], fits)
  BY <1>1, <1>7, <1>9, QueueSet
<1>11. apu' = [a EXCEPT !.pcm = p] /\ UNCHANGED <<dmg, subject, fits>>
  <2>1. apu' = [apu EXCEPT !.pcm.capacity = n, !.pcm.cleared = @ + lost,
                           !.pcm.queue = SubSeq(@, lost + 1, Len(@))]
        /\ UNCHANGED <<dmg, subject, fits>>
    BY <1>1, <1>2, <1>3, Zenon DEF Au!Resize
  <2>2. p = [q EXCEPT !.capacity = n, !.cleared = @ + lost, !.queue = SubSeq(@, lost + 1, Len(@))]
    BY <1>2, <1>4, <1>5, <1>6, Zenon
  <2> QED
    BY <1>1, <2>1, <2>2, Zenon
<1> QED
  BY <1>10, <1>11 DEF SoundInv

-----------------------------------------------------------------------------
(* Power and the start                                                       *)

(* A silent channel is good.                                                 *)
LEMMA SilentShape ==
  /\ Au!Silent \in Chans /\ ~ Au!Silent.enabled /\ ~ Au!Silent.bit /\ Au!Silent.phase = 0
  /\ Au!Silent.stale /\ Au!Silent.lfsr = Au!NoiseOnes
BY SoundSizes, OnesAwake DEF Au!Silent, Chans

LEMMA SilentGood ==
  ASSUME NEW a, NEW c
  PROVE  ChanGood(a, c, Au!Silent)
<1>1. 0 < Nibbles
  <2>1. PICK h \in Nat \ {0} : Nibbles = 2 * h
    BY WaveSize
  <2> QED
    BY <2>1
<1>2. PICK y : y = Au!Silent
  OBVIOUS
<1>3. y \in Chans /\ ~ y.enabled /\ ~ y.bit /\ y.phase = 0 /\ y.stale /\ y.lfsr = Au!NoiseOnes
  BY <1>2, SilentShape
<1>4. ChanGood(a, c, y)
  BY <1>1, <1>3, OnesAwake DEF ChanGood
<1> QED
  BY <1>2, <1>4

(* No sweep and clear registers.                                             *)
LEMMA NoShapes ==
  Au!NoSweep \in SweepStates /\ Au!ClearRegs \in Registers
<1>1. 0 \in Pitches
  <2>1. HighPitches * LowPitches \in Nat \ {0}
    BY SoundSizes
  <2> QED
    BY <2>1 DEF Pitches, Au!MaxPitch
<1>2. Au!NoSweep \in SweepStates
  BY <1>1 DEF Au!NoSweep, SweepStates
<1>3. [divisor |-> MinNoisePeriod, shift |-> 0, narrow |-> FALSE] \in Au!Noises
  BY SoundSizes DEF Au!Noises
<1>4. [volume |-> 0, up |-> FALSE, period |-> 0] \in Au!Envelopes
  BY SoundSizes DEF Au!Envelopes
<1>5. Au!ClearRegs \in Registers
  BY <1>1, <1>3, <1>4 DEF Au!ClearRegs, Registers
<1> QED
  BY <1>2, <1>5

(* What a power-off leaves.                                                  *)
LEMMA ClearedShape ==
  ASSUME NEW a \in Units, QueueGood(a.pcm)
  PROVE  /\ Au!Cleared(a) \in Units
         /\ Au!Cleared(a).chan = [c \in Channels |-> Au!Silent]
         /\ Au!Cleared(a).cycles = 0 /\ Au!Cleared(a).sample = 0
         /\ QueueGood(Au!Cleared(a).pcm)
<1>1. PICK q \in Queues : q = a.pcm /\ QueueGood(q)
  BY DEF Units
<1>2. PICK s \in Seq(Nat), m \in Nat, e \in Nat : s = q.queue /\ m = Len(s) /\ e = q.cleared + m
  BY DEF Queues
<1>a. PICK none \in Seq(Nat) : none = <<>> /\ Len(none) = 0
  <2>1. <<>> \in Seq(Nat)
    OBVIOUS
  <2>2. Len(<<>>) = 0
    OBVIOUS
  <2>3. \E x \in Seq(Nat) : x = <<>>
    BY <2>1, Zenon
  <2> QED
    BY <2>2, <2>3, Zenon
<1>3. PICK p : p = [q EXCEPT !.queue = none, !.cleared = e]
  OBVIOUS
<1>4. p \in Queues /\ p.queue = none /\ p.cleared = e
  BY <1>3 DEF Queues
<1>5. p.generated = q.generated /\ p.capacity = q.capacity /\ p.dropped = q.dropped /\ p.taken = q.taken
  BY <1>3 DEF Queues
<1>6. QueueGood(p)
  <2>1. PICK cap \in Nat, g \in Nat, t \in Nat, d \in Nat, w \in Nat :
          cap = q.capacity /\ g = q.generated /\ t = q.taken /\ d = q.dropped /\ w = q.cleared
    BY DEF Queues
  <2>2. g = m + t + d + w
    BY <1>1, <1>2, <2>1 DEF QueueGood
  <2>a. e = w + m
    BY <1>2, <2>1
  <2>3. g = 0 + t + d + e
    BY <2>a, <2>2
  <2>5. Newest(p.queue, p.generated)
    BY <1>a, <1>4 DEF Newest
  <2> QED
    BY <1>a, <1>4, <1>5, <2>1, <2>3, <2>5 DEF QueueGood
<1>7. PICK g \in [Channels -> Chans] : g = [c \in Channels |-> Au!Silent]
  BY SilentShape
<1>8. PICK b : b = [a EXCEPT !.chan = g, !.sweep = Au!NoSweep, !.regs = Au!ClearRegs,
                             !.cycles = 0, !.step = 0, !.sample = 0, !.pcm = p]
  OBVIOUS
<1>9. Au!Cleared(a) = b
  <2>1. Au!Cleared(a) = [a EXCEPT !.chan = g, !.sweep = Au!NoSweep, !.regs = Au!ClearRegs,
                             !.cycles = 0, !.step = 0, !.sample = 0, !.pcm.queue = <<>>,
                             !.pcm.cleared = @ + Len(a.pcm.queue)]
    BY <1>7, Zenon DEF Au!Cleared
  <2>2. p = [a.pcm EXCEPT !.queue = <<>>, !.cleared = @ + Len(a.pcm.queue)]
    BY <1>1, <1>2, <1>a, <1>3
  <2> QED
    BY <1>8, <2>1, <2>2, Zenon
<1>b. PICK sw \in SweepStates, r \in Registers, zero \in Nat, step \in 0 .. 7 :
         sw = Au!NoSweep /\ r = Au!ClearRegs /\ zero = 0 /\ step = 0
  BY NoShapes
<1>c. b = [a EXCEPT !.chan = g, !.sweep = sw, !.regs = r, !.cycles = zero, !.step = step, !.sample = zero, !.pcm = p]
  BY <1>8, <1>b
<1>d. b \in Units
  BY <1>4, <1>c DEF Units
<1>e. b.chan = g /\ b.cycles = zero /\ b.sample = zero /\ b.pcm = p
  BY <1>c DEF Units
<1>10. b \in Units /\ b.chan = g /\ b.cycles = 0 /\ b.sample = 0 /\ b.pcm = p
  BY <1>b, <1>d, <1>e
<1> QED
  BY <1>6, <1>7, <1>9, <1>10

(* The power switched.                                                       *)
LEMMA PoweredOver ==
  ASSUME SoundInv, Au!Power
  PROVE  SoundInv'
<1>1. PICK a \in Units : a = apu /\ Healthy(a, fits)
  BY DEF SoundInv, Healthy, Sounds
<1>2. /\ \A c \in Channels : ChanGood(a, c, a.chan[c])
      /\ SweepGood(a, fits) /\ QueueGood(a.pcm) /\ a.cycles < SequencerCycles /\ a.sample < SampleCycles
  BY <1>1, ByChannels
<1>3. CASE a.on
  <2>1. PICK b \in Units : b = Au!Cleared(a) /\ QueueGood(b.pcm)
    BY <1>2, ClearedShape
  <2>2. b.chan = [c \in Channels |-> Au!Silent] /\ b.cycles = 0 /\ b.sample = 0
    BY <1>2, <2>1, ClearedShape
  <2>3. PICK u : u = [b EXCEPT !.on = FALSE]
    OBVIOUS
  <2>4. u \in Units /\ u.chan = b.chan /\ u.cycles = b.cycles /\ u.sample = b.sample /\ u.pcm = b.pcm
    BY <2>3 DEF Units
  <2>5. \A c \in Channels : u.chan[c] = Au!Silent
    BY <2>2, <2>4
  <2>6. \A c \in Channels : ChanGood(u, c, u.chan[c])
    BY <2>5, SilentGood
  <2>7. SweepGood(u, FALSE)
    BY DEF SweepGood
  <2>a. u.cycles < SequencerCycles /\ u.sample < SampleCycles
    BY <2>2, <2>4, SoundSizes
  <2>b. QueueGood(u.pcm)
    BY <2>1, <2>4
  <2>8. Healthy(u, FALSE)
    BY <2>4, <2>6, <2>7, <2>a, <2>b, ByChannels
  <2>9. apu' = u /\ fits' = FALSE /\ UNCHANGED <<dmg, subject>>
    BY <1>1, <1>3, <2>1, <2>3, Zenon DEF Au!Power
  <2> QED
    BY <2>8, <2>9 DEF SoundInv
<1>4. CASE ~ a.on
  <2>1. PICK u : u = [a EXCEPT !.on = TRUE]
    OBVIOUS
  <2>2. u \in Units /\ u.chan = a.chan /\ u.wave = a.wave /\ u.regs = a.regs /\ u.sweep = a.sweep
    BY <2>1 DEF Units
  <2>3. u.on /\ u.pcm = a.pcm /\ u.cycles = a.cycles /\ u.sample = a.sample
    BY <2>1 DEF Units
  <2>4. \A c \in Channels : ChanGood(u, c, u.chan[c])
    BY <1>2, <1>4, <2>2, <2>3 DEF ChanGood
  <2>5. SweepGood(u, fits)
    BY <1>2, <2>2 DEF SweepGood
  <2>6. Healthy(u, fits)
    BY <1>2, <2>2, <2>3, <2>4, <2>5, ByChannels
  <2>7. apu' = u /\ fits' = (fits /\ ~ apu.on) /\ UNCHANGED <<dmg, subject>>
    BY <1>1, <1>4, <2>1, Zenon DEF Au!Power
  <2>8. PICK checked : checked = (fits /\ ~ apu.on)
    OBVIOUS
  <2>9. Healthy(u, checked)
    BY <2>6, <2>8, Unchecked
  <2> QED
    BY <2>7, <2>8, <2>9 DEF SoundInv
<1> QED
  BY <1>3, <1>4

(* The registers the boot ROM leaves.                                        *)
LEMMA BootShape == Au!BootRegs \in Registers
<1>1. PICK m \in Nat : m = Au!MaxPitch /\ Pitches = 0 .. m
  <2>1. HighPitches * LowPitches \in Nat \ {0}
    BY SoundSizes
  <2>2. Au!MaxPitch \in Nat
    BY <2>1 DEF Au!MaxPitch
  <2> QED
    BY <2>2 DEF Pitches
<1>2. PICK d \in Nat : d = m - (LowPitches \div 4) /\ d =< m
  <2>1. PICK l \in Nat \ {0}, h \in Nat \ {0} : l = LowPitches /\ h = HighPitches
    BY SoundSizes
  <2>2. PICK four \in Nat \ {0} : four = 4
    OBVIOUS
  <2>3. PICK q \in Nat, r \in 0 .. four - 1 : q = l \div four /\ r = l % four /\ l = four * q + r
    BY Divided
  <2>4. q =< l - 1
    BY <2>2, <2>3
  <2>5. l - 1 =< m
    <3>1. PICK k \in Nat : h = k + 1
      <4>1. h - 1 \in Nat /\ h = (h - 1) + 1
        OBVIOUS
      <4> QED
        BY <4>1
    <3>2. PICK x \in Nat : x = k * l
      OBVIOUS
    <3>3. h * l = x + l
      BY <3>1, <3>2
    <3> QED
      BY <1>1, <2>1, <3>2, <3>3 DEF Au!MaxPitch
  <2>6. m - q \in Nat /\ m - q =< m
    BY <2>4, <2>5
  <2> QED
    BY <2>1, <2>2, <2>3, <2>6
<1>3. \A c \in Channels : c = 1 \/ c = 2 \/ c = 3 \/ c = 4
  BY SoundSizes
<1>4. PICK p \in [Channels -> Pitches] : p = [c \in Channels |-> CASE c = 1 -> Au!MaxPitch
                                  [] c = 2 -> Au!MaxPitch - (LowPitches \div 4)
                                  [] c = 3 -> Au!MaxPitch - (LowPitches \div 4)
                                  [] c = 4 -> 0]
  <2>1. m \in Pitches /\ d \in Pitches /\ 0 \in Pitches
    BY <1>1, <1>2
  <2>2. \A c \in Channels : (CASE c = 1 -> m [] c = 2 -> d [] c = 3 -> d [] c = 4 -> 0) \in Pitches
    BY <1>3, <2>1
  <2> QED
    BY <1>1, <1>2, <2>2
<1>5. PICK e \in [Channels -> Au!Envelopes] :
        e = [c \in Channels |-> CASE c = 1 -> [volume |-> MaxVolume, up |-> FALSE, period |-> BootPace]
                                [] c = 2 -> [volume |-> MaxVolume, up |-> TRUE, period |-> BootPace]
                                [] c = 3 -> [volume |-> 0, up |-> FALSE, period |-> 0]
                                [] c = 4 -> [volume |-> MaxVolume, up |-> TRUE, period |-> BootPace]]
  <2>1. /\ [volume |-> MaxVolume, up |-> FALSE, period |-> BootPace] \in Au!Envelopes
        /\ [volume |-> MaxVolume, up |-> TRUE, period |-> BootPace] \in Au!Envelopes
        /\ [volume |-> 0, up |-> FALSE, period |-> 0] \in Au!Envelopes
    BY SoundSizes DEF Au!Envelopes
  <2>2. PICK x \in Au!Envelopes, y \in Au!Envelopes, z \in Au!Envelopes :
          /\ x = [volume |-> MaxVolume, up |-> FALSE, period |-> BootPace]
          /\ y = [volume |-> MaxVolume, up |-> TRUE, period |-> BootPace]
          /\ z = [volume |-> 0, up |-> FALSE, period |-> 0]
    BY <2>1
  <2>3. PICK f : f = [c \in Channels |-> CASE c = 1 -> x [] c = 2 -> y [] c = 3 -> z [] c = 4 -> y]
    OBVIOUS
  <2>4. f \in [Channels -> Au!Envelopes]
    BY <1>3, <2>3
  <2> QED
    BY <2>2, <2>3, <2>4, Zenon
<1>6. PICK l \in [Channels -> BOOLEAN] : l = [c \in Channels |-> c # 1]
  OBVIOUS
<1>7. Au!BootRegs = [pitch |-> p, lengthOn |-> l, noise |-> BootNoise, env |-> e]
  BY <1>4, <1>5, <1>6, Zenon DEF Au!BootRegs
<1> QED
  BY <1>7, SoundSizes DEF Registers

(* The queue begins empty.                                                   *)
LEMMA EmptyShape == Au!EmptyQueue \in Queues /\ QueueGood(Au!EmptyQueue)
<1>1. PICK m \in Capacities \ {0} : \A n \in Capacities : n =< m
  BY ApuAssumption DEF Au!ApuParameters
<1>2. PICK cap : cap = Au!Max(Capacities)
  OBVIOUS
<1>3. cap \in Nat \ {0}
  <2>1. \A n \in Capacities : n \in Nat
    BY SoundSizes
  <2>2. \E x \in Capacities : \A y \in Capacities : x >= y
    BY <1>1, <2>1
  <2>3. cap \in Capacities /\ \A y \in Capacities : cap >= y
    BY <1>2, <2>2, Zenon DEF Au!Max
  <2>4. m \in Capacities
    BY <1>1
  <2> QED
    BY <2>1, <2>3, <2>4
<1>4. <<>> \in Seq(Nat) /\ Len(<<>>) = 0
  OBVIOUS
<1>5. Newest(<<>>, 0)
  BY <1>4 DEF Newest
<1>6. PICK none \in Seq(Nat) : none = <<>> /\ Len(none) = 0 /\ Newest(none, 0)
  <2>1. <<>> \in Seq(Nat)
    OBVIOUS
  <2>2. \E x \in Seq(Nat) : x = <<>>
    BY <2>1, Zenon
  <2> QED
    BY <1>4, <1>5, <2>2, Zenon
<1>7. PICK q : q = [queue |-> none, capacity |-> cap, generated |-> 0, dropped |-> 0, taken |-> 0, cleared |-> 0]
  OBVIOUS
<1>8. q \in Queues
  BY <1>3, <1>7 DEF Queues
<1>9. QueueGood(q)
  BY <1>3, <1>6, <1>7 DEF QueueGood
<1>10. Au!EmptyQueue = q
  BY <1>2, <1>6, <1>7, Zenon DEF Au!EmptyQueue
<1> QED
  BY <1>8, <1>9, <1>10

(* A unit begins healthy.                                                    *)
LEMMA SoundStarts == Au!Init => SoundInv
<1> SUFFICES ASSUME Au!Init PROVE SoundInv
  OBVIOUS
<1>1. PICK silent \in [Channels -> Chans], sw \in SweepStates, r \in Registers, q \in Queues :
        silent = [c \in Channels |-> Au!Silent] /\ sw = Au!NoSweep /\ r = Au!ClearRegs /\ q = Au!EmptyQueue
  BY SilentShape, NoShapes, EmptyShape
<1>2. PICK wave \in [0 .. (Nibbles \div 2) - 1 -> WaveBytes] : wave = Au!SilentWave
  BY SoundSizes DEF Au!SilentWave
<1>3. PICK old : old = [on |-> TRUE, chan |-> silent, sweep |-> sw, regs |-> r, cycles |-> 0, step |-> 0,
                        sample |-> 0, wave |-> wave, pcm |-> q]
  OBVIOUS
<1>4. old \in Units /\ old.pcm = q
  BY <1>3 DEF Units
<1>5. apu = Au!PostBoot(old) /\ fits = FALSE /\ dmg \in BOOLEAN /\ subject \in Channels \union {0}
  BY <1>1, <1>2, <1>3, Zenon DEF Au!Init
<1>6. PICK b \in Units : b = Au!Cleared(old) /\ QueueGood(b.pcm) /\ b.cycles = 0 /\ b.sample = 0
  BY <1>1, <1>4, EmptyShape, ClearedShape
<1>7. PICK first : first = [Au!Silent EXCEPT !.enabled = TRUE, !.bit = TRUE, !.dac = TRUE]
  OBVIOUS
<1>8. first \in Chans /\ first.enabled /\ first.bit /\ first.dac
  <2>1. PICK x \in Chans : x = Au!Silent
    BY SilentShape
  <2> QED
    BY <1>7, <2>1 DEF Chans
<1>9. PICK g : g = [c \in Channels |-> IF c = 1 /\ dmg THEN first ELSE Au!Silent]
  OBVIOUS
<1>10. g \in [Channels -> Chans]
  BY <1>8, <1>9, SilentShape
<1>11. PICK boot \in Registers : boot = Au!BootRegs
  BY BootShape
<1>12. PICK u : u = [b EXCEPT !.on = TRUE, !.regs = boot, !.chan = g]
  OBVIOUS
<1>13. u \in Units /\ u.on /\ u.chan = g
  BY <1>10, <1>12 DEF Units
<1>14. u.pcm = b.pcm /\ u.cycles = b.cycles /\ u.sample = b.sample
  BY <1>12 DEF Units
<1>15. ASSUME NEW c \in Channels PROVE ChanGood(u, c, u.chan[c])
  <2>1. CASE c = 1 /\ dmg
    <3>1. u.chan[c] = first
      BY <1>9, <1>13, <2>1
    <3> QED
      BY <1>8, <1>13, <2>1, <3>1 DEF ChanGood
  <2>2. CASE ~ (c = 1 /\ dmg)
    <3>1. u.chan[c] = Au!Silent
      BY <1>9, <1>13, <2>2
    <3> QED
      BY <3>1, SilentGood
  <2> QED
    BY <2>1, <2>2
<1>16. SweepGood(u, FALSE)
  BY DEF SweepGood
<1>17. u.cycles < SequencerCycles /\ u.sample < SampleCycles /\ QueueGood(u.pcm)
  BY <1>6, <1>14, SoundSizes
<1>18. Healthy(u, FALSE)
  BY <1>13, <1>15, <1>16, <1>17, ByChannels
<1>19. Au!PostBoot(old) = u
  BY <1>6, <1>7, <1>9, <1>11, <1>12, Zenon DEF Au!PostBoot
<1> QED
  BY <1>5, <1>18, <1>19 DEF SoundInv

(* Every step keeps it so.                                                   *)
LEMMA SoundGoesOn == SoundInv /\ [Au!Next]_(Au!vars) => SoundInv'
<1> SUFFICES ASSUME SoundInv, [Au!Next]_(Au!vars) PROVE SoundInv'
  OBVIOUS
<1>1. CASE UNCHANGED Au!vars
  BY <1>1 DEF SoundInv, Au!vars, Healthy, Sounds, SwitchGood, SweepGood, WaveGood, NoiseGood, QueueGood
<1>2. ASSUME NEW n \in TickSizes, Au!Tick(n) PROVE SoundInv'
  <2>1. n \in Nat /\ Healthy(apu, fits)
    BY SoundSizes DEF SoundInv
  <2>2. PICK a, checked : a = apu /\ checked = fits
    OBVIOUS
  <2>3. Healthy(Au!Ticked(a, n), checked)
    BY <2>1, <2>2, TickedHealthy
  <2>4. apu' = Au!Ticked(a, n) /\ fits' = checked /\ UNCHANGED <<dmg, subject>>
    BY <1>2, <2>2 DEF Au!Tick
  <2> QED
    BY <2>3, <2>4 DEF SoundInv
<1>3. \A c \in {subject} \ {0} : c \in Channels
  BY DEF SoundInv
<1>4. ASSUME NEW c \in {subject} \ {0},
             \/ \E n \in Au!Lengths : Au!WriteLength(c, n)
             \/ \E v \in EnvelopeWrites : Au!WriteEnvelope(c, v)
             \/ \E low \in 0 .. LowPitches - 1 : Au!WritePitch(c, low)
             \/ \E high \in 0 .. HighPitches - 1, l, t \in BOOLEAN : Au!WriteControl(c, high, l, t)
      PROVE  SoundInv'
  BY <1>3, <1>4, LengthWritten, EnvelopeWritten, PitchWritten, ControlWritten
<1>5. ASSUME subject = 0, \E n \in 1 .. MaxFrames : Au!Drain(n) PROVE SoundInv'
  <2>1. PICK n \in Nat : Au!Drain(n)
    BY <1>5
  <2> QED
    BY <2>1, QueueDrained
<1> QED
  BY <1>1, <1>2, <1>4, <1>5, SweepWritten, WaveDacWritten, WaveWritten, NoiseWritten, QueueResized,
     PoweredOver DEF Au!Next

(* What is healthy keeps what the unit promises.                             *)
LEMMA SoundIsRight ==
  SoundInv => Au!SwitchesAgree /\ Au!SweepFits /\ Au!PiecesAgree
              /\ Au!SampleIsCurrent /\ Au!NoiseSounds /\ Au!QueueIsNewest
<1> SUFFICES ASSUME SoundInv
             PROVE  Au!SwitchesAgree /\ Au!SweepFits /\ Au!PiecesAgree
                    /\ Au!SampleIsCurrent /\ Au!NoiseSounds /\ Au!QueueIsNewest
  OBVIOUS
<1>1. /\ Healthy(apu, fits) /\ apu \in Units /\ SwitchGood(apu) /\ SweepGood(apu, fits)
      /\ WaveGood(apu) /\ NoiseGood(apu) /\ QueueGood(apu.pcm)
  BY DEF SoundInv, Healthy, Sounds
<1>2. Au!SwitchesAgree
  <2>1. \A c \in Channels : apu.chan[c].bit \in BOOLEAN /\ apu.chan[c].enabled \in BOOLEAN
    BY <1>1 DEF Units, Chans
  <2> QED
    BY <1>1, <2>1 DEF SwitchGood, Au!SwitchesAgree
<1>3. Au!SweepFits
  BY <1>1 DEF SweepGood, Au!SweepFits
<1>4. Au!PiecesAgree
  <2>1. PICK a, checked : a = apu /\ checked = fits
    OBVIOUS
  <2>2. \A n \in 1 .. SequencerCycles : n \in Nat
    BY SoundSizes
  <2>3. \A n \in 1 .. SequencerCycles : Au!Ticked(Au!Ticked(a, 1), n) = Au!Ticked(a, n + 1)
    BY <1>1, <2>1, <2>2, PiecesOfTime
  <2> QED
    BY <2>1, <2>3 DEF Au!PiecesAgree
<1>5. Au!SampleIsCurrent
  BY <1>1 DEF WaveGood, Au!SampleIsCurrent, Au!ReadWave, Au!Visible, Au!PlayedByte
<1>6. Au!NoiseSounds
  BY <1>1 DEF NoiseGood, Awake, Au!NoiseSounds
<1>7. Au!QueueIsNewest
  <2>1. PICK q \in Queues : q = apu.pcm /\ QueueGood(q)
    BY <1>1 DEF Units
  <2>2. PICK s \in Seq(Nat) : s = q.queue /\ DOMAIN s = 1 .. Len(s)
    BY DEF Queues
  <2>3. Len(s) =< q.capacity /\ q.generated = Len(s) + q.taken + q.dropped + q.cleared
    BY <2>1, <2>2 DEF QueueGood
  <2>4. \A i \in DOMAIN s : s[i] = (q.generated - Len(s)) + i
    BY <2>1, <2>2 DEF QueueGood, Newest
  <2> QED
    BY <2>1, <2>2, <2>3, <2>4 DEF Au!QueueIsNewest
<1> QED
  BY <1>2, <1>3, <1>4, <1>5, <1>6, <1>7

(* It is healthy always.                                                     *)
LEMMA SoundStays == Au!Spec => []SoundInv
BY SoundStarts, SoundGoesOn, PTL DEF Au!Spec

-----------------------------------------------------------------------------
(* The machine's clock hands its cycles to every device, and none touches    *)
(* another's registers: a run of them all is a run of each.                  *)
LEMMA EachDeviceRuns == MCSpec => Tm!Spec /\ Fc!Spec /\ Sr!Spec /\ Au!Spec
<1>1. MCInit => Tm!Init /\ Fc!Init /\ Sr!Init /\ Au!Init
  BY DEF MCInit
<1>2. [MCNext]_allVars => [Tm!Next]_(Tm!vars)
  BY DEF MCNext, allVars, DmaStep, TimerStep, FrameStep, SerialStep, SoundStep, NotDma,
         NotFrame, NotSerial, Tm!vars, timerVars
<1>3. [MCNext]_allVars => [Fc!Next]_(Fc!vars)
  BY DEF MCNext, allVars, DmaStep, TimerStep, FrameStep, SerialStep, SoundStep, NotDma,
         NotFrame, NotSerial, Fc!vars, frameVars
<1>4. [MCNext]_allVars => [Sr!Next]_(Sr!vars)
  BY DEF MCNext, allVars, DmaStep, TimerStep, FrameStep, SerialStep, SoundStep, NotDma,
         NotFrame, NotSerial, Sr!vars, serialVars
<1>5. [MCNext]_allVars => [Au!Next]_(Au!vars)
  BY DEF MCNext, allVars, DmaStep, TimerStep, FrameStep, SerialStep, SoundStep, NotDma,
         NotFrame, NotSerial, Au!vars, apuVars
<1> QED
  BY <1>1, <1>2, <1>3, <1>4, <1>5, PTL DEF MCSpec, Tm!Spec, Fc!Spec, Sr!Spec, Au!Spec

(* TIMA's reload comes a fixed number of cycles after its overflow, and      *)
(* TIMA reads zero until then, whatever the program writes to the other      *)
(* three registers in the window (timer.rs, tick and the writes).            *)
THEOREM ReloadIsPunctual == MCSpec => []ReloadWindow
<1>1. Tm!TypeOK /\ Tm!ReloadWindow => ReloadWindow
  BY DEF ReloadWindow
<1> QED
  BY <1>1, EachDeviceRuns, TimerReloads, PTL

(* The two ticks bring the timer to the same registers and say the same of   *)
(* the interrupt from every state the program can reach; the interrupt comes *)
(* with the reload and never without, and TIMA counts whole periods of the   *)
(* selected bit (timer.rs, tick and tick_fast).                              *)
THEOREM InterruptsAndPeriods == MCSpec => TimerIsRight
  BY EachDeviceRuns, TimerTicksAgree, TimerCounts, PTL DEF TimerIsRight

(* With the LCD on the nominal frame is the picture's, through transitions,  *)
(* speed switches and stalls (lib.rs, advance_clocks and run_frame).         *)
THEOREM FramesFollowThePicture == MCSpec => []PhaseIsPosition
<1>1. Fc!PhaseIsPosition => PhaseIsPosition
  BY DEF PhaseIsPosition
<1> QED
  BY <1>1, EachDeviceRuns, PhaseFollows, PTL

(* A byte takes its eight bit times however the clock cuts them, and never   *)
(* ends silently (serial.rs, tick and clock_external_byte).                  *)
THEOREM BytesKeepTime == MCSpec => BytesLeaveInTime
  BY EachDeviceRuns, SerialKeepsTime, PTL DEF BytesLeaveInTime

(* The sound unit keeps its word through every register write, power switch, *)
(* drain and tick: the status bits tell which channels play, and none plays  *)
(* on a converter that is off; a checked sweep fits its registers; a cycle   *)
(* and n more leave what n + 1 at once leave; the wave channel plays the     *)
(* byte of its place; the noise register never falls asleep; and the queue   *)
(* holds the newest frames in order, every other one accounted for (apu.rs,  *)
(* write, tick, process_timed_chunk, trigger_channel and enqueue_pcm_frame). *)
THEOREM SoundKeepsItsWord == MCSpec => []SoundAgrees
<1>1. SoundInv => SoundAgrees
  BY SoundIsRight DEF SoundAgrees
<1> QED
  BY <1>1, EachDeviceRuns, SoundStays, PTL
=============================================================================
