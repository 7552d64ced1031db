-------------------------------- MODULE Bus --------------------------------
(***************************************************************************)
(* The bus of one machine (kokura-core lib.rs peek8, read8, write8, the    *)
(* DMA gates, memory.rs, the loading of ROMs and states): banked memory    *)
(* behind its windows and echoes, the flat image kept beside it, palettes  *)
(* behind index registers, device registers, and who may reach what when.  *)
(* One address stands for every window, echo and kind of register.         *)
(***************************************************************************)
EXTENDS Integers, Sequences

CONSTANTS
  Data,            \* bytes the program stores
  SwitchedBanks,   \* WRAM banks that SVBK selects: 1 .. SwitchedBanks
  PaletteSize,     \* bytes of a palette memory
  Programs,        \* sets of addresses that a program reaches
  Carts,           \* what a cartridge says of colour: of "no", "yes", "only"
  MaxAccesses      \* bus accesses of a step

BusParameters ==
  /\ Data \subseteq 0 .. 254 /\ SwitchedBanks \in Nat \ {0} /\ PaletteSize \in Nat \ {0}
  /\ Carts \subseteq {"no", "yes", "only"} /\ MaxAccesses \in Nat

VARIABLES
  reach,           \* the addresses of the program that runs
  cgb, cart,       \* mode; the cartridge: [colour, bank, ram]
  mem,             \* Memory: [flat, vram, wram, vbk, svbk, palettes]
  io,              \* device registers
  display,         \* the display's mode, or "off"
  dma,             \* OAM DMA: [active, source]
  trace,           \* bank switches of this step, as the observers see them
  accesses,        \* accesses of this step
  stored,          \* history: what was last stored in each cell
  since            \* history: the banks when the step began

vars == <<reach, cgb, cart, mem, io, display, dma, trace, accesses, stored, since>>

Open == 255
Vram == {"8000"}
Wram == {"C000", "D000", "DE00", "E000", "F000"}
Rom == {"0000"}
CartRam == {"A000"}
Oam == {"FE00"}
High == {"FF80"}
Windows == Vram \cup Wram
Memories == Windows \cup CartRam \cup Oam \cup High
BankRegisters == {"FF4F", "FF70"}
PaletteRegisters == {"FF68", "FF69", "FF6A", "FF6B"}
Mirrored == {"FF01", "FF51"}            \* a store reaches the flat image too
Stored == {"FF05", "FF47", "FFFF"}      \* a store is kept as it is
Peripherals == Mirrored \cup Stored \cup {"FF04", "FF0F", "FF44", "FF76"}
Displays == {"off", "hblank", "vblank", "search", "transfer"}

-----------------------------------------------------------------------------
(* Memory *)

(* Mutant of ActiveWramBank. *)
RawWramBank(m) == m.svbk

ActiveWramBank(m) == IF m.svbk = 0 THEN 1 ELSE m.svbk

(* The window whose echo an address is. *)
Echoed(a) == IF a = "E000" THEN "C000" ELSE IF a = "F000" THEN "D000" ELSE a

Bank(m, a) == IF Echoed(a) = "C000" THEN 0 ELSE ActiveWramBank(m)
Offset(a) == IF a = "DE00" THEN "high" ELSE "low"

ReadRam(m, a) ==
  IF a \in Vram THEN m.vram[m.vbk]
  ELSE IF a \in Wram THEN m.wram[Bank(m, a)][Offset(a)]
  ELSE m.flat[a]

(* The flat image follows in the window and its echo. *)
WriteWram(m, a, v) ==
  LET shown == {b \in Wram : Echoed(b) = Echoed(a)}
  IN [m EXCEPT !.wram[Bank(m, a)][Offset(a)] = v,
               !.flat = [b \in DOMAIN m.flat |-> IF b \in shown THEN v ELSE m.flat[b]]]

WriteRam(m, a, v) ==
  IF a \in Vram THEN [m EXCEPT !.vram[m.vbk] = v, !.flat[a] = v]
  ELSE IF a \in Wram THEN WriteWram(m, a, v)
  ELSE [m EXCEPT !.flat[a] = v]

RefreshVramWindow(m) == [m EXCEPT !.flat["8000"] = m.vram[m.vbk]]
RefreshWramWindow(m) ==
  [m EXCEPT !.flat = [b \in DOMAIN m.flat |-> IF b \in Wram THEN ReadRam(m, b) ELSE m.flat[b]]]

SetVbk(m, v) == RefreshVramWindow([m EXCEPT !.vbk = v % 2])
SetSvbk(m, v) == RefreshWramWindow([m EXCEPT !.svbk = v % (SwitchedBanks + 1)])

(* A palette memory behind its index: [index, auto, ram]. *)
SetIndex(p, i, auto) == [p EXCEPT !.index = i % PaletteSize, !.auto = auto]

(* The index moves on behind a blocked store as well. *)
WritePalette(p, v, blocked) ==
  [p EXCEPT !.ram[p.index] = IF blocked THEN @ ELSE v,
            !.index = IF p.auto THEN (@ + 1) % PaletteSize ELSE @]

ReadPalette(p, blocked) == IF blocked THEN Open ELSE p.ram[p.index]

PowerOn ==
  [flat |-> [a \in Windows \cup Oam \cup High \cup Mirrored |-> 0],
   vram |-> [b \in 0 .. 1 |-> 0],
   wram |-> [b \in 0 .. SwitchedBanks |-> [o \in {"low", "high"} |-> 0]],
   vbk |-> 0, svbk |-> 1,
   palettes |-> [k \in {"bg", "obj"} |->
     [index |-> 0, auto |-> FALSE,
      ram |-> [i \in 0 .. PaletteSize - 1 |-> IF k = "bg" THEN Open ELSE 0]]]]

-----------------------------------------------------------------------------
(* Gates *)

VramOpen == display # "transfer"
OamOpen == display \in {"off", "hblank", "vblank"} /\ ~ dma.active
PaletteBlocked == cgb /\ display = "transfer"

CartBus == Rom \cup CartRam
BusOf(a) == IF a \in CartBus THEN CartBus ELSE IF a \in Vram THEN Vram
          ELSE IF a \in {"C000", "D000", "DE00"} THEN Wram ELSE {}

(* DMG leaves high RAM alone, CGB only the buses that are not the source's. *)
DmaBlocks(a) ==
  dma.active /\ IF cgb THEN a \in BusOf(dma.source) \cup Oam ELSE a \notin High

(* record_diagnostic_event *)
ReportsOf(a) ==
  (IF DmaBlocks(a) THEN {"dma"} ELSE {})
  \cup (IF a \in Vram /\ ~ VramOpen THEN {"vram"} ELSE {})
  \cup (IF a \in Oam /\ ~ OamOpen THEN {"oam"} ELSE {})

Lets(a) == ~ DmaBlocks(a) /\ (a \in Vram => VramOpen) /\ (a \in Oam => OamOpen)

-----------------------------------------------------------------------------
(* Reads *)

PaletteOf(a) == IF a \in {"FF68", "FF69"} THEN "bg" ELSE "obj"

ReadColour(a) ==
  LET p == mem.palettes[PaletteOf(a)]
  IN CASE ~ cgb -> Open
       [] a = "FF4F" -> 254 + mem.vbk
       [] a = "FF70" -> 248 + mem.svbk
       [] a \in {"FF68", "FF6A"} -> p.index + IF p.auto THEN 128 ELSE 0
       [] OTHER -> ReadPalette(p, PaletteBlocked)

(* peek8 *)
Peek(a) ==
  IF ~ Lets(a) THEN Open
  ELSE IF a \in Rom THEN cart.bank
  ELSE IF a \in CartRam THEN cart.ram
  ELSE IF a \in BankRegisters \cup PaletteRegisters THEN ReadColour(a)
  ELSE IF a = "FF0F" THEN 224 + (io[a] % 32)
  ELSE IF a = "FF76" /\ ~ cgb THEN Open
  ELSE IF a \in Peripherals THEN io[a]
  ELSE ReadRam(mem, a)

(* read8_for_dma: no gates, and memory as it is kept. *)
ReadForDma(a) ==
  IF a \in Rom THEN cart.bank ELSE IF a \in CartRam THEN cart.ram ELSE ReadRam(mem, a)

-----------------------------------------------------------------------------
(* Writes *)

Noted(event) == trace' = Append(trace, event)
Access == accesses < MaxAccesses /\ accesses' = accesses + 1
StoredAt(cell, v) == stored' = [stored EXCEPT ![cell] = v]

(* The cell that an address means, in the banks last chosen. *)
CellOf(a) == CASE a \in Vram -> <<"vram", stored[<<"VBK">>]>>
               [] a \in {"C000", "E000"} -> <<"wram", 0, "low">>
               [] a \in {"D000", "F000"} -> <<"wram", stored[<<"SVBK">>], "low">>
               [] a = "DE00" -> <<"wram", stored[<<"SVBK">>], "high">>
               [] OTHER -> <<a>>

WriteMemory(a, v) ==
  /\ IF a \in CartRam THEN cart' = [cart EXCEPT !.ram = v] /\ UNCHANGED mem
     ELSE mem' = WriteRam(mem, a, v) /\ UNCHANGED cart
  /\ StoredAt(CellOf(a), v)
  /\ UNCHANGED <<io, dma, trace>>

WriteMapper(v) ==
  /\ cart' = [cart EXCEPT !.bank = v]
  /\ IF v # cart.bank THEN Noted([of |-> "rom", to |-> v]) ELSE UNCHANGED trace
  /\ UNCHANGED <<mem, io, dma, stored>>

WriteBank(a, v) ==
  /\ cgb
  /\ mem' = IF a = "FF4F" THEN SetVbk(mem, v) ELSE SetSvbk(mem, v)
  /\ Noted(IF a = "FF4F" THEN [of |-> "vram", to |-> mem'.vbk]
           ELSE [of |-> "wram", to |-> ActiveWramBank(mem')])
  /\ IF a = "FF4F" THEN StoredAt(<<"VBK">>, v % 2)
     ELSE StoredAt(<<"SVBK">>, IF v = 0 THEN 1 ELSE v)
  /\ UNCHANGED <<cart, io, dma>>

WritePaletteIndex(a, i, auto) ==
  /\ cgb
  /\ mem' = [mem EXCEPT !.palettes[PaletteOf(a)] = SetIndex(@, i, auto)]
  /\ UNCHANGED <<cart, io, dma, trace, stored>>

WritePaletteData(a, v) ==
  LET p == mem.palettes[PaletteOf(a)]
  IN
  /\ cgb
  /\ mem' = [mem EXCEPT !.palettes[PaletteOf(a)] = WritePalette(@, v, PaletteBlocked)]
  /\ IF PaletteBlocked THEN UNCHANGED stored
     ELSE StoredAt(<<PaletteOf(a), p.index>>, v)
  /\ UNCHANGED <<cart, io, dma, trace>>

WriteDevice(a, v) ==
  /\ io' = IF a \in {"FF44", "FF76"} THEN io
           ELSE [io EXCEPT ![a] = IF a = "FF04" THEN 0 ELSE IF a = "FF0F" THEN v % 32 ELSE v]
  /\ mem' = IF a \in Mirrored THEN WriteRam(mem, a, v) ELSE mem
  /\ UNCHANGED <<cart, dma, trace, stored>>

(* FF46 with the page of an address; it reads back the page. *)
StartDma(source) ==
  /\ dma' = [active |-> TRUE, source |-> source]
  /\ UNCHANGED <<cart, mem, io, trace, stored>>

Refused(a) == ~ Lets(a) \/ (a \in BankRegisters \cup PaletteRegisters /\ ~ cgb)

(* write8 *)
Write(a) ==
  /\ Access
  /\ \/ Refused(a) /\ UNCHANGED <<cart, mem, io, dma, trace, stored>>
     \/ /\ ~ Refused(a)
        /\ \/ a \in Memories /\ \E v \in Data : WriteMemory(a, v)
           \/ a \in Rom /\ \E v \in Data : WriteMapper(v)
           \/ a \in BankRegisters /\ \E v \in 0 .. SwitchedBanks : WriteBank(a, v)
           \/ /\ a \in {"FF68", "FF6A"}
              /\ \E i \in 0 .. PaletteSize - 1, auto \in BOOLEAN : WritePaletteIndex(a, i, auto)
           \/ a \in {"FF69", "FF6B"} /\ \E v \in Data : WritePaletteData(a, v)
           \/ a \in Peripherals /\ \E v \in Data : WriteDevice(a, v)
           \/ a = "FF46" /\ \E source \in (Rom \cup Memories) \cap (reach \cup {"E000"}) : StartDma(source)
  /\ UNCHANGED <<reach, cgb, display, since>>

-----------------------------------------------------------------------------
(* Time, engines and hosts *)

Banks == [rom |-> cart.bank, vram |-> mem.vbk, wram |-> ActiveWramBank(mem)]
Quiet == trace' = <<>> /\ accesses' = 0 /\ since' = Banks'

(* finish_step: observations are drained, devices and the display move. *)
FinishStep ==
  /\ \E d \in Displays : display' = d
  /\ UNCHANGED <<reach, cgb, cart, mem, io, dma, stored>>
  /\ Quiet

Untouched == UNCHANGED <<reach, cgb, cart, io, display, trace, accesses, since>>

(* A byte of an OAM DMA, the last one or not. *)
DmaByte ==
  /\ dma.active
  /\ mem' = WriteRam(mem, "FE00", ReadForDma(dma.source))
  /\ StoredAt(<<"FE00">>, ReadForDma(dma.source))
  /\ \E more \in BOOLEAN : dma' = [dma EXCEPT !.active = more]
  /\ Untouched

(* A byte of HDMA goes to the bank that VBK selects. *)
HdmaByte(source) ==
  /\ cgb
  /\ mem' = WriteRam(mem, "8000", ReadForDma(source))
  /\ StoredAt(CellOf("8000"), ReadForDma(source))
  /\ UNCHANGED dma /\ Untouched

(* sync_core_memory: mirrors are brought up to date in the copy. *)
Synced(m) == [m EXCEPT !.flat = [a \in DOMAIN m.flat |-> IF a \in Mirrored THEN io[a] ELSE m.flat[a]]]

(* from_machine *)
Captured == [cgb |-> cgb, cart |-> cart, mem |-> Synced(mem), io |-> io, display |-> display,
             dma |-> dma]

(* apply_to: observations are dropped. *)
Restored(s) ==
  /\ cgb' = s.cgb /\ cart' = s.cart /\ mem' = s.mem /\ io' = s.io
  /\ display' = s.display /\ dma' = s.dma
  /\ Quiet

(* What can be wrong with a file: its magic, its version, the version of   *)
(* the payload, the ROM its header names, the ROM of the machine.          *)
Flaws == {"magic", "version", "payload", "header", "machine"}

SaveAndLoad(flaws) ==
  /\ flaws = {}
  /\ Restored(Captured)
  /\ UNCHANGED <<reach, stored>>

(* initialize_cgb_compatibility_palettes: every byte through the index,    *)
(* which is back at the first one behind the last.                         *)
Compatible(m) ==
  [m EXCEPT !.palettes = [k \in {"bg", "obj"} |->
     [index |-> 0, auto |-> FALSE, ram |-> [i \in 0 .. PaletteSize - 1 |-> (i % 2) + 1]]]]

PostBoot == [a \in Peripherals |-> IF a = "FF0F" THEN 1 ELSE IF a = "FF47" THEN 252 ELSE 0]

CellNames ==
  ({"vram"} \X (0 .. 1)) \cup ({"wram"} \X (0 .. SwitchedBanks) \X {"low", "high"})
  \cup {<<a>> : a \in CartRam \cup Oam \cup High \cup {"VBK", "SVBK"}}
  \cup ({"bg", "obj"} \X (0 .. PaletteSize - 1))

(* Every cell with what it holds at first. *)
Cells(m) ==
  [c \in CellNames |-> CASE c[1] = "SVBK" -> 1
                         [] c[1] \in {"bg", "obj"} -> m.palettes[c[1]].ram[c[2]]
                         [] OTHER -> 0]

(* A cartridge of some colour under a mode asked for, if it can run so. *)
Runs(colour, forced) == ~ (forced = "dmg" /\ colour = "only")
Colour(colour, forced) == forced = "cgb" \/ (forced = "none" /\ colour # "no")
Booted(colour, forced) ==
  IF Colour(colour, forced) /\ colour = "no" THEN Compatible(PowerOn) ELSE PowerOn

Init ==
  /\ reach \in Programs
  /\ \E colour \in Carts, forced \in {"none", "dmg", "cgb"} :
       /\ Runs(colour, forced)
       /\ cgb = Colour(colour, forced)
       /\ cart = [colour |-> colour, bank |-> 1, ram |-> 0]
       /\ mem = Booted(colour, forced)
  /\ io = PostBoot /\ display = "search" /\ dma = [active |-> FALSE, source |-> "0000"]
  /\ trace = <<>> /\ accesses = 0
  /\ stored = Cells(mem) /\ since = Banks

(* load_rom_with_mode: a machine started anew, unless the ROM is refused. *)
LoadRom(colour, forced) ==
  /\ Runs(colour, forced)
  /\ cgb' = Colour(colour, forced)
  /\ cart' = [colour |-> colour, bank |-> 1, ram |-> 0]
  /\ mem' = Booted(colour, forced)
  /\ io' = PostBoot /\ display' = "search" /\ dma' = [active |-> FALSE, source |-> "0000"]
  /\ stored' = Cells(mem') /\ Quiet
  /\ UNCHANGED reach

Next ==
  \/ \E a \in reach : Write(a)
  \/ \E a \in reach \cap (Rom \cup Memories) : HdmaByte(a)
  \/ FinishStep \/ DmaByte
  \/ \E flaws \in {{}} \cup {{f} : f \in Flaws} : SaveAndLoad(flaws)
  \/ \E colour \in Carts, forced \in {"none", "dmg", "cgb"} : LoadRom(colour, forced)

Spec == Init /\ [][Next]_vars

-----------------------------------------------------------------------------
(* Whoever is let through reads what was last stored in the cell meant by  *)
(* the address, past echoes, bank switches, transfers, palettes and loads. *)
ReadsWhatWasStored ==
  /\ \A a \in Memories : Lets(a) => Peek(a) = stored[CellOf(a)]
  /\ \A k \in {"bg", "obj"}, i \in 0 .. PaletteSize - 1 :
       mem.palettes[k].ram[i] = stored[<<k, i>>]

(* The flat image shows the banks that are selected, in both echoes too.   *)
FlatIsBanked == \A a \in Windows : mem.flat[a] = ReadRam(mem, a)

LastTold(kind, i) ==
  /\ trace[i].of = kind
  /\ \A j \in i + 1 .. Len(trace) : trace[j].of # kind

(* The switches observed in a step lead from the banks it began with to    *)
(* the banks it ends with.                                                 *)
TraceExplainsBanks ==
  \A kind \in DOMAIN Banks :
    \/ \E i \in DOMAIN trace : LastTold(kind, i) /\ trace[i].to = Banks[kind]
    \/ (\A i \in DOMAIN trace : trace[i].of # kind) /\ Banks[kind] = since[kind]

(* One memory: reads, the flat image and the switches observed agree, an   *)
(* access is reported exactly when it is refused, and a DMG machine stays  *)
(* in its only banks (lib.rs:771, 880, 954, memory.rs).                    *)
MemoryIsOne ==
  /\ ReadsWhatWasStored /\ FlatIsBanked /\ TraceExplainsBanks
  /\ \A a \in Memories \cup Rom : (ReportsOf(a) = {}) = Lets(a)
  /\ ~ cgb => mem.vbk = 0 /\ ActiveWramBank(mem) = 1
=============================================================================
