------------------------------ MODULE Cartridge ------------------------------
(***************************************************************************)
(* The bank registers of the cartridge controllers, the external RAM behind *)
(* them and the flag that tells the host there is something to save.  The   *)
(* clocks of MBC3 and HuC3, the EEPROM of MBC7 and the flash chip of MBC6   *)
(* have modules of their own.                                               *)
(* RAM is one byte per bank; a control write is a real address with a real  *)
(* value, so that every range and mask of the code counts.  A device behind *)
(* A000 (infrared port, camera, clock) is one register.                     *)
(***************************************************************************)
EXTENDS Integers

CONSTANTS Kinds,        \* the controllers of the run
          SavedKinds,   \* those of which the host takes a save state (a bound)
          RamBanks,     \* RAM banks on the cartridge
          Bytes,        \* bytes a game writes to A000
          ControlWrites,\* pairs <<address, value>> it writes below 8000
          CaptureTicks  \* how long the camera works, in calls of tick

VARIABLES kind,      \* Cartridge.mbc: which controller
          reg,       \* its registers
          ram,       \* Cartridge.ram
          dirty,     \* Cartridge.battery_dirty
          stored,    \* the RAM image the host last saved or loaded
          snapshot,  \* a save state: the cartridge as it was
          foreign    \* RAM holds bytes of a save state or beyond a short file

vars == <<kind, reg, ram, dirty, stored, snapshot, foreign>>

Banks == 0 .. RamBanks - 1
\* A cartridge with RAM has a bank of it.
RamParameters == RamBanks \in Nat \ {0}
Family1 == {"Mbc1", "Mmm01", "HuC1"}
Low(v, n) == v % (2 ^ n)
Bit(v, n) == (v \div (2 ^ n)) % 2 = 1
NotZero(n) == IF n = 0 THEN 1 ELSE n

Reset == [rom |-> 1, high |-> 0, ramBank |-> 0, enabled |-> FALSE, mode |-> 0,
          selected |-> FALSE, device |-> 0, capture |-> 0, active |-> FALSE]

(***************************************************************************)
(* The banks the windows show.                                              *)
(***************************************************************************)

\* the label of the bank in the window at 4000 (before the wrap by ROM size)
RomBank(k, r) ==
    CASE k \in Family1            -> r.rom + 32 * r.high
      [] k \in {"Mbc2", "Mbc3"}   -> NotZero(r.rom)
      [] k = "Tama5"              -> NotZero(Low(r.rom, 7))
      [] k \in {"Mbc5", "Rumble"} -> r.rom + 256 * r.high
      [] k \in {"Camera", "HuC3"} -> r.rom
      [] OTHER                    -> 1
\* the label of the bank in the window at 0000
LowerBank(k, r) == IF k \in Family1 /\ r.mode = 1 THEN 32 * r.high ELSE 0

RamBank(k, r) ==
    CASE k \in {"RomOnly", "Mbc2", "Tama5"} -> 0
      [] k \in Family1             -> IF r.mode = 0 THEN 0 ELSE r.ramBank
      [] k \in {"Mbc3", "HuC3"}    -> Low(r.ramBank, 2)
      [] OTHER                     -> r.ramBank
\* the selector wraps over the banks there are
Cell(k, r) == RamBank(k, r) % RamBanks

(***************************************************************************)
(* What answers at A000: the RAM, a device register, or nothing.            *)
(***************************************************************************)

DeviceAnswers(k, r) ==
    \/ k \in {"HuC1", "Camera"} /\ r.selected
    \/ k = "Mbc3" /\ r.enabled /\ r.ramBank \in 8 .. 12
    \/ k = "HuC3" /\ r.mode \notin {0, 10}
    \/ k = "Tama5" /\ r.enabled
RamReads(k, r) ==
    /\ ~DeviceAnswers(k, r)
    /\ \/ k = "RomOnly"
       \/ k = "HuC3"
       \/ k = "Camera" /\ ~r.active
       \/ k \notin {"RomOnly", "HuC3", "Camera", "Tama5"} /\ r.enabled
\* Mutant of RamTakesWrites: the camera does not refuse bytes while it works
RamTakesWritesInCapture(k, r) ==
    /\ RamReads(k, r) \/ (k = "Camera" /\ ~r.selected)
    /\ k = "Camera" => r.enabled
    /\ k = "HuC3" => r.mode = 10
RamTakesWrites(k, r) ==
    /\ RamReads(k, r)
    /\ k = "Camera" => r.enabled
    /\ k = "HuC3" => r.mode = 10

\* MBC2 has four bits per cell
Kept(k, v) == IF k = "Mbc2" THEN Low(v, 4) ELSE v
\* what the game reads at A000 when the RAM holds m
Visible(k, r, m) ==
    CASE DeviceAnswers(k, r) /\ k = "Camera" -> <<r.device, r.active>>
      [] DeviceAnswers(k, r) /\ k # "Camera" -> <<r.device>>
      [] RamReads(k, r)                      -> <<m[Cell(k, r)]>>
      [] OTHER                               -> <<"open">>

(***************************************************************************)
(* Writes to the control registers.                                         *)
(***************************************************************************)

\* the register that selects the bank at 4000, masked as each controller does
RomSelect(k, v) ==
    CASE k \in Family1 -> NotZero(Low(v, 5))
      [] k = "Mbc2"    -> NotZero(Low(v, 4))
      [] k \in {"Mbc3", "Tama5"} -> NotZero(Low(v, 7))
      [] k = "HuC3"    -> Low(v, 7)
      [] k = "Camera"  -> Low(v, 6)
      [] OTHER         -> v

RamEnabled(r, v) == [r EXCEPT !.enabled = Low(v, 4) = 10]
Mbc1Written(k, r, addr, v) ==
    CASE addr < 8192  -> RamEnabled(r, v)
      [] addr \in 8192 .. 16383  -> [r EXCEPT !.rom = RomSelect(k, v)]
      [] addr \in 16384 .. 24575 -> [r EXCEPT !.high = Low(v, 2), !.ramBank = Low(v, 2)]
      [] OTHER -> [r EXCEPT !.mode = v % 2]
\* HuC1 has MBC1 inside, and turns RAM off only for its infrared port
HuC1Written(r, addr, v) ==
    IF addr < 8192 THEN [r EXCEPT !.selected = Low(v, 4) = 14, !.enabled = Low(v, 4) # 14]
    ELSE Mbc1Written("HuC1", r, addr, v)
\* MBC2 tells its two registers apart by bit 8 of the address
Mbc2Written(r, addr, v) ==
    CASE addr < 16384 /\ ~Bit(addr, 8) -> RamEnabled(r, v)
      [] addr < 16384 /\ Bit(addr, 8)  -> [r EXCEPT !.rom = RomSelect("Mbc2", v)]
      [] OTHER                         -> r
Mbc3Written(r, addr, v) ==
    CASE addr < 8192  -> RamEnabled(r, v)
      [] addr \in 8192 .. 16383  -> [r EXCEPT !.rom = RomSelect("Mbc3", v)]
      [] addr \in 16384 .. 24575 -> [r EXCEPT !.ramBank = v]
      [] OTHER -> r
Mbc5Written(rumble, r, addr, v) ==
    CASE addr < 8192  -> RamEnabled(r, v)
      [] addr \in 8192 .. 12287  -> [r EXCEPT !.rom = v]
      [] addr \in 12288 .. 16383 -> [r EXCEPT !.high = v % 2]
      [] addr \in 16384 .. 24575 -> [r EXCEPT !.active = rumble /\ Bit(v, 3),
                                             !.ramBank = Low(v, IF rumble THEN 3 ELSE 4)]
      [] OTHER -> r
CameraWritten(r, addr, v) ==
    CASE addr < 8192  -> RamEnabled(r, v)
      [] addr \in 8192 .. 16383  -> [r EXCEPT !.rom = RomSelect("Camera", v)]
      [] addr \in 16384 .. 24575 -> [r EXCEPT !.selected = Bit(v, 4), !.ramBank = Low(v, 4)]
      [] OTHER -> r
HuC3Written(r, addr, v) ==
    CASE addr < 8192  -> [r EXCEPT !.mode = Low(v, 4)]
      [] addr \in 8192 .. 16383  -> [r EXCEPT !.rom = RomSelect("HuC3", v)]
      [] addr \in 16384 .. 24575 -> [r EXCEPT !.ramBank = Low(v, 4)]
      [] OTHER -> r
Tama5Control(r, addr, v) ==
    CASE addr < 8192  -> RamEnabled(r, v)
      [] addr \in 8192 .. 16383  -> [r EXCEPT !.rom = RomSelect("Tama5", v)]
      [] addr \in 16384 .. 24575 -> [r EXCEPT !.ramBank = Low(v, 5)]
      [] OTHER -> r
\* Cartridge::write_mbc: the registers after a write below 8000
ControlWritten(k, r, addr, v) ==
    CASE k = "RomOnly" -> r
      [] k \in {"Mbc1", "Mmm01"}  -> Mbc1Written(k, r, addr, v)
      [] k = "HuC1"   -> HuC1Written(r, addr, v)
      [] k = "Mbc2"   -> Mbc2Written(r, addr, v)
      [] k = "Mbc3"   -> Mbc3Written(r, addr, v)
      [] k \in {"Mbc5", "Rumble"} -> Mbc5Written(k = "Rumble", r, addr, v)
      [] k = "Camera" -> CameraWritten(r, addr, v)
      [] k = "HuC3"   -> HuC3Written(r, addr, v)
      [] k = "Tama5"  -> Tama5Control(r, addr, v)

\* the register file of Tama5: its first two registers are the ROM bank
Tama5Written(r, v) ==
    CASE r.ramBank = 0 -> [r EXCEPT !.rom = 16 * ((@ \div 16) % 8) + Low(v, 4)]
      [] r.ramBank = 1 -> [r EXCEPT !.rom = 16 * Low(v, 3) + Low(@, 4)]
      [] OTHER         -> [r EXCEPT !.device = v]
\* a write to the device behind A000; a capture that was broken off goes on
\* with the time it had left
DeviceWritten(k, r, v) ==
    CASE k = "Camera" ->
           [r EXCEPT !.device  = Low(v, 3),
                     !.active  = Bit(v, 0),
                     !.capture = IF Bit(v, 0) /\ @ = 0 THEN CaptureTicks ELSE @]
      [] k = "HuC1" \/ (k = "HuC3" /\ r.mode = 14) -> [r EXCEPT !.device = v % 2]
      [] k = "Tama5" -> Tama5Written(r, v)
      [] k = "Mbc3"  -> [r EXCEPT !.device = v]
      [] OTHER      -> r

(***************************************************************************)
(* The steps.                                                               *)
(***************************************************************************)

Init ==
    /\ kind \in Kinds
    /\ reg = Reset
    /\ ram = [b \in Banks |-> 0]
    /\ dirty = FALSE
    /\ stored = ram
    /\ snapshot = [reg |-> reg, ram |-> ram, dirty |-> dirty]
    /\ foreign = FALSE

Control(addr, v) ==
    /\ reg' = ControlWritten(kind, reg, addr, v)
    /\ UNCHANGED <<kind, ram, dirty, stored, snapshot, foreign>>

\* Cartridge::write_ram: it compares what the game would read before and after
WriteRam(v) ==
    /\ reg' = IF DeviceAnswers(kind, reg) THEN DeviceWritten(kind, reg, v) ELSE reg
    /\ ram' = IF RamTakesWrites(kind, reg)
              THEN [ram EXCEPT ![Cell(kind, reg)] = Kept(kind, v)] ELSE ram
    /\ dirty' = (dirty \/ Visible(kind, reg, ram) # Visible(kind, reg', ram'))
    /\ UNCHANGED <<kind, stored, snapshot, foreign>>

\* PocketCamera::tick; the controllers of this module have no other time
Tick ==
    /\ kind = "Camera" /\ reg.active
    /\ reg' = [reg EXCEPT !.capture = IF @ = 0 THEN 0 ELSE @ - 1,
                          !.active  = reg.capture > 1,
                          !.device  = IF reg.capture > 1 THEN @ ELSE 2 * (@ \div 2)]
    /\ UNCHANGED <<kind, ram, dirty, stored, snapshot, foreign>>

\* the host writes battery_save_bytes to its file and calls mark_battery_save_clean
HostSaves ==
    /\ stored' = ram
    /\ dirty' = FALSE
    /\ foreign' = FALSE
    /\ UNCHANGED <<kind, reg, ram, snapshot>>

\* load_battery_save_bytes with a file of n banks: the rest of the RAM stays
HostLoads(n) ==
    /\ ram' = [b \in Banks |-> IF b < n THEN stored[b] ELSE ram[b]]
    /\ dirty' = FALSE
    /\ foreign' = (n < RamBanks)
    /\ UNCHANGED <<kind, reg, stored, snapshot>>

\* a save state keeps the whole cartridge, the flag too
TakeState ==
    /\ kind \in SavedKinds
    /\ snapshot' = [reg |-> reg, ram |-> ram, dirty |-> dirty]
    /\ UNCHANGED <<kind, reg, ram, dirty, stored, foreign>>
LoadState ==
    /\ kind \in SavedKinds
    /\ reg' = snapshot.reg
    /\ ram' = snapshot.ram
    /\ dirty' = snapshot.dirty
    /\ foreign' = TRUE
    /\ UNCHANGED <<kind, stored, snapshot>>

Next ==
    \/ \E w \in ControlWrites : Control(w[1], w[2])
    \/ \E v \in Bytes : WriteRam(v)
    \/ Tick
    \/ HostSaves
    \/ \E n \in {RamBanks - 1, RamBanks} : HostLoads(n)
    \/ TakeState
    \/ LoadState

Spec == Init /\ [][Next]_vars

(***************************************************************************)
(* Properties.                                                              *)
(***************************************************************************)

\* No byte a game stored is lost: as long as the RAM holds only what the game
\* wrote, a RAM that differs from the host's file is reported as dirty,
\* although write_ram looks at one visible byte and not at the RAM.
SaveIsKept == ram # stored => dirty \/ foreign

=============================================================================
