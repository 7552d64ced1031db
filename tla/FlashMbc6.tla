------------------------------ MODULE FlashMbc6 ------------------------------
(***************************************************************************)
(* The flash chip of an MBC6 cartridge.  A game reaches it through a ROM    *)
(* window; the chip changes nothing before it has seen an unlock sequence,  *)
(* and sector 0 and the hidden region only while writes are enabled.        *)
(* A sector is one byte, erased or programmed; the two unlock addresses are *)
(* in sector 0.                                                             *)
(***************************************************************************)
EXTENDS Integers, Sequences

CONSTANTS FlashWrites, \* pairs <<address, value>> a game writes to the window
          Windows,     \* the ROM windows a game uses for flash (a bound)
          MaxWrites,   \* bound: writes to the chip between two resets
          NoiseWrites  \* bound: of the writes that belong to no command, one, of these

VARIABLES sector,     \* flash_data: what the two sectors hold
          hidden,     \* hidden_flash
          protected,  \* flash_sector0_protected
          writeOn,    \* flash_write_enabled
          flashOn,    \* flash_enabled
          windows,    \* the ROM windows that show flash (rom_bank_*_flash)
          mode,       \* the flash_*_mode flags that are set
          history,    \* command_history: the last six writes
          trail,      \* history: all writes since a reset, the bytes programmed too
          noise       \* history: there was a write that belongs to no command

vars == <<sector, hidden, protected, writeOn, flashOn, windows, mode, history, trail, noise>>
chip == <<sector, hidden, protected>>

Unlock1 == "5555"
Unlock2 == "2AAA"
SectorOf(a) == IF a = "far" THEN 1 ELSE 0

\* the commands of the chip, by their name
Unlock == <<<<Unlock1, 170>>, <<Unlock2, 85>>>>
Long(setup, last) == Unlock \o <<<<Unlock1, setup>>>> \o Unlock \o <<last>>
EraseSector == {Long(128, <<a, 48>>) : a \in {Unlock1, Unlock2, "near", "far"}}
Pattern ==
    [id      |-> {Unlock \o <<<<Unlock1, 144>>>>},
     program |-> {Unlock \o <<<<Unlock1, 160>>>>},
     programHidden |-> {Long(96, <<Unlock1, 224>>)},
     showHidden    |-> {Long(96, <<Unlock1, 119>>)},
     eraseHidden   |-> {Long(96, <<Unlock1, 4>>)},
     unprotect     |-> {Long(96, <<Unlock1, 64>>)},
     protect       |-> {Long(96, <<Unlock1, 32>>)},
     eraseChip     |-> {Long(128, <<Unlock1, 16>>)},
     eraseSector   |-> EraseSector]

EndsIn(s, p) == Len(s) >= Len(p) /\ SubSeq(s, Len(s) - Len(p) + 1, Len(s)) = p
\* matches_tail and matches_history_slice over all the commands
Matched(s, name) == \E p \in Pattern[name] : EndsIn(s, p)
LastOf(n, s) == IF Len(s) > n THEN SubSeq(s, Len(s) - n + 1, Len(s)) ELSE s
Prefixes ==
    UNION {{SubSeq(p, 1, i) : i \in 1 .. Len(p)} :
             p \in UNION {Pattern[name] : name \in DOMAIN Pattern}}

(***************************************************************************)
(* What a command does.                                                     *)
(***************************************************************************)

SectorZeroOpen == ~protected /\ writeOn
\* erase_chip and erase_sector_containing
Erased(sectors) ==
    [s \in {0, 1} |-> IF s \in sectors /\ (s = 1 \/ SectorZeroOpen) THEN "erased" ELSE sector[s]]
Status == (mode \ {"program", "programHidden"}) \union {"status"}

\* the byte after a program command; flash bits only go down
Programs(a, v) ==
    /\ sector' = IF v # 255 /\ (SectorOf(a) = 1 \/ SectorZeroOpen)
                 THEN [sector EXCEPT ![SectorOf(a)] = "programmed"] ELSE sector
    /\ UNCHANGED <<hidden, protected>>
ProgramsHidden(v) ==
    /\ hidden' = IF v # 255 /\ writeOn THEN "programmed" ELSE hidden
    /\ UNCHANGED <<sector, protected>>

\* Mutant of ModeAfter: a chip that has answered a command stays in its mode
ModeAfterSticky(name) ==
    CASE name = "id"      -> (mode \ {"hidden", "status"}) \union {"id"}
      [] name = "program" -> {"program"}
      [] name = "programHidden" -> IF writeOn THEN {"programHidden"} ELSE {}
      [] name = "showHidden"    -> {"hidden"}
      [] name = "byte" -> mode \union {"status"}
      [] OTHER -> Status
\* the flags a command leaves set
ModeAfter(name) ==
    CASE name = "id"      -> (mode \ {"hidden", "status"}) \union {"id"}
      [] name = "program" -> {"program"}
      [] name = "programHidden" -> IF writeOn THEN {"programHidden"} ELSE {}
      [] name = "showHidden"    -> {"hidden"}
      [] OTHER -> Status

Executes(name, a) ==
    /\ mode' = ModeAfter(name)
    /\ sector' = CASE name = "eraseChip"   -> Erased({0, 1})
                   [] name = "eraseSector" -> Erased({SectorOf(a)})
                   [] OTHER -> sector
    /\ hidden' = IF name = "eraseHidden" /\ writeOn THEN "erased" ELSE hidden
    /\ protected' = IF name \in {"protect", "unprotect"} /\ writeOn
                    THEN name = "protect" ELSE protected

(***************************************************************************)
(* The steps.                                                               *)
(***************************************************************************)

Init ==
    /\ sector = [s \in {0, 1} |-> "erased"] /\ hidden = "erased" /\ protected = FALSE
    /\ writeOn = FALSE /\ flashOn = FALSE /\ windows = {}
    /\ mode = {} /\ history = <<>>
    /\ trail = <<>> /\ noise = FALSE

ExitModes == mode' = {} /\ history' = <<>> /\ trail' = <<>> /\ noise' = FALSE

\* Mbc6::write to the registers: leaving flash forgets what was begun
FlashEnable(v) ==
    /\ flashOn' = v
    /\ IF v THEN UNCHANGED <<mode, history, trail, noise>> ELSE ExitModes
    /\ UNCHANGED <<chip, writeOn, windows>>
WriteEnable(v) ==
    writeOn' = v /\ UNCHANGED <<chip, flashOn, windows, mode, history, trail, noise>>
ShowFlash(w, v) ==
    /\ windows' = IF v THEN windows \union {w} ELSE windows \ {w}
    /\ UNCHANGED <<chip, writeOn, flashOn, mode, history, trail, noise>>

\* write_flash with F0
ResetChip ==
    flashOn /\ windows # {} /\ ExitModes /\ UNCHANGED <<chip, writeOn, flashOn, windows>>

\* write_flash: a byte to program is not part of the command history
DataByte(a, v) ==
    /\ mode \intersect {"program", "programHidden"} # {}
    /\ IF "programHidden" \in mode THEN ProgramsHidden(v) ELSE Programs(a, v)
    /\ mode' = ModeAfter("byte")
    /\ UNCHANGED <<history, noise>>
CommandByte(a, v) ==
    LET h == LastOf(6, Append(history, <<a, v>>))
        commands == {name \in DOMAIN Pattern : Matched(h, name)}
    IN
    /\ mode \intersect {"program", "programHidden"} = {}
    /\ history' = h
    /\ IF \E i \in 1 .. Len(h) : SubSeq(h, i, Len(h)) \in Prefixes
       THEN noise' = noise
       ELSE ~noise /\ <<a, v>> \in NoiseWrites /\ noise' = TRUE
    /\ \/ \E name \in commands : Executes(name, a)
       \/ commands = {} /\ UNCHANGED <<chip, mode>>
FlashWrite(a, v) ==
    /\ flashOn /\ windows # {} /\ Len(trail) < MaxWrites
    /\ DataByte(a, v) \/ CommandByte(a, v)
    /\ trail' = Append(trail, <<a, v>>)
    /\ UNCHANGED <<writeOn, flashOn, windows>>

Next ==
    \/ \E v \in BOOLEAN : FlashEnable(v) \/ WriteEnable(v)
    \/ \E w \in Windows, v \in BOOLEAN : ShowFlash(w, v)
    \/ ResetChip
    \/ \E w \in FlashWrites : FlashWrite(w[1], w[2])

Spec == Init /\ [][Next]_vars

(***************************************************************************)
(* Properties.                                                              *)
(***************************************************************************)

Before(s) == SubSeq(s, 1, Len(s) - 1)
ChangedBy(names, byte) ==
    \E name \in names : IF byte THEN Matched(Before(trail'), name) ELSE Matched(trail', name)

\* The chip changes only as the last write of a whole, unbroken command, one
\* byte for each program command, whatever registers the game writes between;
\* and sector 0, the hidden region and the protection only while writes are on.
FlashFollowsCommands ==
    [][/\ sector' # sector =>
            ChangedBy({"program"}, TRUE) \/ ChangedBy({"eraseChip", "eraseSector"}, FALSE)
       /\ sector'[0] # sector[0] => ~protected /\ writeOn
       /\ hidden' # hidden =>
            writeOn /\ (ChangedBy({"programHidden"}, TRUE) \/ ChangedBy({"eraseHidden"}, FALSE))
       /\ protected' # protected =>
            writeOn /\ ChangedBy({"protect", "unprotect"}, FALSE)]_vars
=============================================================================
