---------------------------- MODULE MC_Cartridge ----------------------------
(***************************************************************************)
(* Five machines side by side, one of them at work in a behavior: the bank  *)
(* registers and RAM, the two clocks, the EEPROM and the flash chip.        *)
(***************************************************************************)
EXTENDS FlashMbc6

CONSTANTS Kinds, SavedKinds, RamBanks, Bytes, ControlWrites, CaptureTicks,
          AddressBits, WordBits, MaxSent,
          SecondsPerMinute, MinutesPerHour, HoursPerDay, DayCount, RegisterBytes, MaxNow,
          SecondsInMinute, MinutesInDay, Base, MaxSeconds, MaxPokes, Arguments, Cells

VARIABLES part,
          kind, reg, ram, dirty, stored, snapshot, foreign,
          now, last, live, latched, latch, enabled, slot, ideal3,
          time, seen, sub, memory, access, ideal, pokes,
          words, writable, eepromMode, shift, address, output, pins, gates, tilt, sent

ramVars == <<kind, reg, ram, dirty, stored, snapshot, foreign>>
rtc3Vars == <<now, last, live, latched, latch, enabled, slot, ideal3>>
rtcHVars == <<time, seen, sub, memory, access, ideal, pokes>>
eepromVars == <<words, writable, eepromMode, shift, address, output, pins, gates, tilt, sent>>

MCControlWrites ==
    {<<0, 0>>, <<0, 10>>, <<0, 14>>, <<8448, 32>>, <<8448, 2>>, <<12288, 1>>,
     <<16384, 0>>, <<16384, 1>>, <<16384, 8>>, <<16384, 16>>, <<24576, 0>>, <<24576, 1>>}
MCNoiseWrites == {<<Unlock1, 170>>, <<"far", 0>>, <<Unlock1, 16>>}
MCFlashWrites ==
    {<<Unlock1, v>> : v \in {170, 144, 160, 96, 128, 224, 119, 4, 64, 32, 16, 48}}
    \union {<<Unlock2, 85>>, <<"far", 48>>, <<"far", 0>>, <<"near", 0>>}

Ram == INSTANCE Cartridge
ASSUME RamAssumption == Ram!RamParameters
Rtc3 == INSTANCE RtcMbc3 WITH ideal <- ideal3
ASSUME Rtc3Assumption == Rtc3!Rtc3Parameters
RtcH == INSTANCE RtcHuC3
ASSUME RtcHAssumption == RtcH!RtcHParameters
Eeprom == INSTANCE EepromMbc7 WITH mode <- eepromMode
ASSUME EepromAssumption == Eeprom!EepromParameters

MCInit ==
    /\ part \in {"ram", "rtc3", "rtcH", "eeprom", "flash"}
    /\ Ram!Init /\ (part # "ram" => kind = "RomOnly")
    /\ Rtc3!Init /\ RtcH!Init /\ Eeprom!Init /\ Init

MCNext ==
    \/ part = "ram" /\ Ram!Next
       /\ UNCHANGED <<part, rtc3Vars, rtcHVars, eepromVars, vars>>
    \/ part = "rtc3" /\ Rtc3!Next
       /\ UNCHANGED <<part, ramVars, rtcHVars, eepromVars, vars>>
    \/ part = "rtcH" /\ RtcH!NextHuC3
       /\ UNCHANGED <<part, ramVars, rtc3Vars, eepromVars, vars>>
    \/ part = "eeprom" /\ Eeprom!Next
       /\ UNCHANGED <<part, ramVars, rtc3Vars, rtcHVars, vars>>
    \/ part = "flash" /\ Next
       /\ UNCHANGED <<part, ramVars, rtc3Vars, rtcHVars, eepromVars>>

MCSpec == MCInit /\ [][MCNext]_<<part, ramVars, rtc3Vars, rtcHVars, eepromVars, vars>>

(***************************************************************************)
(* The properties of the parts, stated in their modules.                    *)
(***************************************************************************)

\* Cartridge: what a game stored is never lost unreported.
SaveIsKept == Ram!SaveIsKept
\* RtcMbc3 and RtcHuC3: the clocks show what a clock driven every second shows.
ClocksKeepTime == Rtc3!ClockKeepsTime /\ RtcH!ClockAndEventKeepTime
\* EepromMbc7 and FlashMbc6: the memories follow the commands given to them.
MemoriesFollowCommands == Eeprom!FollowsCommands /\ FlashFollowsCommands
=============================================================================
