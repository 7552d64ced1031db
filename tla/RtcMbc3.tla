------------------------------- MODULE RtcMbc3 -------------------------------
(***************************************************************************)
(* The clock of an MBC3 cartridge.  It counts nothing by itself: every call *)
(* that touches the mapper first asks the host for the time and carries all *)
(* the seconds since the last call through the registers at once.           *)
(***************************************************************************)
EXTENDS Integers

CONSTANTS SecondsPerMinute, MinutesPerHour, HoursPerDay, DayCount,
          RegisterBytes, \* bytes a game writes to a clock register
          MaxNow         \* bound: the last host second

\* a unit has a first and a last value; a register takes any byte
Rtc3Parameters ==
    /\ {SecondsPerMinute, MinutesPerHour, HoursPerDay, DayCount} \subseteq Nat \ {0}
    /\ RegisterBytes \subseteq Nat

VARIABLES now,      \* the host's clock in seconds; it may be set back
          last,     \* rtc_last_timestamp_secs
          live,     \* rtc_registers
          latched,  \* rtc_latched_registers
          latch,    \* latch_value
          enabled,  \* ram_enabled
          slot,     \* ram_bank when it names a clock register, "ram" otherwise
          ideal     \* history: the registers of a clock driven every second

vars == <<now, last, live, latched, latch, enabled, slot, ideal>>

Slots == {"second", "minute", "hour", "day", "control"}
Midnight == [second |-> 0, minute |-> 0, hour |-> 0, day |-> 0,
             halted |-> FALSE, carry |-> FALSE]

(***************************************************************************)
(* Pure arithmetic.                                                         *)
(***************************************************************************)

\* advance_rtc_seconds: n seconds at once.  The days of the code are eight
\* bits and the low bit of the control register; the carry stays set
Advanced(r, n) ==
    LET seconds == r.second + n
        minutes == r.minute + seconds \div SecondsPerMinute
        hours   == r.hour + minutes \div MinutesPerHour
        days    == r.day + hours \div HoursPerDay
    IN  [r EXCEPT !.second = seconds % SecondsPerMinute,
                  !.minute = minutes % MinutesPerHour,
                  !.hour   = hours % HoursPerDay,
                  !.day    = days % DayCount,
                  !.carry  = @ \/ days >= DayCount]

\* the reference: a clock that is driven once a second
OneSecond(r) ==
    LET newMinute == r.second = SecondsPerMinute - 1
        newHour   == newMinute /\ r.minute = MinutesPerHour - 1
        newDay    == newHour /\ r.hour = HoursPerDay - 1
        Step(roll, x, limit) == IF roll THEN (x + 1) % limit ELSE x
    IN  [r EXCEPT !.second = (@ + 1) % SecondsPerMinute,
                  !.minute = Step(newMinute, @, MinutesPerHour),
                  !.hour   = Step(newHour, @, HoursPerDay),
                  !.day    = Step(newDay, @, DayCount),
                  !.carry  = @ \/ (newDay /\ r.day = DayCount - 1)]
LaterOf(a, b) == IF a > b THEN a ELSE b
Driven(r) ==
    LET after[n \in Nat] == IF n = 0 THEN r ELSE OneSecond(after[n - 1]) IN after

\* Mutant of Updated: the time of a halted clock is kept for later
UpdatedWhenRunning(r, t, since) ==
    IF t > since /\ ~r.halted THEN [regs |-> Advanced(r, t - since), last |-> t]
                              ELSE [regs |-> r, last |-> since]
\* update_rtc: a clock set back counts nothing until it has caught up, and the
\* seconds of a halted clock are dropped
Updated(r, t, since) ==
    IF t <= since THEN [regs |-> r, last |-> since]
    ELSE [regs |-> IF r.halted THEN r ELSE Advanced(r, t - since), last |-> t]

\* write_rtc_register: out-of-range values wrap
RegisterWritten(r, s, v) ==
    CASE s = "second"  -> [r EXCEPT !.second = v % SecondsPerMinute]
      [] s = "minute"  -> [r EXCEPT !.minute = v % MinutesPerHour]
      [] s = "hour"    -> [r EXCEPT !.hour = v % HoursPerDay]
      [] s = "day"     -> [r EXCEPT !.day = v % DayCount]
      [] s = "control" -> [r EXCEPT !.halted = v % 2 = 1, !.carry = v \div 2 = 1]
\* the register a slot shows, so that a write can be copied to the latch
WithSlot(to, from, s) ==
    IF s = "control" THEN [to EXCEPT !.halted = from.halted, !.carry = from.carry]
                     ELSE [to EXCEPT ![s] = from[s]]

(***************************************************************************)
(* The steps.                                                               *)
(***************************************************************************)

Init ==
    /\ now = 1 /\ last = now
    /\ live = Midnight /\ latched = Midnight
    /\ latch = 0
    /\ enabled = FALSE
    /\ slot = "ram"
    /\ ideal = Midnight

\* The host's time moves on, or is set back while no second is outstanding
\* (the mapper is called in every slice of the machine).
HostTime(t) ==
    /\ t > now \/ (t < now /\ now <= last)
    /\ now' = t
    /\ ideal' = IF ideal.halted THEN ideal
                ELSE Driven(ideal)[LaterOf(t, last) - LaterOf(now, last)]
    /\ UNCHANGED <<last, live, latched, latch, enabled, slot>>

\* Mbc3::tick, and the update at the head of every register write
Update ==
    LET u == Updated(live, now, last) IN last' = u.last /\ live' = u.regs
Tick == Update /\ UNCHANGED <<now, latched, latch, enabled, slot, ideal>>

EnableWrite(v) ==
    Update /\ enabled' = v /\ UNCHANGED <<now, latched, latch, slot, ideal>>
SelectWrite(s) ==
    Update /\ slot' = s /\ UNCHANGED <<now, latched, latch, enabled, ideal>>

\* the latch takes the registers after the update, on a write of 1 after 0
LatchWrite(v) ==
    /\ Update
    /\ latched' = IF latch = 0 /\ v = 1 THEN live' ELSE latched
    /\ latch' = v
    /\ UNCHANGED <<now, enabled, slot, ideal>>

\* write_ram with a clock register selected: written through to the latch
WriteRegister(v) ==
    /\ enabled /\ slot # "ram"
    /\ LET u == Updated(live, now, last) IN
       /\ last' = u.last
       /\ live' = RegisterWritten(u.regs, slot, v)
       /\ latched' = WithSlot(latched, live', slot)
    /\ ideal' = RegisterWritten(ideal, slot, v)
    /\ UNCHANGED <<now, latch, enabled, slot>>
\* write_ram with RAM selected only brings the clock up to date
WriteRam ==
    enabled /\ slot = "ram" /\ Update /\ UNCHANGED <<now, latched, latch, enabled, slot, ideal>>

Next ==
    \/ \E t \in 0 .. MaxNow : HostTime(t)
    \/ Tick
    \/ \E v \in BOOLEAN : EnableWrite(v)
    \/ \E s \in Slots \union {"ram"} : SelectWrite(s)
    \/ \E v \in 0 .. 2 : LatchWrite(v)
    \/ \E v \in RegisterBytes : WriteRegister(v)
    \/ WriteRam

Spec == Init /\ [][Next]_vars

(***************************************************************************)
(* Properties.                                                              *)
(***************************************************************************)

\* However long the mapper was not called, the clock shows what one driven
\* every second would show: the carries go all the way, the day overflow stays,
\* halted seconds are not made up later, a write to one register keeps the
\* others, and a host clock that is set back neither rewinds nor repeats time.
ClockKeepsTime == Updated(live, now, last).regs = ideal
=============================================================================
