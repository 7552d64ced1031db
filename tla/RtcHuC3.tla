------------------------------- MODULE RtcHuC3 -------------------------------
(***************************************************************************)
(* The clock of a HuC3 cartridge: minutes of the day and days, kept as      *)
(* nibbles in a small memory that the game reaches through a command port,  *)
(* with a window to read and set the time and an event the game waits for.  *)
(***************************************************************************)
EXTENDS Integers

CONSTANTS SecondsInMinute, MinutesInDay,
          Base,       \* values of a nibble (16 in the code)
          MaxSeconds, \* bound: the last host second
          MaxPokes,   \* bound: nibbles a game writes
          Arguments,  \* the command arguments a game uses
          Cells       \* bound: where it moves the access pointer

\* a unit has a first and a last value; commands take any argument
RtcHParameters ==
    /\ {SecondsInMinute, MinutesInDay, Base} \subseteq Nat \ {0}
    /\ Arguments \subseteq Nat

VARIABLES time,     \* the host's clock in seconds
          seen,     \* rtc_last_timestamp_secs
          sub,      \* rtc_subminute_secs
          memory,   \* rtc_memory: the window, the current time and the event
          access,   \* rtc_access
          ideal,    \* history: a clock driven every second, see ClockAndEventKeepTime
          pokes     \* history: how many nibbles were written

vars == <<time, seen, sub, memory, access, ideal, pokes>>

Cap == Base * Base * Base
Period == MinutesInDay * Cap
Parts == {"window", "current", "event"}
\* where the three nibbles of a part's minutes begin; its days follow them
Start == [window |-> 0, current |-> 16, event |-> 88]

Absolute(t) == t.day * MinutesInDay + t.minute
\* write_absolute_time: the days keep twelve bits
Split(n) == [minute |-> n % MinutesInDay, day |-> (n \div MinutesInDay) % Cap]
Max0(n) == IF n > 0 THEN n ELSE 0

\* write_nibble_triplet and the nibble writes of the command port
Power(i) == CASE i = 0 -> 1 [] i = 1 -> Base [] i = 2 -> Base * Base
WithNibble(x, i, v) == x + ((v % Base) - ((x \div Power(i)) % Base)) * Power(i)
Poked(m, a, v) ==
    [p \in Parts |->
        CASE a \in Start[p] .. Start[p] + 2 ->
                [m[p] EXCEPT !.minute = WithNibble(@, a - Start[p], v)]
          [] a \in Start[p] + 3 .. Start[p] + 5 ->
                [m[p] EXCEPT !.day = WithNibble(@, a - Start[p] - 3, v)]
          [] OTHER -> m[p]]

(***************************************************************************)
(* update_rtc: whole minutes go to the current time, the rest is kept.      *)
(***************************************************************************)

Forward(t, n) ==
    [minute |-> (t.minute + n) % MinutesInDay,
     day    |-> (t.day + (t.minute + n) \div MinutesInDay) % Cap]
UpdatedTo(m, s, t, since) ==
    LET total == s + t - since
        whole == total \div SecondsInMinute
    IN  IF t <= since THEN [memory |-> m, sub |-> s, seen |-> since]
        ELSE [memory |-> IF whole = 0 THEN m
                         ELSE [m EXCEPT !.current = Forward(@, whole)],
              sub |-> total % SecondsInMinute, seen |-> t]

\* copy_window_to_current_time: the event moves with the time that is set
TimeSet(m) ==
    [m EXCEPT !.current = m.window,
              !.event = Split(Max0(Absolute(m.window) + Absolute(m.event)
                                     - Absolute(m.current)))]
TimeFetched(m) == [m EXCEPT !.window = m.current]

(***************************************************************************)
(* The reference: driven every second; `left` is the way to the event.      *)
(***************************************************************************)

Ideal(m, s) ==
    [now |-> Absolute(m.current) % Period, second |-> s,
     left |-> (Absolute(m.event) - Absolute(m.current)) % Period]
IdealSecond(i) ==
    IF i.second < SecondsInMinute - 1 THEN [i EXCEPT !.second = @ + 1]
    ELSE [second |-> 0, now |-> (i.now + 1) % Period, left |-> (i.left - 1) % Period]
IdealAfter(i) ==
    LET after[n \in Nat] == IF n = 0 THEN i ELSE IdealSecond(after[n - 1]) IN after

(***************************************************************************)
(* The steps.  A command is the whole exchange of the game: mode B with the *)
(* command and its argument, mode D to execute it, mode C to read.          *)
(***************************************************************************)

Init ==
    /\ time = 0 /\ seen = 0 /\ sub = 0
    /\ memory = [p \in Parts |-> [minute |-> 0, day |-> 0]]
    /\ access = 0
    /\ ideal = Ideal(memory, 0)
    /\ pokes = 0

Later(a, b) == IF a > b THEN a ELSE b
HostClock(t) ==
    /\ t > time \/ (t < time /\ time <= seen)
    /\ time' = t
    /\ ideal' = IdealAfter(ideal)[Later(t, seen) - Later(time, seen)]
    /\ UNCHANGED <<seen, sub, memory, access, pokes>>

Now == UpdatedTo(memory, sub, time, seen)
\* HuC3::tick and HuC3::write (modes and banks): the clock is brought up to date
TickHuC3 ==
    /\ memory' = Now.memory /\ sub' = Now.sub /\ seen' = Now.seen
    /\ UNCHANGED <<time, access, ideal, pokes>>

\* commands 1, 3, 4 and 5: read or write a nibble, move the access pointer
MoveAccess(a) == a \in Cells /\ access' = a
ReadNibble ==
    /\ memory' = Now.memory /\ sub' = Now.sub /\ seen' = Now.seen
    /\ MoveAccess((access + 1) % 256)
    /\ UNCHANGED <<time, ideal, pokes>>
WriteNibble(v) ==
    /\ pokes < MaxPokes
    /\ memory' = Poked(Now.memory, access, v)
    /\ sub' = Now.sub /\ seen' = Now.seen
    /\ MoveAccess((access + 1) % 256)
    /\ ideal' = Ideal(memory', sub')
    /\ pokes' = pokes + 1
    /\ UNCHANGED time
SetAccess(low, v) ==
    /\ memory' = Now.memory /\ sub' = Now.sub /\ seen' = Now.seen
    /\ MoveAccess(IF low THEN 16 * (access \div 16) + v ELSE 16 * v + (access % 16))
    /\ UNCHANGED <<time, ideal, pokes>>

\* extended commands 0 and 1
FetchTime ==
    /\ memory' = TimeFetched(Now.memory)
    /\ sub' = Now.sub /\ seen' = Now.seen
    /\ UNCHANGED <<time, access, ideal, pokes>>
SetTime ==
    /\ memory' = TimeSet(Now.memory)
    /\ sub' = 0
    /\ seen' = Now.seen
    /\ ideal' = IF Absolute(Now.memory.event) < Absolute(Now.memory.current)
                THEN Ideal(memory', 0)  \* an event that has passed may be clipped
                ELSE [ideal EXCEPT !.now = Absolute(memory.window) % Period, !.second = 0]
    /\ UNCHANGED <<time, access, pokes>>

NextHuC3 ==
    \/ \E t \in 0 .. MaxSeconds : HostClock(t)
    \/ TickHuC3
    \/ ReadNibble
    \/ \E v \in Arguments : WriteNibble(v)
    \/ \E low \in BOOLEAN, v \in Arguments : SetAccess(low, v)
    \/ FetchTime
    \/ SetTime

SpecHuC3 == Init /\ [][NextHuC3]_vars

(***************************************************************************)
(* Properties.                                                              *)
(***************************************************************************)

\* Whenever the mapper is called, and however often, the current time and the
\* way to the event are those of a clock driven every second: setting the time
\* moves the event along, no second is counted twice or lost between two
\* minutes, and minutes carry into days.
ClockAndEventKeepTime == Ideal(Now.memory, Now.sub) = ideal
=============================================================================
