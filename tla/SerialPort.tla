----------------------------- MODULE SerialPort -----------------------------
(***************************************************************************)
(* The serial registers of one machine (kokura-core/src/serial.rs) as a    *)
(* record, and what each operation makes of it.  SC keeps three bits; bit  *)
(* 1 (the CGB clock rate) is stored but read by nothing here and is left   *)
(* out, so SC is its start bit and its clock select.                       *)
(***************************************************************************)
EXTENDS Integers

CONSTANTS
  BitCycles,    \* SERIAL_INTERNAL_BIT_CYCLES (512)
  AccumLimit    \* largest value of the u16 accumulator (65535)

Byte == 0 .. 255

Ports == [sb : Byte, start : BOOLEAN, internal : BOOLEAN,
          accum : 0 .. AccumLimit, bits : 0 .. 8, active : BOOLEAN]

ResetPort == [sb |-> 0, start |-> FALSE, internal |-> FALSE,
              accum |-> 0, bits |-> 0, active |-> FALSE]

WriteSb(p, v) == [p EXCEPT !.sb = v]

(* A set start bit restarts the byte, a clear one cancels it. *)
WriteSc(p, start, internal) ==
  [p EXCEPT !.start = start, !.internal = internal, !.active = start,
            !.bits = IF start THEN 8 ELSE 0, !.accum = 0]

Finished(p) == [p EXCEPT !.start = FALSE, !.active = FALSE]

(* Mutant of Accumulated. *)
AccumulatedNarrow(p, n) ==
  LET sum == p.accum + (n % (AccumLimit \div 2))
  IN IF sum > AccumLimit THEN AccumLimit ELSE sum

(* tick and tick_fast with nothing on the other end: ones are shifted in.  *)
(* The cycle count is narrowed to the accumulator's width, the sum         *)
(* saturates, and the bits that are due leave one by one.                  *)
Accumulated(p, n) ==
  LET sum == p.accum + (n % (AccumLimit + 1))
  IN IF sum > AccumLimit THEN AccumLimit ELSE sum

BitsDue(p, n) ==
  LET due == Accumulated(p, n) \div BitCycles
  IN IF due > p.bits THEN p.bits ELSE due

ShiftedIn(sb, k) == (sb * 2^k + 2^k - 1) % 256

TickCompletes(p, n) ==
  p.active /\ p.internal /\ p.bits > 0 /\ BitsDue(p, n) = p.bits

Ticked(p, n) ==
  LET k == BitsDue(p, n)
      q == [p EXCEPT !.accum = Accumulated(p, n) - k * BitCycles,
                     !.bits = p.bits - k,
                     !.sb = ShiftedIn(p.sb, k)]
  IN IF ~ (p.active /\ p.internal) THEN p
     ELSE IF TickCompletes(p, n) THEN Finished(q) ELSE q

(* A whole byte from outside, completing at once. *)
Received(p, v) == [Finished(p) EXCEPT !.sb = v, !.accum = 0, !.bits = 0]

ArmedExternal(p) == p.active /\ ~ p.internal

ClockExternalByte(p, v) == IF ArmedExternal(p) THEN Received(p, v) ELSE p

(* Both ends armed on opposite clocks: the bytes are swapped. *)
Matched(p, q) == p.active /\ q.active /\ p.internal # q.internal
=============================================================================
