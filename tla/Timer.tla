-------------------------------- MODULE Timer -------------------------------
(***************************************************************************)
(* The divider and the programmable timer (kokura-core/src/timer.rs), one  *)
(* cycle at a time as tick() advances them, between the register writes of *)
(* the program.  TIMA counts falling edges of one divider bit; past its    *)
(* end it is reloaded from TMA, with the interrupt, some cycles later.     *)
(***************************************************************************)
EXTENDS Integers

CONSTANTS
  DivModulus,     \* 2^16, div_counter is a u16
  TimaModulus,    \* 2^8
  HalfPeriod,     \* cycles the signal stays up, by clock select: 2^bit
  ReloadDelay,    \* cycles from overflow to reload (4)
  BootDivs,       \* div_counter after boot: C600h, or 0 on CGB
  Values,         \* bytes the program writes to TIMA and TMA
  MaxChunk        \* cycles of the longest advance whose two implementations are compared

Selects == 0 .. 3

\* 16 and 8 bits, periods of 16 to 1024 cycles: all powers of two
TimerParameters ==
  /\ DivModulus \in Nat \ {0} /\ TimaModulus \in Nat \ {0}
  /\ ReloadDelay \in Nat \ {0} /\ MaxChunk \in Nat
  /\ HalfPeriod \in [Selects -> Nat \ {0}]
  /\ \A s \in Selects : DivModulus % (2 * HalfPeriod[s]) = 0
  /\ Values \subseteq 0 .. TimaModulus - 1
  /\ BootDivs \subseteq 0 .. DivModulus - 1

Timers == [div : 0 .. DivModulus - 1, tima : 0 .. TimaModulus - 1,
           tma : 0 .. TimaModulus - 1, on : BOOLEAN, select : Selects,
           delay : 0 .. ReloadDelay]

-----------------------------------------------------------------------------
(* The enabled divider bit (timer_signal). *)
Signal(on, select, div) == on /\ (div \div HalfPeriod[select]) % 2 = 1

TimerSignal(t) == Signal(t.on, t.select, t.div)

(* An edge is ignored while a reload is due. *)
IncrementTima(t) ==
  IF t.delay > 0 THEN t
  ELSE IF t.tima = TimaModulus - 1 THEN [t EXCEPT !.tima = 0, !.delay = ReloadDelay]
  ELSE [t EXCEPT !.tima = @ + 1]

Reloads(t) == t.delay = 1

(* Mutant of AfterDelay. *)
AfterDelayZero(t) ==
  IF Reloads(t) THEN [t EXCEPT !.delay = 0]
  ELSE IF t.delay > 0 THEN [t EXCEPT !.delay = @ - 1] ELSE t

AfterDelay(t) ==
  IF Reloads(t) THEN [t EXCEPT !.delay = 0, !.tima = t.tma]
  ELSE IF t.delay > 0 THEN [t EXCEPT !.delay = @ - 1] ELSE t

(* One cycle of tick: the reload first, then the divider and its edge. *)
Cycled(t) ==
  LET u == [AfterDelay(t) EXCEPT !.div = (t.div + 1) % DivModulus]
  IN IF TimerSignal(t) /\ ~ TimerSignal(u) THEN IncrementTima(u) ELSE u

(* Clearing the divider, or choosing another signal, can be an edge too. *)
DivWritten(t) == [(IF TimerSignal(t) THEN IncrementTima(t) ELSE t) EXCEPT !.div = 0]

(* Mutant of TimaWritten. *)
TimaWrittenOnly(t, v) == [t EXCEPT !.tima = v]

TimaWritten(t, v) == [t EXCEPT !.tima = v, !.delay = 0]

TmaWritten(t, v) == [t EXCEPT !.tma = v]

TacWritten(t, on, select) ==
  LET u == [t EXCEPT !.on = on, !.select = select]
  IN IF TimerSignal(t) /\ ~ TimerSignal(u) THEN IncrementTima(u) ELSE u

-----------------------------------------------------------------------------
VARIABLES
  timer,
  requested,    \* timer bit of IF
  waited,       \* history: cycles since TIMA last overflowed, while a reload is due
  owed          \* history: an overflow has not yet had its interrupt or been cancelled

vars == <<timer, requested, waited, owed>>

(* initialize_post_boot_state *)
Init ==
  /\ \E d \in BootDivs :
       timer = [div |-> d, tima |-> 0, tma |-> 0, on |-> FALSE, select |-> 0, delay |-> 0]
  /\ requested = FALSE /\ waited = 0 /\ owed = FALSE

Overflows(t, u) == u.delay = ReloadDelay /\ t.delay # ReloadDelay

Noted(u) ==
  /\ timer' = u
  /\ waited' = IF u.delay > 0 /\ ~ Overflows(timer, u) THEN waited ELSE 0
  /\ owed' = (owed \/ Overflows(timer, u))

(* The reload requests the interrupt. *)
Cycle ==
  /\ timer' = Cycled(timer)
  /\ requested' = (requested \/ Reloads(timer))
  /\ waited' = IF timer'.delay = 0 \/ Overflows(AfterDelay(timer), timer') THEN 0 ELSE waited + 1
  /\ owed' = IF Overflows(AfterDelay(timer), timer') THEN TRUE
             ELSE owed /\ ~ Reloads(timer)

WriteDiv == Noted(DivWritten(timer)) /\ UNCHANGED requested

WriteTac(on, select) == Noted(TacWritten(timer, on, select)) /\ UNCHANGED requested

WriteTma(v) == timer' = TmaWritten(timer, v) /\ UNCHANGED <<requested, waited, owed>>

(* A write in the window cancels the reload and its interrupt. *)
WriteTima(v) ==
  /\ timer' = TimaWritten(timer, v)
  /\ waited' = 0 /\ owed' = FALSE
  /\ UNCHANGED requested

TakeInterrupt ==
  /\ requested /\ requested' = FALSE
  /\ UNCHANGED <<timer, waited, owed>>

Next ==
  \/ Cycle \/ WriteDiv \/ TakeInterrupt
  \/ \E on \in BOOLEAN, select \in Selects : WriteTac(on, select)
  \/ \E v \in Values : WriteTma(v) \/ WriteTima(v)

Spec == Init /\ [][Next]_vars

-----------------------------------------------------------------------------
TypeOK == timer \in Timers /\ requested \in BOOLEAN /\ waited \in Nat /\ owed \in BOOLEAN

(* While a reload is due TIMA reads zero, and the reload comes exactly     *)
(* ReloadDelay cycles after the overflow, whatever is written to DIV, TAC  *)
(* and TMA in between: no second edge restarts or shortens the window.     *)
ReloadWindow ==
  /\ timer.delay > 0 => timer.tima = 0 /\ waited = ReloadDelay - timer.delay
  /\ owed <=> timer.delay > 0

(* The interrupt is requested by a reload and only by one, in the cycle in *)
(* which TIMA takes TMA's value of that moment; a reload never goes by     *)
(* without it.                                                             *)
InterruptIsReload ==
  [][/\ ~ requested /\ requested' =>
          owed /\ timer'.tima \in {timer.tma, (timer.tma + 1) % TimaModulus}
     /\ owed /\ ~ owed' => requested' \/ \E v \in Values : WriteTima(v)]_vars

(* Without a write TIMA moves only where the selected bit of the divider   *)
(* falls, at whole periods, or where it is reloaded.                       *)
CountsWholePeriods ==
  [][Cycle /\ timer'.tima # timer.tima =>
       \/ Reloads(timer)
       \/ timer.on /\ timer'.div % (2 * HalfPeriod[timer.select]) = 0]_vars
-----------------------------------------------------------------------------
(* The second implementation, tick_fast, jumps from edge to edge and steps *)
(* cycle by cycle only while a reload is due.  Both are loops of at most a *)
(* turn for every cycle.                                                   *)

Advanced(t, n) == [t EXCEPT !.div = (@ + n) % DivModulus]

UntilEdge(t) ==
  LET period == 2 * HalfPeriod[t.select]
  IN period - (t.div % period)

(* What is left of a loop, and whether it has asked for the interrupt. *)
Loop(t, left, irq) == [timer |-> t, left |-> left, irq |-> irq]
SlowTurn(r) ==
  IF r.left = 0 THEN r ELSE Loop(Cycled(r.timer), r.left - 1, r.irq \/ Reloads(r.timer))

FastTurn(r) ==
  LET t == r.timer
      n == UntilEdge(t)
  IN IF t.delay > 0 THEN SlowTurn(r)
     ELSE IF ~ t.on \/ n > r.left THEN Loop(Advanced(t, r.left), 0, r.irq)
     ELSE Loop(IncrementTima(Advanced(t, n)), r.left - n, r.irq)

SlowRun(t, n) ==
  LET after[k \in Nat] == IF k = 0 THEN Loop(t, n, FALSE) ELSE SlowTurn(after[k - 1])
  IN after[n]
FastRun(t, n) ==
  LET after[k \in Nat] == IF k = 0 THEN Loop(t, n, FALSE) ELSE FastTurn(after[k - 1])
  IN after[n]

(* From every state the program can bring the timer to, both give the same *)
(* registers and the same answer about the interrupt.                      *)
FastAgrees == \A n \in 0 .. MaxChunk : FastRun(timer, n) = SlowRun(timer, n)
=============================================================================
