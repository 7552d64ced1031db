------------------------------- MODULE Serial -------------------------------
(***************************************************************************)
(* The serial port of one machine over time: the game writes SB and SC,    *)
(* the clock ticks it while no cable is attached, and the link runner or a *)
(* device supplies whole bytes.  A completed byte requests the serial      *)
(* interrupt (Machine::request_interrupt), which the CPU takes later.      *)
(***************************************************************************)
EXTENDS SerialPort

CONSTANTS
  Data,      \* bytes written to SB or received
  Chunks     \* cycles one advance of the clocks may hand to the port, at most
             \* AccumLimit - BitCycles

VARIABLES
  port,
  attached,     \* serial_link_attached: never cleared by the runner
  requested,    \* serial bit of IF
  elapsed,      \* history: cycles ticked since SC started this byte, at most
                \* the time of a byte
  shifting      \* history: SB at that start; << >> once SB is written again

vars == <<port, attached, requested, elapsed, shifting>>

Init ==
  /\ port = ResetPort
  /\ attached = FALSE /\ requested = FALSE
  /\ elapsed = 0 /\ shifting = << >>

GameWritesSb(v) ==
  /\ port' = WriteSb(port, v)
  /\ shifting' = << >>
  /\ UNCHANGED <<attached, requested, elapsed>>

GameWritesSc(start, internal) ==
  /\ port' = WriteSc(port, start, internal)
  /\ elapsed' = 0
  /\ shifting' = <<port.sb>>
  /\ UNCHANGED <<attached, requested>>

ByteTime == 8 * BitCycles

AtMost(n, most) == IF n > most THEN most ELSE n

(* advance_clocks: only a machine without a cable ticks its port. *)
Clock(n) ==
  /\ ~ attached
  /\ port' = Ticked(port, n)
  /\ requested' = (requested \/ TickCompletes(port, n))
  /\ elapsed' = IF port.active /\ port.internal THEN AtMost(elapsed + n, ByteTime) ELSE elapsed
  /\ UNCHANGED <<attached, shifting>>

(* set_serial_link_attached(true), at the start of every runner call. *)
Attach ==
  /\ attached' = TRUE
  /\ UNCHANGED <<port, requested, elapsed, shifting>>

(* clock_external_serial_byte: the adapter, or a device of the host.  It   *)
(* does nothing unless the game has armed an external-clock transfer.      *)
DeviceByte(v) ==
  /\ port' = ClockExternalByte(port, v)
  /\ requested' = (requested \/ ArmedExternal(port))
  /\ UNCHANGED <<attached, elapsed, shifting>>

(* exchange_serial_with_peer as this end sees it: the other end is armed   *)
(* with the opposite clock and its SB is v.                                *)
PeerByte(v) ==
  /\ port.active
  /\ port' = Received(port, v)
  /\ requested' = TRUE
  /\ UNCHANGED <<attached, elapsed, shifting>>

TakeInterrupt ==
  /\ requested /\ requested' = FALSE
  /\ UNCHANGED <<port, attached, elapsed, shifting>>

Next ==
  \/ \E v \in Data : GameWritesSb(v) \/ DeviceByte(v) \/ PeerByte(v)
  \/ \E s, i \in BOOLEAN : GameWritesSc(s, i)
  \/ \E n \in Chunks : Clock(n)
  \/ Attach
  \/ TakeInterrupt

Spec == Init /\ [][Next]_vars

(* Every instruction ends by advancing the clocks. *)
FairSpec == Spec /\ WF_vars(\E n \in Chunks : Clock(n))

-----------------------------------------------------------------------------
(* The internal-active latch, the start bit software reads and the bit     *)
(* counter tell the same story, whichever way the last byte ended.         *)
PortConsistent ==
  /\ port \in Ports
  /\ port.active <=> port.start
  /\ port.active <=> port.bits > 0
  /\ port.active /\ ~ port.internal => port.accum = 0 /\ port.bits = 8

(* However the cycles of a byte are cut into chunks, and through a cable   *)
(* being attached half way, the bits gone are those of the cycles gone:    *)
(* nothing is lost to the remainder, the narrowing or the saturation, and  *)
(* an unconnected port reads ones behind the bits that have left.          *)
ExactBitTime ==
  port.active /\ port.internal =>
    /\ elapsed = (8 - port.bits) * BitCycles + port.accum
    /\ port.accum < BitCycles
    /\ shifting # << >> => port.sb = ShiftedIn(shifting[1], 8 - port.bits)

(* A byte ends by being cancelled by the game or with the interrupt        *)
(* requested, never silently, and an interrupt is requested by nothing     *)
(* else.                                                                   *)
InterruptPerByte ==
  [][/\ port.active /\ ~ port'.active => requested' \/ \E i \in BOOLEAN : GameWritesSc(FALSE, i)
     /\ ~ requested /\ requested' => port.active /\ ~ port'.active]_vars

(* Without a cable an internally clocked byte ends. *)
ByteEnds ==
  (port.active /\ port.internal /\ ~ attached) ~>
    (~ port.active \/ ~ port.internal \/ attached \/ elapsed = 0)
=============================================================================
