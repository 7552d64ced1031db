------------------------------ MODULE Dmg07Link -----------------------------
(***************************************************************************)
(* The four-player adapter driven by the link runner: the schedule of      *)
(* LinkSchedule, the ports of the machines, the protocol of Dmg07Adapter   *)
(* and the deadline between them (kokura-debug/src/link.rs,                *)
(* try_exchange_dmg07 and schedule_after_transfer).                        *)
(*                                                                         *)
(* A port is idle or armed on one of the clocks; the byte an armed port    *)
(* offers is any its game may send, so SB is not kept.                     *)
(***************************************************************************)
EXTENDS LinkSchedule

CONSTANTS
  Replies, Payload,         \* what the games send, see Dmg07Adapter
  CpuHz, Second,            \* DMG07_CPU_HZ, and the microseconds in a second
  PingByteUs,               \* DMG07_PING_BYTE_INTERVAL_US
  PingPacketUs,             \* DMG07_PING_PACKET_DELAY_US
  TxByteUs, TxNibbleUs,     \* DMG07_TX_BASE_BYTE_, _RATE_NIBBLE_INTERVAL_US
  TxMinPacketUs, TxRateUs,  \* DMG07_TX_MIN_PACKET_US, _PACKET_RATE_US
  TxAddonUs,                \* DMG07_TX_PACKET_ADDON_US
  PortUses,                 \* what the games do with SC, see armed below
  MaxRewinds                \* bound on the states the host loads

VARIABLES
  session_count, phase, byte_index, connected, ping_replies, rate, ping_rate,
  packet_size, capture, broadcast, ff_runs, restart_pending, incoming

Adapter == INSTANCE Dmg07Adapter WITH SessionCounts <- {SessionCount}

VARIABLES
  armed,           \* port of each machine: "idle", "internal" or "external"
  next_transfer,   \* next_transfer_cycle, 0 before the first transfer
  packet_start,    \* history: cycle of the transfer that began the game's last packet
  rewinds,         \* history: states loaded so far
  rewound,         \* history: cycles each machine went back since the last transfer
  loaded           \* history: a state was loaded since the runner last looked at the ports

adapterState ==
  <<session_count, phase, byte_index, connected, ping_replies, rate, ping_rate,
    packet_size, capture, broadcast, ff_runs, restart_pending, incoming>>

history == <<rewinds, rewound, loaded>>

linkVars == <<vars, adapterState, armed, next_transfer, packet_start, history>>

(* Positive delays of a positive clock. *)
LinkParameters ==
  /\ SessionCount \in 2 .. 4
  /\ FrameCycles \in Nat \ {0}
  /\ \A c \in Costs : c.cpu \in Nat \ {0} /\ c.frame \in Nat
  /\ Starts \subseteq Nat /\ StartPhases \subseteq 0 .. FrameCycles - 1
  /\ Replies \subseteq [0 .. 3 -> 0 .. 255] /\ Payload \subseteq 0 .. 255 /\ Payload # {}
  /\ {CpuHz, Second, PingByteUs, PingPacketUs, TxByteUs, TxNibbleUs, TxMinPacketUs, TxRateUs,
      TxAddonUs} \subseteq Nat \ {0}

-----------------------------------------------------------------------------
(* Delays in cycles of the base clock, rounded up. *)
CyclesForMicros(us) == (CpuHz * us + Second - 1) \div Second

Greater(a, b) == IF a > b THEN a ELSE b

ByteInterval(r) == CyclesForMicros(TxByteUs + (r \div 16) * TxNibbleUs)

MinimumPeriod(r) == CyclesForMicros(TxMinPacketUs + (r % 16) * TxRateUs)

SerializedPeriod(r, n) == ByteInterval(r) * n + CyclesForMicros(TxAddonUs)

(* Mutant of PacketTail. *)
PacketTailOfBytes(r, n) == ByteInterval(r)

(* Packet period less the byte intervals that have already gone by. *)
PacketTail(r, n) ==
  LET period  == Greater(MinimumPeriod(r), SerializedPeriod(r, n))
      elapsed == ByteInterval(r) * (n - 1)
  IN Greater(IF period > elapsed THEN period - elapsed ELSE 0, ByteInterval(r))

(* The delay after byte b of the phase ph, which the transfer has just     *)
(* completed; rate and sizes are those it left behind.                     *)
DelayAfter(ph, b) ==
  LET length == 4 * packet_size'
  IN CASE ph = "Ping" /\ b < 3 -> CyclesForMicros(PingByteUs)
       [] ph = "Ping" /\ b = 3 ->
            CyclesForMicros(PingPacketUs + (ping_rate' % 16) * TxRateUs)
       [] ph = "Confirm" -> ByteInterval(rate')
       [] ph = "Transmission" ->
            IF b + 1 < length THEN ByteInterval(rate') ELSE PacketTail(rate', length)
       [] ph = "Restart" ->
            IF b + 1 < length THEN ByteInterval(rate') ELSE CyclesForMicros(PingPacketUs)

-----------------------------------------------------------------------------
Least(cs) == CHOOSE n \in {cs[i] : i \in Sessions} : \A i \in Sessions : n =< cs[i]

AllExternal(ports) == \A i \in Sessions : ports[i] = "external"

TransferDue(cycle) == cycle >= next_transfer

LInit ==
  /\ Init /\ Adapter!Init
  /\ armed = [i \in Sessions |-> "idle"]
  /\ next_transfer = 0 /\ packet_start = 0
  /\ rewinds = 0 /\ rewound = [i \in Sessions |-> 0] /\ loaded = FALSE

(* prepare_backplane binds the participant count before the loop. *)
LBeginCall(n) ==
  /\ BeginCall(n)
  /\ Adapter!Bind(SessionCount)
  /\ UNCHANGED <<armed, next_transfer, packet_start, history>>

(* A game's first packet has none before it. *)
PacketStart(cycle) ==
  IF phase = "Confirm" THEN 0
  ELSE IF phase = "Transmission" /\ byte_index = 0 THEN cycle ELSE packet_start

(* Mutant of TryExchange. *)
TryExchangeStale(ports) ==
  LET cycle == Least(cycles)
  IN IF AllExternal(ports) /\ TransferDue(cycle)
     THEN /\ \E out \in Adapter!Outgoing : Adapter!Transfer(out)
          /\ next_transfer' = cycle + DelayAfter(phase, byte_index)
          /\ armed' = [i \in Sessions |-> "idle"]
          /\ packet_start' = PacketStart(cycle)
          /\ rewound' = [i \in Sessions |-> 0]
     ELSE /\ armed' = ports
          /\ UNCHANGED <<adapterState, next_transfer, packet_start, rewound>>

(* try_exchange_dmg07 with the ports and cycle counts the step has left:   *)
(* one byte to every machine when all are armed on the external clock and  *)
(* the slowest has reached the deadline, to none otherwise.                *)
TryExchange(ports) ==
  LET cycle == Least(cycles')
  IN IF AllExternal(ports) /\ TransferDue(cycle)
     THEN /\ \E out \in Adapter!Outgoing : Adapter!Transfer(out)
          /\ next_transfer' = cycle + DelayAfter(phase, byte_index)
          /\ armed' = [i \in Sessions |-> "idle"]
          /\ packet_start' = PacketStart(cycle)
          /\ rewound' = [i \in Sessions |-> 0]
     ELSE /\ armed' = ports
          /\ UNCHANGED <<adapterState, next_transfer, packet_start, rewound>>

LStep(i, c) ==
  /\ Step(i, c) \/ StepAndStop(i, c)
  /\ \E a \in PortUses \cup {armed[i]} : TryExchange([armed EXCEPT ![i] = a])
  /\ loaded' = FALSE /\ UNCHANGED rewinds

LBreak(i) ==
  /\ BreakBeforeStep(i)
  /\ TryExchange(armed)
  /\ loaded' = FALSE /\ UNCHANGED rewinds

LIdle ==
  /\ EndCall \/ \E i \in Sessions : Resume(i)
  /\ UNCHANGED <<adapterState, armed, next_transfer, packet_start, history>>

(* The host loads or rewinds to a state of session i from n frames ago,    *)
(* since when it has lost l: its clocks and its port go back, the adapter  *)
(* and its deadline do not.                                                *)
LoadState(i, n, l) ==
  /\ ~ running /\ rewinds < MaxRewinds /\ n =< frames[i]
  /\ cycles' = [cycles EXCEPT ![i] = @ - n * FrameCycles - l]
  /\ frames' = [frames EXCEPT ![i] = @ - n]
  /\ \E a \in PortUses : armed' = [armed EXCEPT ![i] = a]
  /\ rewinds' = rewinds + 1 /\ loaded' = TRUE
  /\ rewound' = [rewound EXCEPT ![i] = @ + n * FrameCycles + l]
  /\ cut' = TRUE
  /\ stopped' = stopped \ {i}
  /\ UNCHANGED <<frame_phase, targets, running, linked, adapterState,
                 next_transfer, packet_start>>

LNext ==
  \/ \E n \in Requests : LBeginCall(n)
  \/ \E i \in Sessions : LBreak(i) \/ \E c \in Costs : LStep(i, c)
  \/ LIdle
  \/ \E i \in Sessions, n \in 1 .. MaxFrames : \E l \in 0 .. Lost(i) : LoadState(i, n, l)

LSpec == LInit /\ [][LNext]_linkVars

-----------------------------------------------------------------------------
(* The delays a rate can ask for. *)
DelaysAt(r) ==
  {CyclesForMicros(PingByteUs), ByteInterval(r), CyclesForMicros(PingPacketUs + (r % 16) * TxRateUs)}
  \cup {PacketTail(r, 4 * n) : n \in 1 .. 4}

(* The wait the protocol can ask for at the most. *)
LongestOf(of) == CHOOSE d \in of : \A e \in of : e =< d
LongestDelay == LongestOf(DelaysAt(rate) \cup DelaysAt(ping_rate) \cup DelaysAt(255))

(* Every check that could deliver a byte does: between steps the machines  *)
(* are never all waiting for a byte whose time has come.  (After a state   *)
(* was loaded the next step looks again.)                                  *)
NothingOverdue ==
  ~ loaded => ~ (AllExternal(armed) /\ TransferDue(Least(cycles)))

(* The deadline is never further away than one delay of the protocol and   *)
(* what the machine was taken back since the last byte, however the        *)
(* sessions take turns and whoever is stopped: the slowest machine sets    *)
(* the cycle for both.                                                     *)
WaitBounded ==
  \A i \in Sessions : next_transfer =< cycles[i] + LongestDelay + rewound[i]

(* Packets of one game begin no closer together than the packet period of  *)
(* the negotiated rate and size (link.rs:318-328).                         *)
PacketPeriodKept ==
  [][phase = "Transmission" /\ packet_start' # packet_start /\ packet_start # 0
       /\ byte_index = 0 /\ phase' = "Transmission" =>
       packet_start' - packet_start >=
         Greater(MinimumPeriod(rate), SerializedPeriod(rate, 4 * packet_size))]_linkVars

(* Every port gets its byte in the same step or none does, and a port that *)
(* is not waiting for the adapter keeps all the others waiting.            *)
AllOrNone ==
  [][next_transfer' # next_transfer =>
       /\ \A i \in Sessions : cycles'[i] = cycles[i] => armed[i] = "external"
       /\ \A i \in Sessions : armed'[i] = "idle"
       /\ DOMAIN incoming' = Sessions]_linkVars
=============================================================================
