---------------------------- MODULE MC_Dmg07Link ----------------------------
(***************************************************************************)
(* The bare schedule and the driven adapter for TLC, one of them at work.    *)
(* The schedule: machines that join at different times, at single and      *)
(* double speed, frozen or starting their frame again.  The adapter: two   *)
(* frames of 20 cycles, delays of two to four, replies that connect with a *)
(* rate of 21h and start the game, two packets of which fit; either a      *)
(* session is stopped, or a state is loaded between two calls.             *)
(***************************************************************************)
EXTENDS LinkSchedule

CONSTANTS
  LinkStarts, LinkPhases, LinkFrameCycles, LinkCosts, LinkRequests,
  LinkMaxFrames, LinkMaxLost,
  Replies, Payload, CpuHz, Second, PingByteUs, PingPacketUs, TxByteUs, TxNibbleUs,
  TxMinPacketUs, TxRateUs, TxAddonUs, PortUses, MaxRewinds

VARIABLES
  part,
  lcycles, lphase, lframes, ltargets, lstopped, lrunning, llinked, lcut,
  session_count, phase, byte_index, connected, ping_replies, rate, ping_rate,
  packet_size, capture, broadcast, ff_runs, restart_pending, incoming,
  armed, next_transfer, packet_start, rewinds, rewound, loaded

driven == <<lcycles, lphase, lframes, ltargets, lstopped, lrunning, llinked, lcut,
            session_count, phase, byte_index, connected, ping_replies, rate, ping_rate,
            packet_size, capture, broadcast, ff_runs, restart_pending, incoming,
            armed, next_transfer, packet_start, rewinds, rewound, loaded>>

Cost(cpu, frame) == [cpu |-> cpu, frame |-> frame, restarts |-> FALSE]
Restart(cpu) == [cpu |-> cpu, frame |-> cpu, restarts |-> TRUE]
Rates == {Cost(2, 2), Cost(2, 1), Cost(3, 0), Restart(2)}

OneCost == {Cost(2, 2)}

Reply(a, b, c, d) == [k \in 0 .. 3 |-> CASE k = 0 -> a [] k = 1 -> b [] k = 2 -> c [] k = 3 -> d]

MCReplies == {Reply(136, 136, 33, 1), Reply(170, 170, 170, 170)}

Link == INSTANCE Dmg07Link WITH
  Starts <- LinkStarts, StartPhases <- LinkPhases, FrameCycles <- LinkFrameCycles,
  Costs <- LinkCosts, Requests <- LinkRequests,
  MaxFrames <- LinkMaxFrames, MaxLost <- LinkMaxLost,
  cycles <- lcycles, frame_phase <- lphase, frames <- lframes, targets <- ltargets,
  stopped <- lstopped, running <- lrunning, linked <- llinked, cut <- lcut

ASSUME LinkAssumption == Link!LinkParameters

MCInit ==
  /\ part \in {"schedule", "stops", "loads"}
  /\ Init /\ Link!LInit
  /\ part # "schedule" => \A i \in Sessions : cycles[i] = 0 /\ frame_phase[i] = 0

InCallStep == part = "schedule" /\ InCall /\ UNCHANGED <<part, driven>>
ScheduleStep == part = "schedule" /\ Next /\ UNCHANGED <<part, driven>>
AdapterStep ==
  /\ part # "schedule" /\ Link!LNext /\ UNCHANGED <<part, vars>>
  /\ part = "stops" => rewinds' = 0
  /\ part = "loads" => lstopped' = {}

MCNext == AdapterStep \/ ScheduleStep

MCSpec == MCInit /\ [][MCNext]_<<part, vars, driven>> /\ WF_<<part, vars, driven>>(InCallStep)

(* Dmg07Link: a byte is never overdue or further away than the protocol's     *)
(* longest delay, goes to every port or to none, and packets keep the period *)
(* of rate and size.                                                         *)
DeadlinesHold ==
  [](Link!WaitBounded /\ Link!NothingOverdue) /\ Link!PacketPeriodKept /\ Link!AllOrNone
=============================================================================
