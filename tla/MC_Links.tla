------------------------------ MODULE MC_Links ------------------------------
(***************************************************************************)
(* Instances of the adapter and of the cable for TLC, one of them at work.  *)
(* The games on the adapter give replies that connect with a packet size of  *)
(* two or one out of range, keep or change the rate, start the game, break   *)
(* off half way, or stay silent, and payload that is data or FF.            *)
(***************************************************************************)
EXTENDS Dmg07History

CONSTANTS Parts, SessionCount, Topologies, MaxExchanges,
          BitCycles, AccumLimit, Data, Modes, Peers, SlotCounts, Debugged

VARIABLES part, topology, ports, requested, stopped, selection, running, active_pair, transcript

cableVars == <<topology, ports, requested, stopped, selection, running, active_pair, transcript>>

Reply(a, b, c, d) == [k \in 0 .. 3 |-> CASE k = 0 -> a [] k = 1 -> b [] k = 2 -> c [] k = 3 -> d]

MCReplies == { Reply(ACK, ACK, 0, 0), Reply(ACK, ACK, 33, 2),
               Reply(START, START, START, START), Reply(START, START, 0, 0),
               Reply(ACK, 0, 0, 0), Reply(0, 0, 0, 0) }
MCPayload == {7, FF}

HostFirst == {[kind |-> "FourPlayerAdapter", host |-> 0, peer |-> 1]}
HostAnywhere == {[kind |-> "FourPlayerAdapter", host |-> 1, peer |-> 2]}

Cable == INSTANCE LinkCable
ASSUME CableAssumption == Cable!CableParameters

MCInit ==
  /\ part \in Parts
  /\ HInit /\ Cable!Init
  /\ part # "cable" => selection = [known |-> FALSE, mode |-> 0, peer |-> 1, slots |-> 3]

AdapterStep == part = "adapter" /\ HNext /\ UNCHANGED <<part, cableVars>>
CableStep == part = "cable" /\ Cable!Next /\ UNCHANGED <<part, vars>>

MCNext == AdapterStep \/ CableStep

MCSpec == MCInit /\ [][MCNext]_<<part, vars, cableVars>> /\ WF_<<part, vars, cableVars>>(AdapterStep)

(* Dmg07Adapter: every index stays inside its buffer, the start packet takes *)
(* the ports that answered it into the game, and a restart is honoured.      *)
AdapterKeepsToProtocol == []BufferShape /\ StartMembership /\ RestartHonoured

(* LinkCable: bytes are swapped where both ends wait and nowhere else, and   *)
(* two ends that wait for one another are served unless the host has         *)
(* switched away from them, a pair switched to included.                     *)
CableServes == []Cable!ServedUnlessSwitched /\ Cable!RendezvousOnly /\ Cable!SwitchedPairServedNext
(* LinkCable: the selected peer is another session than the host.            *)
SelectedPeerIsNotHost == Cable!SelectedPeerIsNotHost
=============================================================================
