---------------------------- MODULE Dmg07History ----------------------------
(***************************************************************************)
(* The adapter with the record of what the games really put on the wire,   *)
(* and the properties that relate what it keeps and sends to that record.  *)
(***************************************************************************)
EXTENDS Dmg07Adapter

VARIABLES
  wire,        \* outgoing vectors of this ping or packet, its first four bytes
  last_wire,   \* what the packet before it contributed, by byte
  met          \* ports that were connected when this ping began

vars == <<adapterVars, wire, last_wire, met>>

NoWire == [k \in {} |-> 0]
SilentContribution(n) == [k \in 0 .. n - 1 |-> [s \in Slots |-> 0]]

Recorded(out) ==
  IF byte_index < 4
  THEN [k \in 0 .. byte_index |-> IF k < byte_index THEN wire[k] ELSE out]
  ELSE wire

HInit == Init /\ wire = NoWire /\ last_wire = NoWire /\ met = {}

HBind(n) == Bind(n) /\ UNCHANGED <<wire, last_wire, met>>

HTransfer(out) ==
  /\ Transfer(out)
  /\ wire' = IF byte_index' = 0 \/ phase \in {"Confirm", "Restart"}
             THEN NoWire ELSE Recorded(out)
  /\ last_wire' =
       IF phase' # "Transmission" THEN NoWire
       ELSE IF phase # "Transmission" THEN SilentContribution(packet_size)
       ELSE IF byte_index' = 0 THEN [k \in 0 .. packet_size - 1 |-> Recorded(out)[k]]
       ELSE last_wire
  /\ met' = IF phase' # "Ping" \/ byte_index' = 0 THEN {}
            ELSE IF byte_index = 0 THEN connected ELSE met

HNext ==
  \/ \E n \in SessionCounts : session_count = 0 /\ HBind(n)
  \/ session_count # 0 /\ \E out \in Outgoing : HTransfer(out)

HSpec == HInit /\ [][HNext]_vars

(* A runner that keeps being called, with games that keep arming. *)
FairHSpec == HSpec /\ WF_vars(HNext)

-----------------------------------------------------------------------------
(* Types.  The domains of the buffers are part of the type: indexing past  *)
(* one of them would panic.                                                *)
TypeOK ==
  /\ session_count \in {0, 2, 3, 4}
  /\ phase \in Phases
  /\ byte_index \in 0 .. 15
  /\ connected \subseteq Slots
  /\ ping_replies \in [Ports -> [0 .. 3 -> Byte]]
  /\ rate \in Byte /\ ping_rate \in Byte
  /\ packet_size \in 1 .. 4
  /\ ff_runs \in [Ports -> 0 .. 16]
  /\ restart_pending \in BOOLEAN

(* Every byte index is inside the buffer its phase indexes with it, and    *)
(* the packets in flight have the size negotiated before the game started: *)
(* transfer_payload (link.rs:453,460) indexes both without a check and     *)
(* ends a packet on equality with its length, which a larger index would   *)
(* step over.                                                              *)
BufferShape ==
  /\ phase \in {"Ping", "Confirm"} => byte_index < 4
  /\ phase \in {"Transmission", "Restart"} => byte_index < PacketLength
  /\ phase = "Transmission" =>
       /\ capture \in [Ports -> [0 .. packet_size - 1 -> Byte]]
       /\ broadcast \in [0 .. PacketLength - 1 -> Byte]

(* What is captured is what connected ports sent in the first packet_size  *)
(* bytes of this packet, nothing of it lost, moved or left from before.    *)
CaptureIsWire ==
  phase = "Transmission" =>
    \A s \in Ports, k \in 0 .. packet_size - 1 :
      capture[s][k] = IF s \in connected /\ k < byte_index THEN wire[k][s] ELSE 0

(* The packet being broadcast is the previous packet's contributions in    *)
(* port order, zeros for ports without a connected player: one full packet *)
(* of latency, as the comments at link.rs:449-450 and 513-515 describe.    *)
BroadcastIsLastPacket ==
  phase = "Transmission" =>
    \A s \in Ports, k \in 0 .. packet_size - 1 :
      broadcast[s * packet_size + k] = IF s \in connected THEN last_wire[k][s] ELSE 0

AlignedRequest(s) == byte_index >= 3 /\ \A k \in 0 .. 2 : wire[k][s] = FF

(* A restart is pending exactly when, in this very packet, a connected     *)
(* port opened with three FF bytes; payload that merely contains FF bytes  *)
(* further in, or on a port nobody connected to, never is one.             *)
RestartIffRequested ==
  phase = "Transmission" =>
    (restart_pending <=> \E s \in connected : AlignedRequest(s))

(* A game is started by player 1's full start packet, and every other port *)
(* that takes part in it acknowledged in the same ping; player 1 itself    *)
(* takes part exactly if it was connected before it began to start.        *)
StartMembership ==
  [][phase = "Ping" /\ phase' = "Confirm" =>
       LET reply(s) == [k \in 0 .. 2 |-> wire[k][s]]
       IN /\ \A k \in 0 .. 2 : reply(0)[k] = START
          /\ \A s \in connected' \ {0} : reply(s)[0] = ACK /\ reply(s)[1] = ACK
          /\ \A s \in (Slots \ {0}) \ connected' : ~ (reply(s)[0] = ACK /\ reply(s)[1] = ACK)
          /\ 0 \in connected' <=> 0 \in met]_vars

(* A requested restart is honoured: the adapter comes back to discovery.   *)
RestartHonoured == restart_pending ~> (phase = "Ping" /\ connected = {})

-----------------------------------------------------------------------------
(* The adapter implements the abstract broadcast service. *)
Broadcast == INSTANCE Dmg07Broadcast WITH
  count   <- session_count,
  stage   <- phase,
  members <- connected,
  size    <- packet_size,
  packet  <- IF phase = "Transmission" THEN broadcast ELSE Zeros(PacketLength)

ImplementsBroadcast == Broadcast!Spec
=============================================================================
