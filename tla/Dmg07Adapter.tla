---------------------------- MODULE Dmg07Adapter ----------------------------
(***************************************************************************)
(* The four-player adapter of kokura-debug/src/link.rs (Dmg07Adapter): the *)
(* protocol state that outlives one runner call, and transfer(), which     *)
(* exchanges one byte with every port at once.  When a transfer is allowed *)
(* to happen (the deadline, the ports being armed) is the runner's affair  *)
(* and is in module Dmg07Link.                                             *)
(*                                                                         *)
(* Bytes are naturals.  The connection mask is the set of connected ports. *)
(* Each Vec<u8> is a function on 0..len-1, so the length is its domain.    *)
(***************************************************************************)
EXTENDS Integers, FiniteSets

CONSTANTS
  SessionCounts,  \* participant counts the runner may be called with
  Replies,   \* four-byte ping replies the games may give, as functions on 0..3
  Payload    \* bytes the games may send outside discovery

Byte  == 0 .. 255
Ports == 0 .. 3                       \* DMG07_PORT_COUNT = 4

ASSUME SessionCountsAssumption == SessionCounts \subseteq 2 .. 4
ASSUME RepliesAssumption == Replies \subseteq [0 .. 3 -> Byte]
ASSUME PayloadAssumption == Payload \subseteq Byte /\ Payload # {}

HEADER  == 254                        \* DMG07_PING_HEADER
ACK     == 136                        \* DMG07_ACK
START   == 170                        \* DMG07_START
CONFIRM == 204                        \* DMG07_CONFIRM
FF      == 255

Phases == {"Ping", "Confirm", "Transmission", "Restart"}

VARIABLES
  session_count,    \* 0 while unbound (None), then the number of sessions
  phase,            \* the Dmg07Phase ...
  byte_index,       \* ... and the byte_index it carries
  connected,        \* ports whose bit of connected_mask is set
  ping_replies,
  rate,
  ping_rate,
  packet_size,
  capture,          \* capture_packets: what each port sent in this packet
  broadcast,        \* broadcast_packet: what every port is being sent
  ff_runs,          \* restart_ff_runs
  restart_pending,
  incoming          \* the bytes the last transfer returned, one per session

discovery == <<connected, ping_replies, rate, ping_rate, packet_size>>
buffers   == <<capture, broadcast>>
restart   == <<ff_runs, restart_pending>>
adapterVars == <<session_count, phase, byte_index, discovery, buffers, restart,
                 incoming>>

-----------------------------------------------------------------------------
Slots == {p \in Ports : p < session_count}

Zeros(n)  == [k \in 0 .. n - 1 |-> 0]
NoReplies == [p \in Ports |-> Zeros(4)]
NoRuns    == [p \in Ports |-> 0]
NoCapture(n) == [p \in Ports |-> Zeros(n)]
PacketLength == 4 * packet_size

Clamp(n) == IF n < 1 THEN 1 ELSE IF n > 4 THEN 4 ELSE n

(* Player id in the low nibble, connection mask in the high one. *)
StatusForSlot(s) ==
  (IF 0 \in connected THEN 16 ELSE 0) + (IF 1 \in connected THEN 32 ELSE 0)
  + (IF 2 \in connected THEN 64 ELSE 0) + (IF 3 \in connected THEN 128 ELSE 0)
  + s + 1

Init ==
  /\ session_count = 0
  /\ phase = "Ping" /\ byte_index = 0
  /\ connected = {}
  /\ ping_replies = NoReplies
  /\ rate = 255 /\ ping_rate = 0 /\ packet_size = 1
  /\ capture = NoCapture(1)
  /\ broadcast = Zeros(4)
  /\ ff_runs = NoRuns /\ restart_pending = FALSE
  /\ incoming = << >>

(* The first participant count is kept; another one is refused, which      *)
(* leaves the adapter as it was.                                           *)
Bind(n) ==
  /\ session_count \in {0, n}
  /\ session_count' = n
  /\ UNCHANGED <<phase, byte_index, discovery, buffers, restart, incoming>>

-----------------------------------------------------------------------------
(* Discovery.                                                              *)

Acked(reply)   == reply[0] = ACK /\ reply[1] = ACK
Started(reply) == reply = [k \in 0 .. 3 |-> START]

(* Mutant of Answering. *)
AnsweringNoneHeld(r, held) == {s \in Slots : Acked(r[s])} \cup (connected \ Slots)

(* What becomes of the mask when the reply prefixes r are looked at: the   *)
(* ports that answered are connected, the others are dropped, except that  *)
(* player 1 keeps what it had while held.                                  *)
Answering(r, held) ==
  {s \in Slots : Acked(r[s])}
    \cup (connected \ Slots)
    \cup (IF held /\ 0 \in connected THEN {0} ELSE {})

TransferPing(out) ==
  LET r == [p \in Ports |-> IF p \in Slots
                            THEN [ping_replies[p] EXCEPT ![byte_index] = out[p]]
                            ELSE ping_replies[p]]
  IN
  /\ phase = "Ping"
  /\ incoming' = [s \in Slots |-> IF byte_index = 0 THEN HEADER ELSE StatusForSlot(s)]
  /\ \/ /\ byte_index < 3
        /\ byte_index' = byte_index + 1
        /\ ping_replies' = r
        /\ connected' = IF byte_index = 1
                        THEN Answering(r, r[0][0] = START /\ r[0][1] = START)
                        ELSE connected
        /\ UNCHANGED <<phase, rate, ping_rate, packet_size>>
     \/ /\ byte_index = 3
        /\ byte_index' = 0
        /\ ping_replies' = NoReplies
        /\ connected' = Answering(r, Started(r[0]))
        /\ phase' = IF Started(r[0]) THEN "Confirm" ELSE "Ping"
        /\ IF Acked(r[0]) /\ r[0][2] # 0
             THEN rate' = r[0][2] /\ ping_rate' = r[0][2]
             ELSE UNCHANGED <<rate, ping_rate>>
        /\ packet_size' = IF Acked(r[0]) THEN Clamp(r[0][3]) ELSE packet_size
  /\ UNCHANGED <<session_count, buffers, restart>>

-----------------------------------------------------------------------------
(* Confirmation, ending in begin_transmission.                             *)

BeginTransmission ==
  /\ capture' = NoCapture(packet_size)
  /\ broadcast' = Zeros(PacketLength)
  /\ ff_runs' = NoRuns
  /\ restart_pending' = FALSE
  /\ phase' = "Transmission"
  /\ byte_index' = 0

TransferConfirm(out) ==
  /\ phase = "Confirm"
  /\ incoming' = [s \in Slots |-> CONFIRM]
  /\ IF byte_index = 3
       THEN BeginTransmission
       ELSE /\ byte_index' = byte_index + 1
            /\ UNCHANGED <<phase, buffers, restart>>
  /\ UNCHANGED <<session_count, discovery>>

-----------------------------------------------------------------------------
(* Transmission.                                                           *)

(* Mutant of ObservedRuns. *)
RunsAnywhere(out) ==
  [p \in Ports |->
     IF p \notin Slots THEN ff_runs[p]
     ELSE IF ~ (p \in connected /\ out[p] = FF) THEN 0
     ELSE IF byte_index = 0 THEN 1
     ELSE ff_runs[p] + 1]

(* Length of the run of FF bytes that began at the packet boundary. *)
ObservedRuns(out) ==
  [p \in Ports |->
     IF p \notin Slots THEN ff_runs[p]
     ELSE IF ~ (p \in connected /\ out[p] = FF) THEN 0
     ELSE IF byte_index = 0 THEN 1
     ELSE IF ff_runs[p] = 0 THEN 0
     ELSE ff_runs[p] + 1]

RestartSeen(runs) == \E p \in Ports : runs[p] >= 3

(* Mutant of Captured. *)
CapturedFromAnyone(out) ==
  [p \in Ports |-> IF p \in Slots /\ byte_index < packet_size
                   THEN [capture[p] EXCEPT ![byte_index] = out[p]]
                   ELSE capture[p]]

Captured(out) ==
  [p \in Ports |-> IF p \in Slots \cap connected /\ byte_index < packet_size
                   THEN [capture[p] EXCEPT ![byte_index] = out[p]]
                   ELSE capture[p]]

(* Mutant of Concatenated. *)
Interleaved(c) ==
  [i \in 0 .. PacketLength - 1 |-> c[i % 4][i \div 4]]

(* All four port buffers in port order. *)
Concatenated(c) ==
  [i \in 0 .. PacketLength - 1 |-> c[i \div packet_size][i % packet_size]]

TransferPayload(out) ==
  LET pending == restart_pending \/ RestartSeen(ObservedRuns(out))
  IN
  /\ phase = "Transmission"
  /\ incoming' = [s \in Slots |-> broadcast[byte_index]]
  /\ ff_runs' = ObservedRuns(out)
  /\ \/ /\ byte_index + 1 # PacketLength
        /\ byte_index' = byte_index + 1
        /\ capture' = Captured(out)
        /\ restart_pending' = pending
        /\ UNCHANGED <<phase, broadcast>>
     \/ /\ byte_index + 1 = PacketLength
        /\ pending
        /\ phase' = "Restart"
        /\ byte_index' = 0
        /\ capture' = Captured(out)
        /\ restart_pending' = FALSE
        /\ UNCHANGED broadcast
     \/ /\ byte_index + 1 = PacketLength
        /\ ~ pending
        /\ byte_index' = 0
        /\ broadcast' = Concatenated(Captured(out))
        /\ capture' = NoCapture(packet_size)
        /\ UNCHANGED <<phase, restart_pending>>
  /\ UNCHANGED <<session_count, discovery>>

-----------------------------------------------------------------------------
(* The all-FF indicator packet, ending in restart_ping, which forgets the  *)
(* ports but keeps rate and packet size.                                   *)

RestartPing ==
  /\ phase' = "Ping"
  /\ byte_index' = 0
  /\ connected' = {}
  /\ ping_replies' = NoReplies
  /\ ff_runs' = NoRuns
  /\ restart_pending' = FALSE

TransferRestart(out) ==
  /\ phase = "Restart"
  /\ incoming' = [s \in Slots |-> FF]
  /\ IF byte_index + 1 = PacketLength
       THEN RestartPing
       ELSE /\ byte_index' = byte_index + 1
            /\ UNCHANGED <<phase, connected, ping_replies, restart>>
  /\ UNCHANGED <<session_count, rate, ping_rate, packet_size, buffers>>

-----------------------------------------------------------------------------
(* One byte exchanged with all sessions at once. *)
Transfer(out) ==
  \/ TransferPing(out)
  \/ TransferConfirm(out)
  \/ TransferPayload(out)
  \/ TransferRestart(out)

(* The bytes the game on port s may put on the wire now: in discovery one  *)
(* that continues a reply it may give, elsewhere any payload byte.         *)
Offered(s) ==
  IF phase = "Ping"
  THEN {r[byte_index] : r \in {q \in Replies :
          \A k \in 0 .. byte_index - 1 : q[k] = ping_replies[s][k]}}
  ELSE Payload

Outgoing == {out \in [Slots -> UNION {Offered(s) : s \in Slots}] :
               \A s \in Slots : out[s] \in Offered(s)}

(* Every runner call binds the participant count before anything else. *)
Next ==
  \/ \E n \in SessionCounts : session_count = 0 /\ Bind(n)
  \/ session_count # 0 /\ \E out \in Outgoing : Transfer(out)

Spec == Init /\ [][Next]_adapterVars
=============================================================================
