----------------------------- MODULE LinksProofs -----------------------------
(***************************************************************************)
(* What holds of the adapter and of the cable for every set of participant *)
(* counts, replies and payloads, and for every call of the link runner.    *)
(*                                                                         *)
(* The adapter: TypeOK and BufferShape are inductive together with the     *)
(* type of the record (Shape); the three properties about contents follow  *)
(* from Inv, which adds what the runs of FF bytes count.                   *)
(* Who takes part in a game follows from Membership, which adds that       *)
(* discovery hears what is on the wire.                                    *)
(* The cable, in the last part: CableInv, that a pair that could swap has  *)
(* done so unless it was switched to in the last step, with the types.     *)
(***************************************************************************)
EXTENDS MC_Links, Sequences, TLAPS

Recorders == {"Ping", "Transmission"}

(* How many bytes of the current packet are on record. *)
OnRecord == IF byte_index < 4 THEN byte_index ELSE 4

Shape ==
  /\ TypeOK
  /\ BufferShape
  /\ session_count = 0 => phase = "Ping" /\ byte_index = 0
  /\ phase \in Recorders => wire \in [0 .. OnRecord - 1 -> [Slots -> Byte]]
  /\ phase = "Transmission" => last_wire \in [0 .. packet_size - 1 -> [Slots -> Byte]]
  /\ phase = "Transmission" =>
       \A p \in Ports :
          /\ byte_index > 0 => ff_runs[p] \in {0, byte_index}
          /\ p \notin Slots => ff_runs[p] = 0

-----------------------------------------------------------------------------
(* A game only ever sends bytes. *)
LEMMA OutgoingBytes ==
  ASSUME Shape, NEW out \in Outgoing
  PROVE  out \in [Slots -> Byte]
<1>1. ASSUME NEW s \in Slots
      PROVE  Offered(s) \subseteq Byte
  <2>1. CASE phase = "Ping"
    <3>1. byte_index \in 0 .. 3
      BY <2>1 DEF Shape, TypeOK, BufferShape
    <3> QED
      BY <2>1, <3>1, RepliesAssumption DEF Offered
  <2>2. CASE phase # "Ping"
    BY <2>2, PayloadAssumption DEF Offered
  <2> QED
    BY <2>1, <2>2
<1>2. out \in [Slots -> UNION {Offered(s) : s \in Slots}] /\ \A s \in Slots : out[s] \in Offered(s)
  BY DEF Outgoing
<1> QED
  BY <1>1, <1>2

LEMMA AnsweringSlots ==
  ASSUME TypeOK, NEW r, NEW held
  PROVE  Answering(r, held) \subseteq Slots
BY DEF TypeOK, Answering

LEMMA RecordedType ==
  ASSUME Shape, phase \in Recorders, NEW out \in [Slots -> Byte]
  PROVE  Recorded(out) \in [0 .. (IF byte_index < 4 THEN byte_index ELSE 3) -> [Slots -> Byte]]
<1>1. CASE byte_index < 4
  BY <1>1, SMTT(90) DEF Shape, TypeOK, Recorded, OnRecord
<1>2. CASE ~ byte_index < 4
  <2>1. OnRecord - 1 = 3
    BY <1>2 DEF OnRecord
  <2> QED
  BY <1>2, <2>1 DEF Shape, TypeOK, Recorded
<1> QED
  BY <1>1, <1>2

(* Position i of a packet belongs to port i \div n, byte i % n. *)
LEMMA PacketPosition ==
  ASSUME NEW n \in 1 .. 4
  PROVE  /\ \A i \in 0 .. 4 * n - 1 : i \div n \in Ports /\ i % n \in 0 .. n - 1
         /\ \A s \in Ports, k \in 0 .. n - 1 :
               /\ s * n + k \in 0 .. 4 * n - 1
               /\ (s * n + k) \div n = s /\ (s * n + k) % n = k
<1>1. CASE n = 1
  BY <1>1 DEF Ports
<1>2. CASE n = 2
  BY <1>2 DEF Ports
<1>3. CASE n = 3
  BY <1>3 DEF Ports
<1>4. CASE n = 4
  BY <1>4 DEF Ports
<1> QED
  BY <1>1, <1>2, <1>3, <1>4

LEMMA CapturedType ==
  ASSUME Shape, phase = "Transmission", NEW out \in [Slots -> Byte]
  PROVE  Captured(out) \in [Ports -> [0 .. packet_size - 1 -> Byte]]
<1>1. capture \in [Ports -> [0 .. packet_size - 1 -> Byte]]
  BY DEF Shape, BufferShape
<1>2. ASSUME NEW p \in Ports, p \in Slots \cap connected, byte_index < packet_size
      PROVE  [capture[p] EXCEPT ![byte_index] = out[p]] \in [0 .. packet_size - 1 -> Byte]
  BY <1>1, <1>2
<1> QED
  BY <1>1, <1>2 DEF Captured

LEMMA ConcatenatedType ==
  ASSUME packet_size \in 1 .. 4, NEW c \in [Ports -> [0 .. packet_size - 1 -> Byte]]
  PROVE  Concatenated(c) \in [0 .. PacketLength - 1 -> Byte]
<1>1. ASSUME NEW i \in 0 .. PacketLength - 1
      PROVE  c[i \div packet_size][i % packet_size] \in Byte
  <2>1. i \div packet_size \in Ports /\ i % packet_size \in 0 .. packet_size - 1
    BY PacketPosition DEF PacketLength
  <2> QED
    BY <2>1
<1> QED
  BY <1>1 DEF Concatenated

LEMMA RunsType ==
  ASSUME Shape, phase = "Transmission", NEW out \in [Slots -> Byte]
  PROVE  /\ ObservedRuns(out) \in [Ports -> 0 .. 16]
         /\ \A p \in Ports :
              /\ ObservedRuns(out)[p] \in {0, byte_index + 1}
              /\ p \notin Slots => ObservedRuns(out)[p] = 0
<1>1. byte_index \in 0 .. 15
  BY DEF Shape, TypeOK
<1>2. ASSUME NEW p \in Ports
      PROVE  /\ ObservedRuns(out)[p] \in 0 .. 16
             /\ ObservedRuns(out)[p] \in {0, byte_index + 1}
             /\ p \notin Slots => ObservedRuns(out)[p] = 0
  <2>1. ff_runs[p] \in 0 .. 16
    BY DEF Shape, TypeOK
  <2>2. /\ byte_index > 0 => ff_runs[p] \in {0, byte_index}
        /\ p \notin Slots => ff_runs[p] = 0
    BY DEF Shape
  <2> QED
    BY <1>1, <2>1, <2>2 DEF ObservedRuns
<1> QED
  BY <1>2 DEF ObservedRuns, Slots

-----------------------------------------------------------------------------
(* Shape is inductive, action by action. *)

LEMMA EmptyRecords ==
  /\ NoReplies \in [Ports -> [0 .. 3 -> Byte]]
  /\ NoRuns \in [Ports -> 0 .. 16]
BY DEF NoReplies, NoRuns, Zeros, Byte

LEMMA ShapeInit == HInit => Shape
BY SMTT(90) DEF HInit, Init, Shape, TypeOK, BufferShape, NoWire, NoReplies, NoRuns, Zeros,
       OnRecord, Recorders, Phases, Slots, Ports, Byte

LEMMA ShapePing ==
  ASSUME Shape, session_count # 0, NEW out \in [Slots -> Byte], HTransfer(out), TransferPing(out)
  PROVE  Shape'
<1> DEFINE r == [p \in Ports |-> IF p \in Slots
                            THEN [ping_replies[p] EXCEPT ![byte_index] = out[p]]
                            ELSE ping_replies[p]]
<1>0. phase = "Ping" /\ byte_index \in 0 .. 3 /\ Slots' = Slots /\ UNCHANGED <<session_count, buffers, restart>>
  BY DEF Shape, TypeOK, BufferShape, TransferPing, Slots
<1>1. r \in [Ports -> [0 .. 3 -> Byte]]
  BY <1>0 DEF Shape, TypeOK
<1>2. Recorded(out) \in [0 .. byte_index -> [Slots -> Byte]]
  BY <1>0, RecordedType DEF Recorders
<1>3. Answering(r, r[0][0] = START /\ r[0][1] = START) \subseteq Slots
      /\ Answering(r, Started(r[0])) \subseteq Slots
  BY AnsweringSlots DEF Shape
<1>4. CASE byte_index < 3
  <2>1. /\ phase' = "Ping" /\ byte_index' = byte_index + 1 /\ ping_replies' = r
        /\ connected' = IF byte_index = 1
                        THEN Answering(r, r[0][0] = START /\ r[0][1] = START)
                        ELSE connected
        /\ UNCHANGED <<rate, ping_rate, packet_size>>
    BY <1>0, <1>4 DEF TransferPing
  <2>2. TypeOK'
    BY <1>0, <1>1, <1>3, <1>4, <2>1 DEF Shape, TypeOK, buffers, restart
  <2>3. wire' = Recorded(out)
    BY <1>0, <1>4, <2>1 DEF HTransfer
  <2>4. OnRecord' - 1 = byte_index
    BY <1>0, <1>4, <2>1 DEF OnRecord
  <2> QED
    BY <1>0, <1>2, <1>4, <2>1, <2>2, <2>3, <2>4 DEF Shape, BufferShape
<1>5. CASE byte_index = 3
  <2>1. /\ phase' \in {"Ping", "Confirm"} /\ byte_index' = 0 /\ ping_replies' = NoReplies
        /\ connected' = Answering(r, Started(r[0]))
        /\ rate' \in {rate, r[0][2]} /\ ping_rate' \in {ping_rate, r[0][2]}
        /\ packet_size' \in {Clamp(r[0][3]), packet_size}
    BY <1>5 DEF TransferPing
  <2>2. r[0][2] \in Byte /\ r[0][3] \in Byte
    BY <1>1 DEF Ports
  <2>3. Clamp(r[0][3]) \in 1 .. 4
    <3>1. PICK n \in 0 .. 255 : n = r[0][3]
      BY <2>2, ZenonT(120) DEF Byte
    <3>2. Clamp(n) \in 1 .. 4
      BY DEF Clamp
    <3> QED
      BY <3>1, <3>2, ZenonT(120)
  <2>4. NoReplies \in [Ports -> [0 .. 3 -> Byte]]
    BY EmptyRecords
  <2>5. TypeOK'
    <3>1. session_count' \in {0, 2, 3, 4} /\ byte_index' \in 0 .. 15 /\ phase' \in Phases
      BY <1>0, <2>1 DEF Shape, TypeOK, Phases
    <3>2. connected' \subseteq Slots' /\ ping_replies' \in [Ports -> [0 .. 3 -> Byte]]
      BY <1>0, <1>3, <2>1, <2>4
    <3>3. rate' \in Byte /\ ping_rate' \in Byte /\ packet_size' \in 1 .. 4
      BY <2>1, <2>2, <2>3 DEF Shape, TypeOK
    <3>4. ff_runs' \in [Ports -> 0 .. 16] /\ restart_pending' \in BOOLEAN
      BY <1>0 DEF Shape, TypeOK, restart
    <3> QED
      BY <3>1, <3>2, <3>3, <3>4 DEF TypeOK
  <2>6. wire' = NoWire
    BY <2>1 DEF HTransfer
  <2> QED
    BY <1>0, <2>1, <2>5, <2>6 DEF Shape, BufferShape, NoWire, OnRecord
<1> QED
  BY <1>0, <1>4, <1>5

LEMMA ShapeConfirm ==
  ASSUME Shape, session_count # 0, NEW out \in [Slots -> Byte], HTransfer(out), TransferConfirm(out)
  PROVE  Shape'
<1>0. phase = "Confirm" /\ byte_index \in 0 .. 3 /\ Slots' = Slots
      /\ packet_size' = packet_size /\ packet_size \in 1 .. 4
      /\ UNCHANGED <<session_count, discovery>>
  BY DEF Shape, TypeOK, BufferShape, TransferConfirm, Slots, discovery
<1>1. CASE byte_index = 3
  <2>1. BeginTransmission
    BY <1>1 DEF TransferConfirm
  <2>2. TypeOK'
    <3>1. session_count' \in {0, 2, 3, 4} /\ byte_index' \in 0 .. 15 /\ phase' \in Phases
      BY <1>0, <2>1 DEF Shape, TypeOK, BeginTransmission, Phases
    <3>2. /\ connected' \subseteq Slots' /\ ping_replies' \in [Ports -> [0 .. 3 -> Byte]]
          /\ rate' \in Byte /\ ping_rate' \in Byte /\ packet_size' \in 1 .. 4
      BY <1>0 DEF Shape, TypeOK, discovery
    <3>3. ff_runs' \in [Ports -> 0 .. 16] /\ restart_pending' \in BOOLEAN
      BY <2>1, EmptyRecords DEF BeginTransmission
    <3> QED
      BY <3>1, <3>2, <3>3 DEF TypeOK
  <2>3. BufferShape'
    BY <1>0, <2>1 DEF BufferShape, BeginTransmission, NoCapture, Zeros, PacketLength, Byte
  <2>4. wire' = NoWire /\ last_wire' = SilentContribution(packet_size)
    BY <1>0, <2>1 DEF HTransfer, BeginTransmission
  <2> QED
    BY <1>0, <2>1, <2>2, <2>3, <2>4
    DEF Shape, BeginTransmission, NoWire, SilentContribution, OnRecord, Byte
<1>2. CASE byte_index # 3
  <2>1. byte_index' = byte_index + 1 /\ UNCHANGED <<phase, buffers, restart>>
    BY <1>2 DEF TransferConfirm
  <2>2. TypeOK'
    BY <1>0, <1>2, <2>1 DEF Shape, TypeOK, discovery, restart
  <2> QED
    BY <1>0, <1>2, <2>1, <2>2 DEF Shape, BufferShape, Recorders
<1> QED
  BY <1>1, <1>2

LEMMA ShapeRestart ==
  ASSUME Shape, session_count # 0, NEW out \in [Slots -> Byte], HTransfer(out), TransferRestart(out)
  PROVE  Shape'
<1>0. /\ phase = "Restart" /\ byte_index \in 0 .. PacketLength - 1 /\ Slots' = Slots
      /\ packet_size \in 1 .. 4 /\ PacketLength' = PacketLength
      /\ UNCHANGED <<session_count, rate, ping_rate, packet_size, buffers>>
  BY DEF Shape, TypeOK, BufferShape, TransferRestart, Slots, PacketLength
<1>1. CASE byte_index + 1 = PacketLength
  <2>1. RestartPing
    BY <1>1 DEF TransferRestart
  <2>2. TypeOK'
    <3>1. session_count' \in {0, 2, 3, 4} /\ byte_index' \in 0 .. 15 /\ phase' \in Phases
      BY <1>0, <2>1 DEF Shape, TypeOK, RestartPing, Phases
    <3>2. connected' \subseteq Slots' /\ ping_replies' \in [Ports -> [0 .. 3 -> Byte]]
      BY <2>1, EmptyRecords DEF RestartPing
    <3>3. rate' \in Byte /\ ping_rate' \in Byte /\ packet_size' \in 1 .. 4
      BY <1>0 DEF Shape, TypeOK
    <3>4. ff_runs' \in [Ports -> 0 .. 16] /\ restart_pending' \in BOOLEAN
      BY <2>1, EmptyRecords DEF RestartPing
    <3> QED
      BY <3>1, <3>2, <3>3, <3>4 DEF TypeOK
  <2>3. wire' = NoWire
    BY <2>1 DEF HTransfer, RestartPing
  <2> QED
    BY <1>0, <2>1, <2>2, <2>3 DEF Shape, BufferShape, RestartPing, NoWire, OnRecord
<1>2. CASE byte_index + 1 # PacketLength
  <2>1. byte_index' = byte_index + 1 /\ UNCHANGED <<phase, connected, ping_replies, restart>>
    BY <1>2 DEF TransferRestart
  <2>2. TypeOK'
    BY <1>0, <1>2, <2>1 DEF Shape, TypeOK, PacketLength, restart
  <2> QED
    BY <1>0, <1>2, <2>1, <2>2 DEF Shape, BufferShape, Recorders, PacketLength
<1> QED
  BY <1>1, <1>2

LEMMA ShapePayload ==
  ASSUME Shape, session_count # 0, NEW out \in [Slots -> Byte], HTransfer(out), TransferPayload(out)
  PROVE  Shape'
<1> DEFINE runs == ObservedRuns(out)
<1>0. /\ phase = "Transmission" /\ byte_index \in 0 .. PacketLength - 1 /\ Slots' = Slots
      /\ packet_size \in 1 .. 4 /\ packet_size' = packet_size /\ PacketLength' = PacketLength
      /\ PacketLength = 4 * packet_size
      /\ ff_runs' = runs
      /\ UNCHANGED <<session_count, discovery>>
  BY DEF Shape, TypeOK, BufferShape, TransferPayload, Slots, PacketLength, discovery
<1>1. /\ runs \in [Ports -> 0 .. 16]
      /\ \A p \in Ports : runs[p] \in {0, byte_index + 1} /\ (p \notin Slots => runs[p] = 0)
  BY <1>0, RunsType
<1>2. Captured(out) \in [Ports -> [0 .. packet_size - 1 -> Byte]]
  BY <1>0, CapturedType
<1>3. Recorded(out) \in [0 .. (IF byte_index < 4 THEN byte_index ELSE 3) -> [Slots -> Byte]]
  BY <1>0, RecordedType DEF Recorders
<1>4. ASSUME phase' \in Phases, byte_index' \in 0 .. 15, restart_pending' \in BOOLEAN
      PROVE  TypeOK'
  <2>1. session_count' \in {0, 2, 3, 4} /\ packet_size' \in 1 .. 4
    BY <1>0 DEF Shape, TypeOK
  <2>2. /\ connected' \subseteq Slots' /\ ping_replies' \in [Ports -> [0 .. 3 -> Byte]]
        /\ rate' \in Byte /\ ping_rate' \in Byte
    BY <1>0 DEF Shape, TypeOK, discovery
  <2> QED
    BY <1>0, <1>1, <1>4, <2>1, <2>2 DEF TypeOK
<1>5. restart_pending \in BOOLEAN
  BY DEF Shape, TypeOK
<1>6. CASE byte_index + 1 # PacketLength
  <2>1. /\ byte_index' = byte_index + 1 /\ capture' = Captured(out)
        /\ restart_pending' = (restart_pending \/ RestartSeen(runs))
        /\ UNCHANGED <<phase, broadcast>>
    BY <1>6 DEF TransferPayload
  <2>2. TypeOK'
    BY <1>0, <1>4, <1>6, <2>1 DEF Phases
  <2>3. BufferShape'
    BY <1>0, <1>2, <1>6, <2>1 DEF Shape, BufferShape
  <2>4. wire' = Recorded(out) /\ last_wire' = last_wire
    BY <1>0, <1>6, <2>1 DEF HTransfer
  <2>5. OnRecord' - 1 = IF byte_index < 4 THEN byte_index ELSE 3
    BY <1>0, <1>6, <2>1 DEF OnRecord
  <2> QED
    BY <1>0, <1>1, <1>3, <2>1, <2>2, <2>3, <2>4, <2>5 DEF Shape
<1>7. CASE byte_index + 1 = PacketLength /\ phase' = "Restart"
  <2>1. byte_index' = 0 /\ restart_pending' = FALSE
    BY <1>0, <1>7 DEF TransferPayload
  <2>2. TypeOK'
    <3>1. phase' \in Phases /\ byte_index' \in 0 .. 15
      BY <1>7, <2>1 DEF Phases
    <3>2. restart_pending' \in BOOLEAN
      BY <2>1
    <3> QED
      BY <1>4, <3>1, <3>2
  <2> QED
    BY <1>0, <1>7, <2>1, <2>2 DEF Shape, BufferShape, Recorders
<1>8. CASE byte_index + 1 = PacketLength /\ phase' # "Restart"
  <2>1. /\ byte_index' = 0 /\ broadcast' = Concatenated(Captured(out))
        /\ capture' = NoCapture(packet_size) /\ UNCHANGED <<phase, restart_pending>>
    BY <1>0, <1>8 DEF TransferPayload
  <2>2. TypeOK'
    BY <1>0, <1>4, <1>5, <2>1 DEF Phases
  <2>3. broadcast' \in [0 .. PacketLength - 1 -> Byte]
    BY <1>0, <1>2, <2>1, ConcatenatedType
  <2>4. capture' \in [Ports -> [0 .. packet_size - 1 -> Byte]]
    BY <2>1 DEF NoCapture, Zeros, Byte
  <2>5. BufferShape'
    BY <1>0, <2>1, <2>3, <2>4 DEF BufferShape
  <2>6. wire' = NoWire /\ last_wire' = [k \in 0 .. packet_size - 1 |-> Recorded(out)[k]]
    BY <1>0, <2>1 DEF HTransfer
  <2>7. 0 .. packet_size - 1 \subseteq 0 .. (IF byte_index < 4 THEN byte_index ELSE 3)
    BY <1>0, <1>8
  <2>8. last_wire' \in [0 .. packet_size' - 1 -> [Slots' -> Byte]]
    BY <1>0, <1>3, <2>6, <2>7
  <2>9. wire' \in [0 .. OnRecord' - 1 -> [Slots' -> Byte]]
    BY <2>1, <2>6 DEF OnRecord, NoWire
  <2> QED
    BY <1>0, <1>1, <2>1, <2>2, <2>5, <2>8, <2>9 DEF Shape
<1> QED
  BY <1>6, <1>7, <1>8

LEMMA ShapeStep == Shape /\ [HNext]_vars => Shape'
<1> SUFFICES ASSUME Shape, [HNext]_vars PROVE Shape'
  OBVIOUS
<1>1. ASSUME NEW n \in SessionCounts, session_count = 0, HBind(n)
      PROVE  Shape'
  <2>1. /\ session_count' = n /\ n \in 2 .. 4 /\ Slots = {}
        /\ UNCHANGED <<phase, byte_index, discovery, buffers, restart, wire, last_wire>>
    BY <1>1, SessionCountsAssumption DEF HBind, Bind, Slots, Ports
  <2>2. byte_index = 0 /\ phase = "Ping"
    BY <1>1 DEF Shape
  <2>3. wire' \in [0 .. OnRecord' - 1 -> [Slots' -> Byte]]
    BY <2>1, <2>2 DEF Shape, OnRecord, Recorders
  <2>4. TypeOK'
    BY <2>1 DEF Shape, TypeOK, discovery, restart
  <2> QED
    BY <2>1, <2>2, <2>3, <2>4 DEF Shape, BufferShape
<1>2. ASSUME session_count # 0, NEW out \in Outgoing, HTransfer(out)
      PROVE  Shape'
  <2>1. out \in [Slots -> Byte]
    BY OutgoingBytes
  <2> QED
    BY <1>2, <2>1, ShapePing, ShapeConfirm, ShapePayload, ShapeRestart DEF HTransfer, Transfer
<1>3. CASE UNCHANGED vars
  BY <1>3 DEF vars, adapterVars, discovery, buffers, restart, Shape, TypeOK, BufferShape,
              OnRecord, Slots, PacketLength
<1> QED
  BY <1>1, <1>2, <1>3 DEF HNext

(* The adapter never leaves its types nor indexes past a buffer, whatever  *)
(* the games send: transfer_payload and transfer_restart (link.rs:450-506) *)
(* always reach the end of a packet exactly.                               *)
THEOREM AdapterShape == HSpec => [](TypeOK /\ BufferShape)
<1>1. Shape => TypeOK /\ BufferShape
  BY DEF Shape
<1> QED
  BY ShapeInit, ShapeStep, <1>1, PTL DEF HSpec

-----------------------------------------------------------------------------
(* What the runs of FF bytes count: the first bytes of this packet.        *)
OpenedWithFF(p) ==
  p \in connected /\ \A k \in 0 .. 2 : k < byte_index => wire[k][p] = FF

RunsAreOpenings ==
  phase = "Transmission" /\ byte_index > 0 =>
    \A p \in Ports :
      /\ ff_runs[p] # 0 => OpenedWithFF(p)
      /\ byte_index <= 3 /\ OpenedWithFF(p) => ff_runs[p] # 0

Inv ==
  /\ Shape
  /\ CaptureIsWire
  /\ BroadcastIsLastPacket
  /\ RunsAreOpenings
  /\ RestartIffRequested

LEMMA InvInit == HInit => Inv
BY ShapeInit
DEF HInit, Init, Inv, CaptureIsWire, BroadcastIsLastPacket, RunsAreOpenings, RestartIffRequested

(* Only a transmission, or its beginning, disturbs the contents. *)
LEMMA InvOutside ==
  ASSUME Inv, Shape', phase' # "Transmission"
  PROVE  Inv'
BY DEF Inv, CaptureIsWire, BroadcastIsLastPacket, RunsAreOpenings, RestartIffRequested

LEMMA InvConfirm ==
  ASSUME Inv, Shape', NEW out \in [Slots -> Byte], HTransfer(out), TransferConfirm(out)
  PROVE  Inv'
<1>1. CASE phase' # "Transmission"
  BY <1>1, InvOutside
<1>2. CASE phase' = "Transmission"
  <2>1. /\ phase = "Confirm" /\ byte_index' = 0 /\ restart_pending' = FALSE
        /\ capture' = NoCapture(packet_size) /\ broadcast' = Zeros(PacketLength)
        /\ UNCHANGED <<session_count, discovery>>
    BY <1>2 DEF TransferConfirm, BeginTransmission
  <2>2. last_wire' = SilentContribution(packet_size) /\ packet_size \in 1 .. 4
    BY <1>2, <2>1 DEF HTransfer, Inv, Shape, TypeOK
  <2>3. packet_size' = packet_size /\ connected' = connected /\ Slots' = Slots /\ connected \subseteq Slots
    BY <2>1 DEF discovery, Slots, Inv, Shape, TypeOK
  <2>4. CaptureIsWire'
    BY <2>1, <2>2, <2>3 DEF CaptureIsWire, NoCapture, Zeros
  <2>5. BroadcastIsLastPacket'
    <3>1. ASSUME NEW s \in Ports, NEW k \in 0 .. packet_size - 1
          PROVE  broadcast'[s * packet_size + k] = IF s \in connected THEN last_wire'[k][s] ELSE 0
      <4>1. s * packet_size + k \in 0 .. PacketLength - 1
        BY <2>2, PacketPosition DEF PacketLength
      <4>2. broadcast'[s * packet_size + k] = 0
        BY <2>1, <4>1 DEF Zeros
      <4>3. s \in connected => last_wire'[k][s] = 0
        BY <2>2, <2>3 DEF SilentContribution
      <4> QED
        BY <4>2, <4>3
    <3> QED
      BY <2>3, <3>1 DEF BroadcastIsLastPacket
  <2>6. RunsAreOpenings' /\ RestartIffRequested'
    BY <2>1 DEF RunsAreOpenings, RestartIffRequested, AlignedRequest
  <2> QED
    BY <2>4, <2>5, <2>6 DEF Inv
<1> QED
  BY <1>1, <1>2

(* What a byte adds to the captures is what it adds to the record. *)
LEMMA CapturedIsRecorded ==
  ASSUME Inv, phase = "Transmission", NEW out \in [Slots -> Byte],
         NEW s \in Ports, NEW k \in 0 .. packet_size - 1
  PROVE  Captured(out)[s][k] =
           IF s \in connected /\ k < byte_index + 1 THEN Recorded(out)[k][s] ELSE 0
<1>1. /\ capture \in [Ports -> [0 .. packet_size - 1 -> Byte]]
      /\ packet_size \in 1 .. 4 /\ byte_index \in 0 .. 15 /\ connected \subseteq Slots
  BY DEF Inv, Shape, TypeOK, BufferShape
<1>2. capture[s][k] = IF s \in connected /\ k < byte_index THEN wire[k][s] ELSE 0
  BY DEF Inv, CaptureIsWire
<1>3. k \in 0 .. 3 /\ k \in Int
  BY <1>1
<1>4. k < byte_index => Recorded(out)[k] = wire[k]
  BY <1>1, <1>3, SMTT(90) DEF Recorded
<1>5. k = byte_index => Recorded(out)[k] = out
  BY <1>1, <1>3 DEF Recorded
<1>6. CASE s \in connected /\ k = byte_index
  <2>1. Captured(out)[s] = [capture[s] EXCEPT ![byte_index] = out[s]]
    <3>1. s \in Slots \cap connected /\ byte_index < packet_size
      BY <1>1, <1>6
    <3> QED
      BY <3>1 DEF Captured
  <2> QED
    BY <1>1, <1>5, <1>6, <2>1
<1>7. CASE ~ (s \in connected /\ k = byte_index)
  <2>1. Captured(out)[s][k] = capture[s][k]
    <3>1. CASE s \in Slots \cap connected /\ byte_index < packet_size
      <4>1. Captured(out)[s] = [capture[s] EXCEPT ![byte_index] = out[s]]
        BY <3>1 DEF Captured
      <4> QED
        BY <1>1, <1>7, <3>1, <4>1
    <3>2. CASE ~ (s \in Slots \cap connected /\ byte_index < packet_size)
      BY <3>2 DEF Captured
    <3> QED
      BY <3>1, <3>2
  <2> QED
    BY <1>1, <1>2, <1>3, <1>4, <1>7, <2>1
<1> QED
  BY <1>6, <1>7

(* A run that has reached three, and the request it stands for. *)
LEMMA SeenIffAligned ==
  ASSUME Inv, phase = "Transmission", NEW out \in [Slots -> Byte]
  PROVE  /\ \A p \in Ports :
              /\ ObservedRuns(out)[p] # 0 =>
                   p \in connected /\ \A k \in 0 .. 2 : k < byte_index + 1 => Recorded(out)[k][p] = FF
              /\ byte_index + 1 <= 3 /\ p \in connected
                   /\ (\A k \in 0 .. 2 : k < byte_index + 1 => Recorded(out)[k][p] = FF)
                   => ObservedRuns(out)[p] # 0
         /\ restart_pending \/ RestartSeen(ObservedRuns(out)) <=>
              \E p \in connected : byte_index + 1 >= 3 /\ \A k \in 0 .. 2 : Recorded(out)[k][p] = FF
<1> DEFINE runs == ObservedRuns(out)
           Opened(p) == p \in connected
                        /\ \A k \in 0 .. 2 : k < byte_index + 1 => Recorded(out)[k][p] = FF
<1>1. byte_index \in 0 .. 15 /\ connected \subseteq Slots /\ Slots \subseteq Ports
  BY DEF Inv, Shape, TypeOK, Slots
<1>2. \A k \in 0 .. 2 : /\ k < byte_index => Recorded(out)[k] = wire[k]
                        /\ k = byte_index => Recorded(out)[k] = out
  BY <1>1 DEF Recorded
<1>3. \A p \in Ports : runs[p] \in {0, byte_index + 1}
  BY RunsType DEF Inv
<1>4. ASSUME NEW p \in Ports
      PROVE  /\ runs[p] # 0 => Opened(p)
             /\ byte_index + 1 <= 3 /\ Opened(p) => runs[p] # 0
  <2>1. /\ byte_index > 0 /\ ff_runs[p] # 0 => OpenedWithFF(p)
        /\ byte_index > 0 /\ byte_index <= 3 /\ OpenedWithFF(p) => ff_runs[p] # 0
        /\ byte_index > 0 => ff_runs[p] \in {0, byte_index}
        /\ p \notin Slots => ff_runs[p] = 0
    BY <1>1 DEF Inv, Shape, RunsAreOpenings
  <2>2. ASSUME runs[p] # 0 PROVE Opened(p)
    <3>1. p \in connected /\ out[p] = FF /\ (byte_index > 0 => ff_runs[p] # 0)
      BY <1>1, <2>1, <2>2 DEF ObservedRuns
    <3> QED
      BY <1>1, <1>2, <2>1, <3>1 DEF OpenedWithFF
  <2>3. ASSUME byte_index + 1 <= 3, Opened(p) PROVE runs[p] # 0
    <3>1. p \in connected /\ p \in Slots /\ out[p] = FF
      BY <1>1, <1>2, <2>3
    <3>2. byte_index > 0 => OpenedWithFF(p)
      BY <1>1, <1>2, <2>3 DEF OpenedWithFF
    <3>3. byte_index > 0 => ff_runs[p] # 0 /\ ff_runs[p] = byte_index
      BY <1>1, <2>1, <2>3, <3>2
    <3> QED
      BY <1>1, <3>1, <3>3 DEF ObservedRuns
  <2> QED
    BY <2>2, <2>3
<1>5. restart_pending <=> \E p \in connected : AlignedRequest(p)
  BY DEF Inv, RestartIffRequested
<1>6. restart_pending \/ RestartSeen(runs) <=>
        \E p \in connected : byte_index + 1 >= 3 /\ \A k \in 0 .. 2 : Recorded(out)[k][p] = FF
  <2>1. CASE byte_index <= 1
    BY <1>1, <1>3, <1>5, <2>1 DEF RestartSeen, AlignedRequest
  <2>2. CASE byte_index = 2
    <3>1. ~ restart_pending
      BY <1>5, <2>2 DEF AlignedRequest
    <3>2. RestartSeen(runs) <=> \E p \in Ports : runs[p] # 0
      BY <1>3, <2>2 DEF RestartSeen
    <3>3. \A p \in Ports : runs[p] # 0 <=> p \in connected /\ \A k \in 0 .. 2 : Recorded(out)[k][p] = FF
      BY <1>4, <2>2
    <3> QED
      BY <1>1, <2>2, <3>1, <3>2, <3>3
  <2>3. CASE byte_index > 2
    <3>1. \A k \in 0 .. 2 : Recorded(out)[k] = wire[k]
      BY <1>1, <1>2, <2>3
    <3>2. RestartSeen(runs) => \E p \in connected : \A k \in 0 .. 2 : Recorded(out)[k][p] = FF
      BY <1>1, <1>4, <2>3 DEF RestartSeen
    <3> QED
      BY <1>1, <1>5, <2>3, <3>1, <3>2 DEF AlignedRequest
  <2> QED
    BY <1>1, <2>1, <2>2, <2>3
<1> QED
  BY <1>4, <1>6

LEMMA InvPayload ==
  ASSUME Inv, Shape', NEW out \in [Slots -> Byte], HTransfer(out), TransferPayload(out)
  PROVE  Inv'
<1> DEFINE runs == ObservedRuns(out)
<1>0. /\ phase = "Transmission" /\ byte_index \in 0 .. PacketLength - 1
      /\ packet_size \in 1 .. 4 /\ packet_size' = packet_size /\ PacketLength = 4 * packet_size
      /\ connected' = connected /\ connected \subseteq Ports /\ ff_runs' = runs
  BY DEF Inv, Shape, TypeOK, BufferShape, TransferPayload, PacketLength, discovery, Slots
<1>1. CASE phase' # "Transmission"
  BY <1>1, InvOutside
<1>2. CASE phase' = "Transmission" /\ byte_index + 1 # PacketLength
  <2>1. /\ byte_index' = byte_index + 1 /\ capture' = Captured(out) /\ broadcast' = broadcast
        /\ restart_pending' = (restart_pending \/ RestartSeen(runs))
    BY <1>2 DEF TransferPayload
  <2>2. wire' = Recorded(out) /\ last_wire' = last_wire
    BY <1>0, <1>2, <2>1 DEF HTransfer
  <2>3. CaptureIsWire'
    BY <1>0, <2>1, <2>2, CapturedIsRecorded DEF CaptureIsWire
  <2>4. BroadcastIsLastPacket'
    BY <1>0, <2>1, <2>2 DEF Inv, BroadcastIsLastPacket
  <2>5. RunsAreOpenings'
    BY <1>0, <2>1, <2>2, SeenIffAligned DEF RunsAreOpenings, OpenedWithFF
  <2>6. RestartIffRequested'
    BY <1>0, <2>1, <2>2, SeenIffAligned DEF RestartIffRequested, AlignedRequest
  <2> QED
    BY <2>3, <2>4, <2>5, <2>6 DEF Inv
<1>3. CASE phase' = "Transmission" /\ byte_index + 1 = PacketLength
  <2>1. /\ byte_index' = 0 /\ broadcast' = Concatenated(Captured(out))
        /\ capture' = NoCapture(packet_size) /\ ~ (restart_pending \/ RestartSeen(runs))
        /\ restart_pending' = restart_pending
    BY <1>3 DEF TransferPayload
  <2>2. last_wire' = [k \in 0 .. packet_size - 1 |-> Recorded(out)[k]]
    BY <1>0, <1>3, <2>1 DEF HTransfer
  <2>3. CaptureIsWire'
    BY <1>0, <2>1 DEF CaptureIsWire, NoCapture, Zeros
  <2>4. BroadcastIsLastPacket'
    <3>1. ASSUME NEW s \in Ports, NEW k \in 0 .. packet_size - 1
          PROVE  broadcast'[s * packet_size + k] = IF s \in connected THEN last_wire'[k][s] ELSE 0
      <4>1. /\ s * packet_size + k \in 0 .. PacketLength - 1
            /\ (s * packet_size + k) \div packet_size = s
            /\ (s * packet_size + k) % packet_size = k
        BY <1>0, PacketPosition
      <4>2. broadcast'[s * packet_size + k] = Captured(out)[s][k]
        BY <2>1, <4>1 DEF Concatenated
      <4>3. k < byte_index + 1
        BY <1>0, <1>3
      <4>4. Captured(out)[s][k] = IF s \in connected THEN Recorded(out)[k][s] ELSE 0
        BY <1>0, <4>3, CapturedIsRecorded
      <4> QED
        BY <2>2, <4>2, <4>4
    <3> QED
      BY <1>0, <1>3, <3>1 DEF BroadcastIsLastPacket
  <2>5. RunsAreOpenings' /\ RestartIffRequested'
    BY <2>1 DEF RunsAreOpenings, RestartIffRequested, AlignedRequest, Inv, Shape, TypeOK
  <2> QED
    BY <2>3, <2>4, <2>5 DEF Inv
<1> QED
  BY <1>1, <1>2, <1>3

LEMMA InvStep == Inv /\ [HNext]_vars => Inv'
<1> SUFFICES ASSUME Inv, [HNext]_vars PROVE Inv'
  OBVIOUS
<1>0. Shape'
  BY ShapeStep DEF Inv
<1>1. ASSUME NEW n \in SessionCounts, session_count = 0, HBind(n)
      PROVE  Inv'
  <2>1. phase' = "Ping"
    BY <1>1 DEF HBind, Bind, Inv, Shape
  <2> QED
    BY <1>0, <2>1, InvOutside
<1>2. ASSUME session_count # 0, NEW out \in Outgoing, HTransfer(out)
      PROVE  Inv'
  <2>1. out \in [Slots -> Byte]
    BY OutgoingBytes DEF Inv
  <2>2. CASE TransferPing(out)
    <3>1. phase' # "Transmission"
      BY <2>2 DEF TransferPing, Inv, Shape, TypeOK
    <3> QED
      BY <1>0, <3>1, InvOutside
  <2>3. CASE TransferRestart(out)
    <3>1. phase' # "Transmission"
      BY <2>3 DEF TransferRestart, RestartPing
    <3> QED
      BY <1>0, <3>1, InvOutside
  <2> QED
    BY <1>0, <1>2, <2>1, <2>2, <2>3, InvConfirm, InvPayload DEF HTransfer, Transfer
<1>3. CASE UNCHANGED vars
  <2>1. UNCHANGED <<phase, byte_index, connected, packet_size, capture, broadcast, ff_runs,
                    restart_pending, wire, last_wire>>
    BY <1>3 DEF vars, adapterVars, discovery, buffers, restart
  <2> QED
    BY <1>0, <2>1 DEF Inv, CaptureIsWire, BroadcastIsLastPacket, RunsAreOpenings, OpenedWithFF,
                      RestartIffRequested, AlignedRequest
<1> QED
  BY <1>1, <1>2, <1>3 DEF HNext

(* Every packet broadcast during a game is, port by port, what the         *)
(* connected players sent at the beginning of the packet before it, and    *)
(* zeros for everybody else (transfer_payload, link.rs:450-492).           *)
THEOREM OnePacketLatency == HSpec => [](CaptureIsWire /\ BroadcastIsLastPacket)
<1>1. Inv => CaptureIsWire /\ BroadcastIsLastPacket
  BY DEF Inv
<1> QED
  BY InvInit, InvStep, <1>1, PTL DEF HSpec

(* A restart is pending exactly when a connected player opened this packet *)
(* with three FF bytes (observe_restart_request, link.rs:535-546): data    *)
(* with FF bytes in it never ends a game.                                  *)
THEOREM RestartExactly == HSpec => []RestartIffRequested
<1>1. Inv => RestartIffRequested
  BY DEF Inv
<1> QED
  BY InvInit, InvStep, <1>1, PTL DEF HSpec

-----------------------------------------------------------------------------
(* The adapter implements Dmg07Broadcast. *)

Packet == IF phase = "Transmission" THEN broadcast ELSE Zeros(PacketLength)

LEMMA SameWords ==
  /\ Broadcast!Participants = Slots
  /\ \A n : Broadcast!Silence(n) = Zeros(4 * n)
BY DEF Broadcast!Participants, Broadcast!Silence, Slots, Ports, Zeros

LEMMA InitRefines == HInit => Broadcast!Init
BY DEF HInit, Init, Broadcast!Init, Broadcast!Silence, Zeros, PacketLength

LEMMA PingRefines ==
  ASSUME Inv, Shape', NEW out \in [Slots -> Byte], TransferPing(out)
  PROVE  Broadcast!Next
<1> DEFINE r == [p \in Ports |-> IF p \in Slots
                            THEN [ping_replies[p] EXCEPT ![byte_index] = out[p]]
                            ELSE ping_replies[p]]
<1>0. /\ phase = "Ping" /\ session_count' = session_count /\ Slots' = Slots
      /\ connected' \subseteq Slots /\ packet_size' \in 1 .. 4
      /\ byte_index \in 0 .. 3
  BY DEF TransferPing, Slots, Inv, Shape, TypeOK, BufferShape
<1>1. CASE phase' = "Ping"
  <2>1. Packet' = Broadcast!Silence(packet_size')
    BY <1>1, SameWords DEF Packet, PacketLength, Zeros
  <2>2. Broadcast!Gather
    BY <1>0, <1>1, <2>1, SameWords DEF Broadcast!Gather, Packet
  <2> QED
    BY <2>2 DEF Broadcast!Next
<1>2. CASE phase' # "Ping"
  <2>1. /\ byte_index = 3 /\ Started(r[0]) /\ phase' = "Confirm"
        /\ connected' = Answering(r, Started(r[0]))
        /\ packet_size' = IF Acked(r[0]) THEN Clamp(r[0][3]) ELSE packet_size
    BY <1>0, <1>2 DEF TransferPing
  <2>2. ~ Acked(r[0])
    BY <2>1 DEF Acked, Started, ACK, START
  <2>3. packet_size' = packet_size /\ (0 \in connected' => 0 \in connected)
    BY <2>1, <2>2 DEF Answering
  <2>4. Packet' = Packet
    BY <1>0, <2>1, <2>3 DEF Packet, PacketLength, Zeros
  <2>5. Broadcast!StartGame
    BY <1>0, <2>1, <2>3, <2>4, SameWords DEF Broadcast!StartGame, Packet
  <2> QED
    BY <2>5 DEF Broadcast!Next
<1> QED
  BY <1>1, <1>2

LEMMA PayloadRefines ==
  ASSUME Inv, Shape', NEW out \in [Slots -> Byte], TransferPayload(out)
  PROVE  Broadcast!Next \/ UNCHANGED Broadcast!vars
<1>0. /\ phase = "Transmission" /\ byte_index \in 0 .. PacketLength - 1
      /\ packet_size \in 1 .. 4 /\ PacketLength = 4 * packet_size
      /\ UNCHANGED <<session_count, connected, packet_size>>
  BY DEF Inv, Shape, TypeOK, BufferShape, TransferPayload, PacketLength, discovery
<1>1. CASE byte_index + 1 # PacketLength
  <2>1. UNCHANGED <<phase, broadcast>>
    BY <1>1 DEF TransferPayload
  <2> QED
    BY <1>0, <2>1 DEF Broadcast!vars
<1>2. CASE byte_index + 1 = PacketLength /\ phase' = "Restart"
  <2>1. restart_pending \/ RestartSeen(ObservedRuns(out))
    BY <1>0, <1>2 DEF TransferPayload
  <2>2. connected # {}
    BY <1>0, <2>1, SeenIffAligned
  <2>3. Packet' = Broadcast!Silence(packet_size)
    BY <1>0, <1>2, SameWords DEF Packet, PacketLength, Zeros
  <2>4. Broadcast!StopGame
    BY <1>0, <1>2, <2>2, <2>3 DEF Broadcast!StopGame, Packet
  <2> QED
    BY <2>4 DEF Broadcast!Next
<1>3. CASE byte_index + 1 = PacketLength /\ phase' # "Restart"
  <2>1. phase' = phase /\ broadcast' = Concatenated(Captured(out))
    BY <1>0, <1>3 DEF TransferPayload
  <2>2. broadcast' \in [0 .. 4 * packet_size - 1 -> 0 .. 255]
    BY <1>0, <2>1 DEF Shape, BufferShape, PacketLength, Byte
  <2>3. ASSUME NEW i \in 0 .. 4 * packet_size - 1, broadcast'[i] # 0
        PROVE  i \div packet_size \in connected
    <3>1. i \div packet_size \in Ports /\ i % packet_size \in 0 .. packet_size - 1
      BY <1>0, PacketPosition
    <3>2. broadcast'[i] = Captured(out)[i \div packet_size][i % packet_size]
      BY <1>0, <2>1 DEF Concatenated
    <3> QED
      BY <1>0, <2>3, <3>1, <3>2, CapturedIsRecorded
  <2>4. DOMAIN broadcast' = 0 .. 4 * packet_size - 1
    BY <2>2
  <2>5. Broadcast!NextRound
    BY <1>0, <2>1, <2>2, <2>3, <2>4 DEF Broadcast!NextRound
  <2> QED
    BY <2>5 DEF Broadcast!Next
<1> QED
  BY <1>1, <1>2, <1>3

LEMMA ConfirmRestartRefine ==
  ASSUME Inv, NEW out \in [Slots -> Byte], TransferConfirm(out) \/ TransferRestart(out)
  PROVE  Broadcast!Next \/ UNCHANGED Broadcast!vars
<1>0. UNCHANGED <<session_count, packet_size>> /\ phase \in {"Confirm", "Restart"}
  BY DEF TransferConfirm, TransferRestart, discovery
<1>1. CASE phase' = phase
  <2>1. connected' = connected
    BY <1>0, <1>1 DEF TransferConfirm, TransferRestart, RestartPing, discovery
  <2>2. Packet' = Packet
    BY <1>0, <1>1 DEF Packet, PacketLength, Zeros
  <2> QED
    BY <1>0, <1>1, <2>1, <2>2 DEF Broadcast!vars, Packet
<1>2. CASE phase' # phase /\ TransferConfirm(out)
  <2>1. phase = "Confirm" /\ phase' = "Transmission" /\ broadcast' = Zeros(PacketLength)
        /\ connected' = connected
    BY <1>2 DEF TransferConfirm, BeginTransmission, discovery
  <2>2. Packet' = Packet
    BY <1>0, <2>1 DEF Packet
  <2>3. Broadcast!FirstRound
    BY <1>0, <2>1, <2>2 DEF Broadcast!FirstRound, Packet
  <2> QED
    BY <2>3 DEF Broadcast!Next
<1>3. CASE phase' # phase /\ TransferRestart(out)
  <2>1. phase = "Restart" /\ phase' = "Ping" /\ connected' = {}
    BY <1>3 DEF TransferRestart, RestartPing
  <2>2. Packet' = Packet
    BY <1>0, <2>1 DEF Packet, PacketLength, Zeros
  <2>3. Broadcast!Regather
    BY <1>0, <2>1, <2>2 DEF Broadcast!Regather, Packet
  <2> QED
    BY <2>3 DEF Broadcast!Next
<1> QED
  BY <1>1, <1>2, <1>3

LEMMA StepRefines == Inv /\ [HNext]_vars => [Broadcast!Next]_(Broadcast!vars)
<1> SUFFICES ASSUME Inv, [HNext]_vars PROVE Broadcast!Next \/ UNCHANGED Broadcast!vars
  OBVIOUS
<1>0. Shape'
  BY ShapeStep DEF Inv
<1>1. ASSUME NEW n \in SessionCounts, session_count = 0, HBind(n)
      PROVE  Broadcast!Next
  <2>1. /\ session_count' = n /\ n \in 2 .. 4 /\ phase = "Ping" /\ Slots = {}
        /\ UNCHANGED <<phase, connected, packet_size>> /\ packet_size \in 1 .. 4
        /\ connected \subseteq Slots
    BY <1>1, SessionCountsAssumption
    DEF HBind, Bind, Inv, Shape, TypeOK, discovery, Slots, Ports
  <2>2. Packet' = Broadcast!Silence(packet_size')
    BY <2>1, SameWords DEF Packet, PacketLength, Zeros
  <2>3. Broadcast!Gather
    BY <1>1, <2>1, <2>2, SameWords DEF Broadcast!Gather, Packet
  <2> QED
    BY <2>3 DEF Broadcast!Next
<1>2. ASSUME session_count # 0, NEW out \in Outgoing, HTransfer(out)
      PROVE  Broadcast!Next \/ UNCHANGED Broadcast!vars
  <2>1. out \in [Slots -> Byte]
    BY OutgoingBytes DEF Inv
  <2> QED
    BY <1>0, <1>2, <2>1, PingRefines, PayloadRefines, ConfirmRestartRefine DEF HTransfer, Transfer
<1>3. CASE UNCHANGED vars
  <2>1. UNCHANGED <<session_count, phase, connected, packet_size, broadcast>>
    BY <1>3 DEF vars, adapterVars, discovery, buffers
  <2> QED
    BY <2>1 DEF Broadcast!vars, PacketLength, Zeros
<1> QED
  BY <1>1, <1>2, <1>3 DEF HNext

(* The per-byte protocol of the adapter is an implementation of the        *)
(* round-based service: fixed membership during a game, data from members  *)
(* only, a stop only in a game with a member.                              *)
THEOREM AdapterRefinesBroadcast == HSpec => ImplementsBroadcast
BY InitRefines, InvInit, InvStep, StepRefines, PTL
DEF HSpec, ImplementsBroadcast, Broadcast!Spec

-----------------------------------------------------------------------------
(* Who takes part in a game. *)

(* What was heard of the replies is what the games sent. *)
RepliesAreWire ==
  phase = "Ping" => \A s \in Slots, k \in 0 .. 2 : k < byte_index => ping_replies[s][k] = wire[k][s]

(* Player 1 is still what it was when it began to start. *)
StarterKeeps ==
  phase = "Ping" =>
    /\ byte_index = 1 => (0 \in connected <=> 0 \in met)
    /\ byte_index \in 2 .. 3 /\ ping_replies[0][0] = START /\ ping_replies[0][1] = START
         => (0 \in connected <=> 0 \in met)

Membership == Shape /\ RepliesAreWire /\ StarterKeeps

(* The replies with a byte more; it is heard and recorded alike. *)
Heard(out) ==
  [p \in Ports |-> IF p \in Slots THEN [ping_replies[p] EXCEPT ![byte_index] = out[p]]
                   ELSE ping_replies[p]]

LEMMA HeardIsRecorded ==
  ASSUME Membership, phase = "Ping", session_count # 0, NEW out \in [Slots -> Byte]
  PROVE  /\ byte_index \in 0 .. 3 /\ 0 \in Slots
         /\ \A s \in Slots, k \in 0 .. 2 : k < byte_index => Heard(out)[s][k] = wire[k][s]
         /\ \A s \in Slots, k \in 0 .. 2 : k =< byte_index => Heard(out)[s][k] = Recorded(out)[k][s]
<1> DEFINE r == Heard(out)
<1>1. byte_index \in 0 .. 3 /\ 0 \in Slots /\ Slots \subseteq Ports
      /\ ping_replies \in [Ports -> [0 .. 3 -> Byte]]
  BY DEF Membership, Shape, TypeOK, BufferShape, Slots, Ports
<1>2. ASSUME NEW s \in Slots, NEW k \in 0 .. 2, k < byte_index
      PROVE  r[s][k] = wire[k][s] /\ r[s][k] = Recorded(out)[k][s]
  <2>1. r[s][k] = ping_replies[s][k]
    BY <1>1, <1>2 DEF Heard
  <2>2. ping_replies[s][k] = wire[k][s]
    BY <1>2 DEF Membership, RepliesAreWire
  <2>3. Recorded(out)[k] = wire[k]
    BY <1>1, <1>2 DEF Recorded
  <2> QED
    BY <2>1, <2>2, <2>3
<1>3. ASSUME NEW s \in Slots, NEW k \in 0 .. 2, k = byte_index
      PROVE  r[s][k] = Recorded(out)[k][s]
  <2>1. r[s][k] = out[s]
    BY <1>1, <1>3 DEF Heard
  <2>2. Recorded(out)[k] = out
    BY <1>1, <1>3 DEF Recorded
  <2> QED
    BY <2>1, <2>2
<1>4. \A s \in Slots, k \in 0 .. 2 : k < byte_index => r[s][k] = wire[k][s]
  BY <1>2
<1>5. ASSUME NEW s \in Slots, NEW k \in 0 .. 2, k =< byte_index
      PROVE  r[s][k] = Recorded(out)[k][s]
  <2>1. k < byte_index \/ k = byte_index
    BY <1>1, <1>5
  <2> QED
    BY <1>2, <1>3, <2>1
<1> QED
  BY <1>1, <1>4, <1>5

(* Discovery goes on hearing, and player 1 stays what it was. *)
LEMMA PingKeepsMembers ==
  ASSUME Membership, Shape', session_count # 0, NEW out \in [Slots -> Byte], HTransfer(out),
         TransferPing(out)
  PROVE  Membership'
<1>r. PICK r : r = Heard(out)
  OBVIOUS
<1>1. /\ byte_index \in 0 .. 3 /\ 0 \in Slots
      /\ \A s \in Slots, k \in 0 .. 2 : k =< byte_index => r[s][k] = Recorded(out)[k][s]
  <2>1. phase = "Ping"
    BY DEF TransferPing
  <2> QED
    BY <1>r, <2>1, HeardIsRecorded, Zenon
<1>2. phase = "Ping" /\ Slots' = Slots
  BY DEF TransferPing, Slots
<1>3. CASE byte_index = 3
  <2>1. byte_index' = 0
    BY <1>3 DEF TransferPing
  <2> QED
    BY <2>1 DEF Membership, RepliesAreWire, StarterKeeps
<1>4. CASE byte_index < 3
  <2>1. byte_index' = byte_index + 1 /\ ping_replies' = r /\ phase' = "Ping"
        /\ connected' = IF byte_index = 1 THEN Answering(r, r[0][0] = START /\ r[0][1] = START) ELSE connected
    BY <1>r, <1>2, <1>4 DEF TransferPing, Heard
  <2>2. byte_index' # 0
    BY <1>1, <2>1
  <2>3. wire' = Recorded(out) /\ met' = IF byte_index = 0 THEN connected ELSE met
    BY <1>2, <2>1, <2>2 DEF HTransfer
  <2>4. RepliesAreWire'
    <3>1. ASSUME NEW s \in Slots, NEW k \in 0 .. 2, k < byte_index'
          PROVE  ping_replies'[s][k] = wire'[k][s]
      <4>1. k =< byte_index
        BY <1>1, <2>1, <3>1
      <4> QED
        BY <1>1, <2>1, <2>3, <4>1
    <3> QED
      BY <1>2, <3>1 DEF RepliesAreWire
  <2>5. StarterKeeps'
    <3>1. CASE byte_index = 0
      BY <1>1, <2>1, <2>3, <3>1 DEF StarterKeeps
    <3>2. CASE byte_index = 1
      <4>1. 0 \in connected <=> 0 \in met
        BY <1>2, <3>2 DEF Membership, StarterKeeps
      <4>2. connected' = Answering(r, r[0][0] = START /\ r[0][1] = START) /\ met' = met
        BY <2>1, <2>3, <3>2
      <4>3. ASSUME r[0][0] = START, r[0][1] = START
            PROVE  0 \in connected' <=> 0 \in connected
        <5>1. ~ Acked(r[0])
          BY <4>3 DEF Acked, ACK, START
        <5> QED
          BY <1>1, <4>2, <4>3, <5>1 DEF Answering
      <4> QED
        BY <2>1, <3>2, <4>1, <4>2, <4>3 DEF StarterKeeps
    <3>3. CASE byte_index = 2
      <4>1. connected' = connected /\ met' = met
        BY <2>1, <2>3, <3>3
      <4>2. r[0][0] = ping_replies[0][0] /\ r[0][1] = ping_replies[0][1]
        BY <1>r, <1>1, <3>3 DEF Heard, Membership, Shape, TypeOK, Slots
      <4> QED
        BY <1>2, <2>1, <3>3, <4>1, <4>2 DEF Membership, StarterKeeps
    <3> QED
      BY <1>1, <1>4, <3>1, <3>2, <3>3
  <2> QED
    BY <2>4, <2>5 DEF Membership
<1> QED
  BY <1>1, <1>3, <1>4

LEMMA MembershipStep == Membership /\ [HNext]_vars => Membership'
<1> SUFFICES ASSUME Membership, [HNext]_vars PROVE Membership'
  OBVIOUS
<1>0. Shape'
  BY ShapeStep DEF Membership
<1>1. ASSUME phase' # "Ping" \/ byte_index' = 0 PROVE Membership'
  BY <1>0, <1>1 DEF Membership, RepliesAreWire, StarterKeeps
<1>2. ASSUME NEW n \in SessionCounts, session_count = 0, HBind(n)
      PROVE  Membership'
  <2>1. byte_index' = 0
    BY <1>2 DEF HBind, Bind, Membership, Shape
  <2> QED
    BY <1>1, <2>1
<1>3. ASSUME session_count # 0, NEW out \in Outgoing, HTransfer(out)
      PROVE  Membership'
  <2>1. out \in [Slots -> Byte]
    BY OutgoingBytes DEF Membership
  <2>2. CASE TransferPing(out)
    BY <1>0, <1>3, <2>1, <2>2, PingKeepsMembers
  <2>3. CASE TransferConfirm(out)
    BY <1>1, <2>3 DEF TransferConfirm, BeginTransmission
  <2>4. CASE TransferPayload(out)
    BY <1>1, <2>4 DEF TransferPayload
  <2>5. CASE TransferRestart(out)
    <3>1. phase' # "Ping" \/ byte_index' = 0
      BY <2>5 DEF TransferRestart, RestartPing
    <3> QED
      BY <1>1, <3>1
  <2> QED
    BY <1>3, <2>2, <2>3, <2>4, <2>5 DEF HTransfer, Transfer
<1>4. CASE UNCHANGED vars
  BY <1>0, <1>4 DEF vars, adapterVars, discovery, Membership, RepliesAreWire, StarterKeeps, Slots
<1> QED
  BY <1>2, <1>3, <1>4 DEF HNext

(* The start packet was heard whole, so who answered it is on record. *)
LEMMA StartTakesWhoAnswered ==
  ASSUME Membership, [HNext]_vars, phase = "Ping", phase' = "Confirm"
  PROVE  /\ \A k \in 0 .. 2 : wire[k][0] = START
         /\ \A s \in Slots \ {0} : s \in connected' <=> wire[0][s] = ACK /\ wire[1][s] = ACK
         /\ 0 \in connected' <=> 0 \in met
         /\ connected' \subseteq Slots
<1>1. PICK out \in Outgoing : session_count # 0 /\ HTransfer(out)
  BY DEF HNext, HBind, Bind, vars, adapterVars
<1>2. out \in [Slots -> Byte]
  BY OutgoingBytes DEF Membership
<1>3. TransferPing(out)
  BY <1>1 DEF HTransfer, Transfer, TransferConfirm, TransferPayload, TransferRestart
<1>r. PICK r : r = Heard(out)
  OBVIOUS
<1>4. byte_index = 3 /\ Started(r[0]) /\ connected' = Answering(r, Started(r[0]))
  BY <1>r, <1>3 DEF TransferPing, Heard
<1>2a. phase = "Ping"
  OBVIOUS
<1>5. 0 \in Slots /\ \A s \in Slots, k \in 0 .. 2 : k < byte_index => r[s][k] = wire[k][s]
  BY <1>r, <1>1, <1>2, <1>2a, HeardIsRecorded, ZenonT(120)
<1>6. r[0][0] = ping_replies[0][0] /\ r[0][1] = ping_replies[0][1]
  BY <1>r, <1>4, <1>5 DEF Heard, Membership, Shape, TypeOK, Slots
<1>7. \A s \in Slots, k \in 0 .. 2 : r[s][k] = wire[k][s]
  BY <1>4, <1>5
<1>8. \A k \in 0 .. 2 : r[0][k] = START
  BY <1>4 DEF Started
<1>9. ~ Acked(r[0])
  BY <1>8 DEF Acked, ACK, START
<1>10. connected \subseteq Slots
  BY DEF Membership, Shape, TypeOK
<1>11. 0 \in connected' <=> 0 \in connected
  BY <1>4, <1>5, <1>9 DEF Answering
<1>12. 0 \in connected <=> 0 \in met
  BY <1>4, <1>6, <1>8 DEF Membership, StarterKeeps
<1>13. \A s \in Slots \ {0} : s \in connected' <=> Acked(r[s])
  BY <1>4, <1>10 DEF Answering
<1>14. connected' \subseteq Slots
  BY <1>4, <1>5, <1>10 DEF Answering
<1> QED
  BY <1>5, <1>7, <1>8, <1>11, <1>12, <1>13, <1>14 DEF Acked

(* A game is started by player 1's whole start packet, with exactly the      *)
(* other ports that acknowledged in the same ping, and with player 1 if it   *)
(* was connected before it began to start (transfer_ping, link.rs).          *)
THEOREM PlayersAnsweredStart == HSpec => StartMembership
<1>1. HInit => Membership
  BY ShapeInit DEF HInit, Init, Membership, RepliesAreWire, StarterKeeps
<1>2. Membership /\ [HNext]_vars =>
        [phase = "Ping" /\ phase' = "Confirm" =>
           LET reply(s) == [k \in 0 .. 2 |-> wire[k][s]]
           IN /\ \A k \in 0 .. 2 : reply(0)[k] = START
              /\ \A s \in connected' \ {0} : reply(s)[0] = ACK /\ reply(s)[1] = ACK
              /\ \A s \in (Slots \ {0}) \ connected' : ~ (reply(s)[0] = ACK /\ reply(s)[1] = ACK)
              /\ 0 \in connected' <=> 0 \in met]_vars
  BY StartTakesWhoAnswered
<1> QED
  BY <1>1, <1>2, MembershipStep, PTL DEF HSpec, StartMembership

-----------------------------------------------------------------------------
(* The cable.  CableInv is the type of its state, without which a port     *)
(* could not be updated; the topology's ends and the selected peer are     *)
(* sessions of the call.                                                   *)
CableEnds == Cable!Sessions
Exchanges == [ends : SUBSET CableEnds, sent : UNION {[E -> Byte] : E \in SUBSET CableEnds},
              internal : SUBSET CableEnds]

CableTypes ==
  /\ topology.host \in CableEnds /\ topology.peer \in CableEnds
  /\ ports \in [CableEnds -> Cable!Ports]
  /\ requested \subseteq CableEnds /\ stopped \subseteq CableEnds
  /\ selection \in [known : BOOLEAN, mode : Modes, peer : Peers, slots : SlotCounts]
  /\ running \in BOOLEAN
  /\ transcript \in Seq(Exchanges)

CableInv == CableTypes /\ Cable!ServedUnlessSwitched

(* The pair is a pair of sessions of the call. *)
LEMMA PairIsSessions ==
  ASSUME CableTypes
  PROVE  Cable!SelectedPair[1] \in CableEnds /\ Cable!SelectedPair[2] \in CableEnds
<1>1. CASE topology.kind = "FourPlayerAdapter" /\ Cable!PeerNamed
  <2>1. selection.peer \in Peers /\ Peers \subseteq Nat /\ SessionCount \in Nat
    BY CableAssumption DEF CableTypes, Cable!CableParameters
  <2>2. selection.peer \in Nat /\ selection.peer < SessionCount
    BY <1>1, <2>1 DEF Cable!PeerNamed
  <2>3. selection.peer \in CableEnds
    BY <2>1, <2>2 DEF CableEnds, Cable!Sessions
  <2> QED
    BY <1>1, <2>3 DEF CableTypes, Cable!SelectedPair
<1>2. CASE ~ (topology.kind = "FourPlayerAdapter" /\ Cable!PeerNamed)
  BY <1>2 DEF CableTypes, Cable!SelectedPair
<1> QED
  BY <1>1, <1>2

(* A step of session i writes no port but its own and, if the pair can     *)
(* then exchange, takes both ends of the pair to rest in the same step.    *)
Wrote(i, ps) ==
  /\ ps \in [CableEnds -> Cable!Ports]
  /\ \A j \in CableEnds \ {i} : ps[j] = ports[j]

Exchanged(ps, l, r) ==
  /\ ports' = Cable!Swapped(ps, l, r)
  /\ {l, r} \subseteq requested'
  /\ transcript' = Append(transcript,
       [ends |-> {l, r}, sent |-> [e \in {l, r} |-> ps[e].sb],
        internal |-> {e \in {l, r} : ps[e].internal}])

(* What an instruction does to a port leaves it a port. *)
LEMMA PortsStayPorts ==
  ASSUME NEW p \in Cable!Ports, NEW q \in Cable!PortAfter(p)
  PROVE  q \in Cable!Ports
<1>1. Data \subseteq Cable!Byte /\ AccumLimit \in Nat
  BY CableAssumption DEF Cable!CableParameters
<1>2. CASE q = p
  BY <1>2
<1>3. CASE \E v \in Data : q = Cable!WriteSb(p, v)
  BY <1>1, <1>3 DEF Cable!WriteSb, Cable!Ports
<1>4. CASE \E s, c \in BOOLEAN : q = Cable!WriteSc(p, s, c)
  <2>1. PICK s \in BOOLEAN, c \in BOOLEAN : q = Cable!WriteSc(p, s, c)
    BY <1>4
  <2>2. q = [sb |-> p.sb, start |-> s, internal |-> c, accum |-> 0,
             bits |-> IF s THEN 8 ELSE 0, active |-> s]
    BY <2>1 DEF Cable!WriteSc, Cable!Ports
  <2>3. p.sb \in Cable!Byte /\ 0 \in 0 .. AccumLimit /\ (IF s THEN 8 ELSE 0) \in 0 .. 8
    BY <1>1 DEF Cable!Ports
  <2> QED
    BY <2>2, <2>3 DEF Cable!Ports
<1> QED
  BY <1>2, <1>3, <1>4 DEF Cable!PortAfter

(* ... and so does a byte received from another port. *)
LEMMA ReceivedIsPort ==
  ASSUME NEW p \in Cable!Ports, NEW v \in Cable!Byte
  PROVE  /\ Cable!Received(p, v) \in Cable!Ports
         /\ Cable!Received(p, v).sb = v /\ ~ Cable!Received(p, v).active
<1>1. AccumLimit \in Nat
  BY CableAssumption DEF Cable!CableParameters
<1>2. PICK q \in Cable!Ports : q = Cable!Finished(p) /\ ~ q.active
  <2>1. Cable!Finished(p) \in Cable!Ports /\ ~ Cable!Finished(p).active
    BY DEF Cable!Finished, Cable!Ports
  <2> QED
    BY <2>1
<1>3. Cable!Received(p, v) = [q EXCEPT !.sb = v, !.accum = 0, !.bits = 0]
  BY <1>2 DEF Cable!Received
<1>4. 0 \in 0 .. AccumLimit /\ 0 \in 0 .. 8
  BY <1>1
<1>5. [q EXCEPT !.sb = v, !.accum = 0, !.bits = 0] \in Cable!Ports
  BY <1>4 DEF Cable!Ports
<1>6. /\ [q EXCEPT !.sb = v, !.accum = 0, !.bits = 0].sb = v
      /\ [q EXCEPT !.sb = v, !.accum = 0, !.bits = 0].active = q.active
  BY DEF Cable!Ports
<1> QED
  BY <1>2, <1>3, <1>5, <1>6

(* The two ends of an exchange are at rest with each other's byte, and no  *)
(* other port changes.                                                     *)
LEMMA SwapEnds ==
  ASSUME NEW ps \in [CableEnds -> Cable!Ports], NEW l \in CableEnds, NEW r \in CableEnds, l # r
  PROVE  LET qs == Cable!Swapped(ps, l, r) IN
         /\ qs \in [CableEnds -> Cable!Ports]
         /\ ~ qs[l].active /\ ~ qs[r].active
         /\ qs[l].sb = ps[r].sb /\ qs[r].sb = ps[l].sb
         /\ \A j \in CableEnds \ {l, r} : qs[j] = ps[j]
<1> DEFINE a == Cable!Received(ps[l], ps[r].sb)
           b == Cable!Received(ps[r], ps[l].sb)
<1>1. ps[l].sb \in Cable!Byte /\ ps[r].sb \in Cable!Byte
  BY DEF Cable!Ports
<1>2. /\ a \in Cable!Ports /\ a.sb = ps[r].sb /\ ~ a.active
      /\ b \in Cable!Ports /\ b.sb = ps[l].sb /\ ~ b.active
  BY <1>1, ReceivedIsPort
<1>3. Cable!Swapped(ps, l, r) = [ps EXCEPT ![l] = a, ![r] = b]
  BY DEF Cable!Swapped
<1> HIDE DEF a, b
<1> QED
  BY <1>2, <1>3

(* Every step of a session is one of two: no exchange, or that of the pair *)
(* as it was read before the instruction.                                  *)
LEMMA StepIsOne ==
  ASSUME CableTypes, NEW i \in CableEnds, Cable!Step(i)
  PROVE  LET l == Cable!SelectedPair[1]
             r == Cable!SelectedPair[2]
         IN  /\ active_pair' = Cable!SelectedPair
             /\ UNCHANGED topology
             /\ selection' \in [known : BOOLEAN, mode : Modes, peer : Peers, slots : SlotCounts]
             /\ requested' \subseteq CableEnds /\ stopped' \subseteq CableEnds
             /\ running' \in BOOLEAN
             /\ \E ps : /\ Wrote(i, ps)
                        /\ IF Cable!CanExchange(ps, l, r) THEN Exchanged(ps, l, r)
                           ELSE ports' = ps /\ UNCHANGED transcript
<1> DEFINE l == Cable!SelectedPair[1]
           r == Cable!SelectedPair[2]
<1>1. l \in CableEnds /\ r \in CableEnds
  BY PairIsSessions
<1>2. PICK port \in Cable!PortAfter(ports[i]), sel \in Cable!SelectionAfter(i),
           irqs \in {requested, requested \ {i}}, stop \in BOOLEAN :
             Cable!StepSession(i, port, sel, irqs, stop)
  BY DEF Cable!Step
<1> DEFINE ps == [ports EXCEPT ![i] = port]
<1>3. Wrote(i, ps)
  <2>1. ports[i] \in Cable!Ports /\ ports \in [CableEnds -> Cable!Ports]
    BY DEF CableTypes
  <2>2. port \in Cable!Ports
    BY <1>2, <2>1, PortsStayPorts
  <2> QED
    BY <2>1, <2>2 DEF Wrote
<1>4. sel \in [known : BOOLEAN, mode : Modes, peer : Peers, slots : SlotCounts]
  BY <1>2 DEF CableTypes, Cable!SelectionAfter
<1>5. irqs \subseteq CableEnds /\ stopped \subseteq CableEnds
  BY <1>2 DEF CableTypes
<1>6. /\ active_pair' = Cable!SelectedPair /\ UNCHANGED topology /\ selection' = sel
      /\ stopped' = IF stop THEN stopped \cup {i} ELSE stopped
      /\ running' = ~ stop
  BY <1>2 DEF Cable!StepSession
<1>7. IF Cable!CanExchange(ps, l, r)
      THEN /\ ports' = Cable!Swapped(ps, l, r)
           /\ requested' = irqs \cup {l, r}
           /\ transcript' = Append(transcript,
                [ends |-> {l, r}, sent |-> [e \in {l, r} |-> ps[e].sb],
                 internal |-> {e \in {l, r} : ps[e].internal}])
      ELSE ports' = ps /\ requested' = irqs /\ UNCHANGED transcript
  BY <1>2 DEF Cable!StepSession
<1> HIDE DEF ps, l, r
<1>8. requested' \subseteq CableEnds
  BY <1>1, <1>5, <1>7
<1>9. IF Cable!CanExchange(ps, l, r) THEN Exchanged(ps, l, r)
      ELSE ports' = ps /\ UNCHANGED transcript
  BY <1>7 DEF Exchanged
<1> QED
  BY <1>3, <1>4, <1>5, <1>6, <1>8, <1>9 DEF l, r

(* An exchange leaves no end of its pair waiting. *)
LEMMA ServedStep ==
  ASSUME CableTypes, NEW i \in CableEnds, Cable!Step(i)
  PROVE  Cable!ServedUnlessSwitched'
<1> DEFINE l == Cable!SelectedPair[1]
           r == Cable!SelectedPair[2]
<1>1. l \in CableEnds /\ r \in CableEnds
  BY PairIsSessions
<1>2. PICK ps : /\ Wrote(i, ps)
                /\ IF Cable!CanExchange(ps, l, r) THEN Exchanged(ps, l, r)
                   ELSE ports' = ps /\ UNCHANGED transcript
  BY StepIsOne
<1>3. ~ Cable!CanExchange(ports', l, r)
  <2>1. CASE Cable!CanExchange(ps, l, r)
    <3>1. l # r /\ ps \in [CableEnds -> Cable!Ports] /\ ports' = Cable!Swapped(ps, l, r)
      BY <1>2, <2>1 DEF Cable!CanExchange, Wrote, Exchanged
    <3>2. ~ ports'[l].active
      BY <1>1, <3>1, SwapEnds
    <3> QED
      BY <3>2 DEF Cable!CanExchange, Cable!Matched
  <2>2. CASE ~ Cable!CanExchange(ps, l, r)
    BY <1>2, <2>2
  <2> QED
    BY <2>1, <2>2
<1>4. active_pair' = Cable!SelectedPair
  BY StepIsOne
<1> QED
  BY <1>3, <1>4 DEF Cable!ServedUnlessSwitched

LEMMA CableInit == MCInit => CableInv
<1> SUFFICES ASSUME Cable!Init PROVE CableInv
  BY DEF MCInit
<1>1. Cable!ResetPort \in Cable!Ports /\ ~ Cable!ResetPort.active
  <2>1. 0 \in 0 .. AccumLimit /\ 0 \in 0 .. 8 /\ 0 \in Cable!Byte
    BY CableAssumption DEF Cable!CableParameters, Cable!Byte
  <2> QED
    BY <2>1 DEF Cable!ResetPort, Cable!Ports
<1>2. ports \in [CableEnds -> Cable!Ports] /\ \A j \in CableEnds : ~ ports[j].active
  BY <1>1 DEF Cable!Init, CableEnds
<1>3. topology.host \in CableEnds /\ topology.peer \in CableEnds
  <2>1. topology \in Topologies /\ Cable!ValidTopology(topology)
    BY CableAssumption DEF Cable!Init, Cable!CableParameters
  <2>2. CASE topology.kind = "Pair" /\ SessionCount = 2 /\ topology.host = 0 /\ topology.peer = 1
    BY <2>2 DEF CableEnds, Cable!Sessions
  <2>3. CASE topology.host \in Cable!Sessions /\ topology.peer \in Cable!Sessions
    BY <2>3 DEF CableEnds
  <2> QED
    BY <2>1, <2>2, <2>3 DEF Cable!ValidTopology
<1>4. CableTypes
  <2>1. transcript \in Seq(Exchanges)
    BY DEF Cable!Init
  <2>2. requested \subseteq CableEnds /\ stopped \subseteq CableEnds /\ running \in BOOLEAN
    BY DEF Cable!Init
  <2>3. selection \in [known : BOOLEAN, mode : Modes, peer : Peers, slots : SlotCounts]
    BY DEF Cable!Init
  <2> QED
    BY <1>2, <1>3, <2>1, <2>2, <2>3 DEF CableTypes
<1>5. ~ Cable!CanExchange(ports, Cable!SelectedPair[1], Cable!SelectedPair[2])
  BY <1>2, <1>4, PairIsSessions DEF Cable!CanExchange, Cable!Matched
<1> QED
  BY <1>4, <1>5 DEF CableInv, Cable!ServedUnlessSwitched

(* A step changes the types nowhere: the exchange put on record is one.    *)
LEMMA TypesStep ==
  ASSUME CableTypes, NEW i \in CableEnds, Cable!Step(i)
  PROVE  CableTypes'
<1> DEFINE l == Cable!SelectedPair[1]
           r == Cable!SelectedPair[2]
<1>1. l \in CableEnds /\ r \in CableEnds
  BY PairIsSessions
<1>2. PICK ps : /\ Wrote(i, ps)
                /\ IF Cable!CanExchange(ps, l, r) THEN Exchanged(ps, l, r)
                   ELSE ports' = ps /\ UNCHANGED transcript
  BY StepIsOne
<1>3. ports' \in [CableEnds -> Cable!Ports] /\ transcript' \in Seq(Exchanges)
  <2>0. transcript \in Seq(Exchanges) /\ ps \in [CableEnds -> Cable!Ports]
    BY <1>2 DEF CableTypes, Wrote
  <2>1. CASE Cable!CanExchange(ps, l, r)
    <3>1. l # r /\ ports' = Cable!Swapped(ps, l, r)
      BY <1>2, <2>1 DEF Cable!CanExchange, Exchanged
    <3>2. ports' \in [CableEnds -> Cable!Ports]
      BY <1>1, <2>0, <3>1, SwapEnds
    <3> DEFINE x == [ends |-> {l, r}, sent |-> [e \in {l, r} |-> ps[e].sb],
                     internal |-> {e \in {l, r} : ps[e].internal}]
    <3>3. x \in Exchanges
      <4>1. {l, r} \in SUBSET CableEnds /\ {e \in {l, r} : ps[e].internal} \in SUBSET CableEnds
        BY <1>1
      <4>2. \A e \in CableEnds : ps[e].sb \in Cable!Byte
        BY <2>0 DEF Cable!Ports
      <4>3. [e \in {l, r} |-> ps[e].sb] \in [{l, r} -> Byte]
        BY <4>1, <4>2 DEF Cable!Byte, Byte
      <4>4. [e \in {l, r} |-> ps[e].sb] \in UNION {[E -> Byte] : E \in SUBSET CableEnds}
        BY <4>1, <4>3
      <4> QED
        BY <4>1, <4>4 DEF Exchanges
    <3>4. transcript' = Append(transcript, x)
      BY <1>2, <2>1 DEF Exchanged
    <3> HIDE DEF x
    <3> QED
      BY <2>0, <3>2, <3>3, <3>4
  <2>2. CASE ~ Cable!CanExchange(ps, l, r)
    BY <1>2, <2>0, <2>2
  <2> QED
    BY <2>1, <2>2
<1> QED
  BY <1>3, StepIsOne DEF CableTypes

LEMMA CableStepInv == CableInv /\ [MCNext]_<<part, vars, cableVars>> => CableInv'
<1> SUFFICES ASSUME CableInv, Cable!Next \/ UNCHANGED cableVars PROVE CableInv'
  BY DEF MCNext, AdapterStep, CableStep, cableVars
<1>1. CASE UNCHANGED cableVars
  <2>1. UNCHANGED <<topology, ports, requested, stopped, selection, running, active_pair, transcript>>
    BY <1>1 DEF cableVars
  <2> QED
    BY <2>1 DEF CableInv, CableTypes, Cable!ServedUnlessSwitched, Cable!SelectedPair, Cable!PeerNamed
<1>2. CASE Cable!BeginCall \/ Cable!EndCall \/ \E i \in Cable!Sessions : Cable!Resume(i)
  <2>1. UNCHANGED <<topology, ports, requested, selection, active_pair, transcript>>
        /\ stopped' \subseteq CableEnds /\ running' \in BOOLEAN
    BY <1>2 DEF CableInv, CableTypes, Cable!BeginCall, Cable!EndCall, Cable!Resume
  <2> QED
    BY <2>1 DEF CableInv, CableTypes, Cable!ServedUnlessSwitched, Cable!SelectedPair, Cable!PeerNamed
<1>3. ASSUME NEW i \in CableEnds, Cable!Step(i) PROVE CableInv'
  BY <1>3, TypesStep, ServedStep DEF CableInv
<1> QED
  BY <1>1, <1>2, <1>3 DEF Cable!Next, CableEnds

(* The exchanges are rendezvous, and a pair switched to is served next.    *)
LEMMA ExchangeIsRendezvous ==
  ASSUME CableInv, NEW i \in CableEnds, Cable!Step(i)
  PROVE  LET x == transcript'[Len(transcript')]
             ended == {j \in Cable!Sessions : ports[j].active /\ ~ ports'[j].active}
         IN IF transcript' = transcript
            THEN \A j, k \in ended : j = k
            ELSE /\ Len(transcript') = Len(transcript) + 1
                 /\ \E l, r \in x.ends :
                      /\ l # r /\ x.ends = {l, r} /\ x.internal = {l}
                      /\ topology.host \in x.ends
                      /\ \A j, k \in ended \ {l, r} : j = k
                      /\ ended \cap {l, r} # {}
                      /\ ports'[l].sb = x.sent[r] /\ ports'[r].sb = x.sent[l]
                      /\ {l, r} \subseteq requested'
                      /\ ~ ports'[l].active /\ ~ ports'[r].active
<1> DEFINE a == Cable!SelectedPair[1]
           b == Cable!SelectedPair[2]
           ended == {j \in Cable!Sessions : ports[j].active /\ ~ ports'[j].active}
<1>0. CableTypes
  BY DEF CableInv
<1>1. a \in CableEnds /\ b \in CableEnds /\ a = topology.host
  BY <1>0, PairIsSessions DEF Cable!SelectedPair
<1>2. PICK ps : /\ Wrote(i, ps)
                /\ IF Cable!CanExchange(ps, a, b) THEN Exchanged(ps, a, b)
                   ELSE ports' = ps /\ UNCHANGED transcript
  BY <1>0, StepIsOne
<1>3. ended \subseteq CableEnds
  BY DEF CableEnds
<1>4. CASE ~ Cable!CanExchange(ps, a, b)
  <2>1. ports' = ps /\ transcript' = transcript
    BY <1>2, <1>4
  <2>2. \A j \in ended : j = i
    BY <1>2, <1>3, <2>1 DEF Wrote
  <2> QED
    BY <2>1, <2>2
<1>5. CASE Cable!CanExchange(ps, a, b)
  <2> DEFINE e == [ends |-> {a, b}, sent |-> [s \in {a, b} |-> ps[s].sb],
                   internal |-> {s \in {a, b} : ps[s].internal}]
  <2>1. /\ a # b /\ ps[a].active /\ ps[b].active /\ ps[a].internal # ps[b].internal
        /\ ps \in [CableEnds -> Cable!Ports] /\ ports' = Cable!Swapped(ps, a, b)
        /\ {a, b} \subseteq requested'
        /\ transcript' = Append(transcript, e)
    BY <1>2, <1>5 DEF Cable!CanExchange, Cable!Matched, Exchanged, Wrote
  <2>2. /\ ~ ports'[a].active /\ ~ ports'[b].active
        /\ ports'[a].sb = ps[b].sb /\ ports'[b].sb = ps[a].sb
        /\ \A j \in CableEnds \ {a, b} : ports'[j] = ps[j]
    BY <1>1, <2>1, SwapEnds
  <2>3. /\ Len(transcript') = Len(transcript) + 1 /\ transcript' # transcript
        /\ transcript'[Len(transcript')] = e
    <3> HIDE DEF e
    <3> QED
      BY <1>0, <2>1 DEF CableTypes
  <2>4. \A j, k \in ended \ {a, b} : j = k
    BY <1>2, <1>3, <2>2 DEF Wrote
  <2>5. ended \cap {a, b} # {}
    <3>1. a \in ended \/ b \in ended
      BY <1>1, <1>2, <2>1, <2>2 DEF Wrote, CableEnds
    <3> QED
      BY <3>1
  <2>6. /\ e.ends = {a, b} /\ e.sent[a] = ps[a].sb /\ e.sent[b] = ps[b].sb
        /\ e.internal = {s \in {a, b} : ps[s].internal}
    OBVIOUS
  <2>7. ps[a].internal \in BOOLEAN /\ ps[b].internal \in BOOLEAN
    BY <1>1, <2>1 DEF Cable!Ports
  <2>8. e.internal = {a} \/ e.internal = {b}
    BY <2>1, <2>6, <2>7
  <2> HIDE DEF e, a, b, ended
  <2>9. \E l, r \in e.ends :
          /\ l # r /\ e.ends = {l, r} /\ e.internal = {l}
          /\ topology.host \in e.ends
          /\ \A j, k \in ended \ {l, r} : j = k
          /\ ended \cap {l, r} # {}
          /\ ports'[l].sb = e.sent[r] /\ ports'[r].sb = e.sent[l]
          /\ {l, r} \subseteq requested'
          /\ ~ ports'[l].active /\ ~ ports'[r].active
    <3>1. CASE e.internal = {a}
      <4> WITNESS a \in e.ends, b \in e.ends
      <4> QED
        BY <1>1, <2>1, <2>2, <2>4, <2>5, <2>6, <3>1
    <3>2. CASE e.internal = {b}
      <4>1. {b, a} = {a, b}
        OBVIOUS
      <4> WITNESS b \in e.ends, a \in e.ends
      <4> QED
        BY <1>1, <2>1, <2>2, <2>4, <2>5, <2>6, <3>2, <4>1
    <3> QED
      BY <2>8, <3>1, <3>2
  <2> QED
    BY <2>3, <2>9 DEF ended
<1> QED
  BY <1>4, <1>5

LEMMA RendezvousStep ==
  CableInv /\ [MCNext]_<<part, vars, cableVars>> =>
    [LET x == transcript'[Len(transcript')]
         ended == {i \in Cable!Sessions : ports[i].active /\ ~ ports'[i].active}
     IN IF transcript' = transcript
        THEN \A i, j \in ended : i = j
        ELSE /\ Len(transcript') = Len(transcript) + 1
             /\ \E l, r \in x.ends :
                  /\ l # r /\ x.ends = {l, r} /\ x.internal = {l}
                  /\ topology.host \in x.ends
                  /\ \A i, j \in ended \ {l, r} : i = j
                  /\ ended \cap {l, r} # {}
                  /\ ports'[l].sb = x.sent[r] /\ ports'[r].sb = x.sent[l]
                  /\ {l, r} \subseteq requested'
                  /\ ~ ports'[l].active /\ ~ ports'[r].active]_(Cable!vars)
<1> SUFFICES ASSUME CableInv, Cable!Next, ~ UNCHANGED Cable!vars,
                    \A i \in CableEnds : ~ Cable!Step(i)
             PROVE  /\ transcript' = transcript
                    /\ {i \in Cable!Sessions : ports[i].active /\ ~ ports'[i].active} = {}
  BY ExchangeIsRendezvous DEF MCNext, AdapterStep, CableStep, cableVars, Cable!vars
<1> QED
  BY DEF Cable!Next, Cable!BeginCall, Cable!EndCall, Cable!Resume, CableEnds

LEMMA SwitchedStep ==
  CableInv /\ [MCNext]_<<part, vars, cableVars>> =>
    [\A i \in Cable!Sessions :
       (/\ Cable!CanExchange(ports, Cable!SelectedPair[1], Cable!SelectedPair[2])
        /\ Cable!Step(i) /\ i \notin {Cable!SelectedPair[1], Cable!SelectedPair[2]}) =>
         transcript' # transcript]_(Cable!vars)
<1> DEFINE l == Cable!SelectedPair[1]
           r == Cable!SelectedPair[2]
<1> SUFFICES ASSUME CableTypes, NEW i \in CableEnds, Cable!CanExchange(ports, l, r),
                    Cable!Step(i), i # l, i # r
             PROVE  transcript' # transcript
  BY DEF CableInv, CableEnds
<1>1. l \in CableEnds /\ r \in CableEnds
  BY PairIsSessions
<1>2. PICK ps : /\ Wrote(i, ps)
                /\ IF Cable!CanExchange(ps, l, r) THEN Exchanged(ps, l, r)
                   ELSE ports' = ps /\ UNCHANGED transcript
  BY StepIsOne
<1>3. ps[l] = ports[l] /\ ps[r] = ports[r]
  BY <1>1, <1>2 DEF Wrote
<1>4. Exchanged(ps, l, r)
  BY <1>2, <1>3 DEF Cable!CanExchange
<1>5. Len(transcript') = Len(transcript) + 1 /\ Len(transcript) \in Nat
  BY <1>4 DEF CableTypes, Exchanged
<1> QED
  BY <1>5

(* The runner serves the cable (try_exchange_pair in link.rs): bytes are   *)
(* swapped where both ends wait and nowhere else, one end of every         *)
(* exchange is the host, both get the interrupt, and two ends that wait    *)
(* for one another stay waiting only if the host has just switched, for    *)
(* any number of sessions, topologies, bytes and memory values.            *)
THEOREM CableSwaps == MCSpec => CableServes
<1>1. CableInv => Cable!ServedUnlessSwitched
  BY DEF CableInv
<1> QED
  BY <1>1, CableInit, CableStepInv, RendezvousStep, SwitchedStep, PTL
  DEF MCSpec, CableServes, Cable!RendezvousOnly, Cable!SwitchedPairServedNext
=============================================================================
