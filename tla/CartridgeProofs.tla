--------------------------- MODULE CartridgeProofs ---------------------------
(***************************************************************************)
(* What holds of the cartridge controllers for every size of their RAM,     *)
(* every program and whatever the host saves, loads and restores.           *)
(*                                                                          *)
(* RAM: the file a host holds covers every bank, and a store that the game  *)
(* can see is reported: what takes a byte is what shows it.                 *)
(* EEPROM: under a chip select the bits behind the first one are collected  *)
(* as they were sent, until the command they make is complete.              *)
(* Flash: the writes the chip remembers are the last of all writes, back to *)
(* the end of a program command; no command runs across that one.           *)
(* Clocks: a clock that is not halted shows what is counted at once for the *)
(* seconds since it was last looked at; counting at once and in two goes is *)
(* the same, so that it is what a clock driven every second shows.          *)
(***************************************************************************)
EXTENDS MC_Cartridge, Iteration, SequenceTheorems

(* A RAM image is a function on the banks, whatever they hold.              *)
Image(m) == DOMAIN m = Ram!Banks /\ m = [b \in Ram!Banks |-> m[b]]

RamInv ==
    /\ Image(ram) /\ Image(stored) /\ Image(snapshot.ram)
    /\ dirty \in BOOLEAN /\ foreign \in BOOLEAN /\ snapshot.dirty \in BOOLEAN
    /\ Ram!SaveIsKept

(* Two images are the same if they hold the same in every bank.             *)
LEMMA SameImages ==
    ASSUME NEW m, NEW n, Image(m), Image(n), \A b \in Ram!Banks : m[b] = n[b]
    PROVE  m = n
BY DEF Image

(* A RAM that takes a byte shows it, so that a change is seen.              *)
LEMMA StoreIsSeen ==
    ASSUME RamInv, NEW v, Ram!WriteRam(v), ram' # ram
    PROVE  dirty'
<1>1. Ram!RamTakesWrites(kind, reg) /\ ram' = [ram EXCEPT ![Ram!Cell(kind, reg)] = Ram!Kept(kind, v)]
    BY DEF Ram!WriteRam
<1>2. Ram!RamReads(kind, reg) /\ ~ Ram!DeviceAnswers(kind, reg) /\ reg' = reg /\ kind' = kind
    BY <1>1 DEF Ram!WriteRam, Ram!RamTakesWrites, Ram!RamReads
<1>3. /\ Ram!Visible(kind, reg, ram) = <<ram[Ram!Cell(kind, reg)]>>
      /\ Ram!Visible(kind, reg', ram') = <<ram'[Ram!Cell(kind, reg)]>>
    BY <1>2 DEF Ram!Visible
<1> DEFINE c == Ram!Cell(kind, reg)
<1> HIDE DEF c
<1>4. ram'[c] # ram[c]
  <2>1. ram' = [ram EXCEPT ![c] = Ram!Kept(kind, v)]
    BY <1>1 DEF c
  <2>2. ram = [b \in Ram!Banks |-> ram[b]] /\ DOMAIN ram = Ram!Banks
    BY DEF RamInv, Image
  <2>3. SUFFICES ASSUME ram'[c] = ram[c] PROVE ram' = ram
    OBVIOUS
  <2> QED
    BY <2>1, <2>2, <2>3
<1>5. Ram!Visible(kind, reg, ram) # Ram!Visible(kind, reg', ram')
    BY <1>3, <1>4 DEF c
<1> QED
  BY <1>5, Zenon DEF Ram!WriteRam

LEMMA InitRamInv == MCInit => RamInv
<1> SUFFICES ASSUME Ram!Init PROVE RamInv
    BY DEF MCInit
<1>1. ram = [b \in Ram!Banks |-> 0] /\ stored = ram /\ snapshot.ram = ram
      /\ dirty = FALSE /\ foreign = FALSE /\ snapshot.dirty = FALSE
    BY DEF Ram!Init
<1> QED
    BY <1>1 DEF RamInv, Image, Ram!SaveIsKept

LEMMA NextRamInv == RamInv /\ [MCNext]_<<part, ramVars, rtc3Vars, rtcHVars, eepromVars, vars>> => RamInv'
<1> SUFFICES ASSUME RamInv, Ram!Next \/ UNCHANGED ramVars PROVE RamInv'
    BY DEF MCNext, ramVars
<1>1. Image(ram) /\ Image(stored) /\ Image(snapshot.ram) /\ (ram # stored => dirty \/ foreign)
      /\ dirty \in BOOLEAN /\ foreign \in BOOLEAN /\ snapshot.dirty \in BOOLEAN
    BY DEF RamInv, Ram!SaveIsKept
<1>2. CASE \E w \in ControlWrites : Ram!Control(w[1], w[2])
    BY <1>1, <1>2 DEF Ram!Control, RamInv, Ram!SaveIsKept
<1>3. CASE \E v \in Bytes : Ram!WriteRam(v)
  <2>1. PICK v \in Bytes : Ram!WriteRam(v)
    BY <1>3
  <2>2. UNCHANGED <<kind, stored, snapshot, foreign>> /\ dirty' \in BOOLEAN /\ (dirty => dirty')
    BY <1>1, <2>1 DEF Ram!WriteRam
  <2>3. Image(ram')
    BY <1>1, <2>1 DEF Ram!WriteRam, Image
  <2>4. ram' # ram => dirty'
    BY <2>1, StoreIsSeen
  <2> QED
    BY <1>1, <2>2, <2>3, <2>4 DEF RamInv, Ram!SaveIsKept
<1>4. CASE Ram!Tick
    BY <1>1, <1>4 DEF Ram!Tick, RamInv, Ram!SaveIsKept
<1>5. CASE Ram!HostSaves
    BY <1>1, <1>5 DEF Ram!HostSaves, RamInv, Ram!SaveIsKept
<1>6. CASE \E n \in {RamBanks - 1, RamBanks} : Ram!HostLoads(n)
  <2>1. PICK n \in {RamBanks - 1, RamBanks} : Ram!HostLoads(n)
    BY <1>6
  <2>2. /\ ram' = [b \in Ram!Banks |-> IF b < n THEN stored[b] ELSE ram[b]]
        /\ dirty' = FALSE /\ foreign' = (n < RamBanks) /\ UNCHANGED <<stored, snapshot>>
    BY <2>1 DEF Ram!HostLoads
  <2>3. Image(ram')
    BY <2>2 DEF Image
  <2>4. foreign' \in BOOLEAN /\ (n = RamBanks - 1 => foreign')
    <3>1. n = RamBanks \/ (n = RamBanks - 1 /\ n < RamBanks)
        BY RamAssumption DEF Ram!RamParameters
    <3>2. foreign' \in BOOLEAN /\ (n < RamBanks => foreign')
      <4>1. (n < RamBanks) \in BOOLEAN
          OBVIOUS
      <4>2. foreign' = (n < RamBanks)
          BY <2>2
      <4> QED
        BY <4>1, <4>2, Zenon
    <3>3. n = RamBanks => n # RamBanks - 1
        BY RamAssumption DEF Ram!RamParameters
    <3> QED
      BY <3>1, <3>2, <3>3
  <2>5. n = RamBanks => ram' = stored
    BY <1>1, <2>2, <2>3, SameImages, RamAssumption DEF Ram!RamParameters, Ram!Banks
  <2> QED
    BY <1>1, <2>2, <2>3, <2>4, <2>5 DEF RamInv, Ram!SaveIsKept
<1>7. CASE Ram!TakeState
    BY <1>1, <1>7 DEF Ram!TakeState, RamInv, Ram!SaveIsKept
<1>8. CASE Ram!LoadState
  <2> QED
    BY <1>1, <1>8 DEF Ram!LoadState, RamInv, Ram!SaveIsKept
<1>9. CASE UNCHANGED ramVars
    BY <1>1, <1>9 DEF ramVars, RamInv, Ram!SaveIsKept, Image, Ram!Banks
<1> QED
    BY <1>2, <1>3, <1>4, <1>5, <1>6, <1>7, <1>8, <1>9 DEF Ram!Next

(* No byte a game stored is lost: as long as RAM holds only what the game   *)
(* wrote, a RAM that differs from the host's file is reported, although     *)
(* write_ram looks at one visible byte (cartridge.rs:222), for any RAM size.*)
THEOREM NoStoreIsLost == MCSpec => []SaveIsKept
<1>1. RamInv => SaveIsKept
    BY DEF RamInv, SaveIsKept
<1> QED
    BY <1>1, InitRamInv, NextRamInv, PTL DEF MCSpec

-----------------------------------------------------------------------------
(* The EEPROM.  The first command of a stream of bits begins behind the    *)
(* first one in it; Begins(s, k) says that this is bit k of stream s.      *)
Begins(s, k) == k \in 1 .. Len(s) /\ s[k] = 1 /\ \A j \in 1 .. k - 1 : s[j] # 1
AllZero(s) == \A j \in 1 .. Len(s) : s[j] # 1

(* What the stream has said since.                                         *)
Said(k) == SubSeq(sent, k + 1, Len(sent))
WritesWord(c) == Eeprom!Opcode(c) = 1 \/ (Eeprom!Opcode(c) = 0 /\ Eeprom!Extended(c) = 1)

EepromTypes ==
    /\ sent \in Seq(Eeprom!Bits) /\ shift \in Seq(Eeprom!Bits)
    /\ words = [a \in Eeprom!Addresses |-> words[a]]
    /\ writable \in BOOLEAN
    /\ eepromMode \in {"Idle", "CollectingCommand", "ReadingWord", "WritingWord", "WritingAll"}

(* Between two commands no bit is left over, and a command has taken its    *)
(* start bit and every bit of its own from the stream.                      *)
BitsCount ==
    /\ ~ pins.select => eepromMode = "Idle"
    /\ eepromMode = "CollectingCommand" =>
         Len(shift) < Eeprom!CommandBits /\ Len(sent) >= 1 + Len(shift)
    /\ eepromMode \in {"WritingWord", "WritingAll"} =>
         Len(shift) < WordBits /\ Len(sent) >= 1 + Eeprom!CommandBits

(* The first command under a chip select is collected as it was sent.       *)
FirstCommandKept ==
    pins.select =>
      /\ AllZero(sent) => eepromMode = "Idle"
      /\ \A k \in 1 .. Len(sent) : Begins(sent, k) =>
           LET c == Said(k) IN
           /\ Len(c) < Eeprom!CommandBits => eepromMode = "CollectingCommand" /\ shift = c
           /\ Len(c) >= Eeprom!CommandBits /\ WritesWord(c)
                /\ Len(c) < Eeprom!CommandBits + WordBits =>
                /\ eepromMode = (IF Eeprom!Opcode(c) = 1 THEN "WritingWord" ELSE "WritingAll")
                /\ eepromMode = "WritingWord" => address = Eeprom!Address(c)
                /\ shift = SubSeq(c, Eeprom!CommandBits + 1, Len(c))

EepromInv ==
    /\ EepromTypes /\ BitsCount /\ FirstCommandKept
    /\ AllZero(sent) \/ \E k \in 1 .. Len(sent) : Begins(sent, k)

(* The parameters, and what the bits of a command can be.                   *)
LEMMA EepromNumbers ==
    /\ Eeprom!CommandBits \in Nat /\ Eeprom!CommandBits >= 4
    /\ WordBits \in Nat /\ WordBits >= 1
BY EepromAssumption DEF Eeprom!EepromParameters, Eeprom!CommandBits

LEMMA Opcodes ==
    ASSUME NEW c \in Seq(Eeprom!Bits), Len(c) >= 4
    PROVE  Eeprom!Opcode(c) \in 0 .. 3 /\ Eeprom!Extended(c) \in 0 .. 3
<1>1. c[1] \in {0, 1} /\ c[2] \in {0, 1} /\ c[3] \in {0, 1} /\ c[4] \in {0, 1}
    BY DEF Eeprom!Bits
<1> QED
  BY <1>1 DEF Eeprom!Opcode, Eeprom!Extended


(* The record of a clock edge, before the edge does anything.               *)
Chips == [words : {words}, writable : {writable}, mode : {eepromMode}, shift : {shift},
          address : {address}, output : {output}, out : {pins.out}]

LEMMA SameIsChip == Eeprom!Same \in Chips
BY DEF Eeprom!Same, Chips

(* What a command does once its last bit is there.                          *)
LEMMA CommandEffect ==
    ASSUME EepromTypes, NEW c \in Seq(Eeprom!Bits), Len(c) = Eeprom!CommandBits
    PROVE  LET r == Eeprom!Command(c) IN
           /\ r.shift = <<>>
           /\ Eeprom!Opcode(c) = 1 => r.mode = "WritingWord" /\ r.address = Eeprom!Address(c)
           /\ Eeprom!Opcode(c) = 2 => r.mode = "ReadingWord"
           /\ Eeprom!Opcode(c) = 3 => r.mode = "Idle"
           /\ Eeprom!Opcode(c) = 0 =>
                /\ Eeprom!Extended(c) = 1 => r.mode = "WritingAll"
                /\ Eeprom!Extended(c) = 2 => r.mode = "Idle"
                /\ Eeprom!Extended(c) = 0 => r.mode = eepromMode /\ r.writable = FALSE
                /\ Eeprom!Extended(c) = 3 => r.mode = eepromMode /\ r.writable = TRUE
           /\ Eeprom!Opcode(c) # 0 \/ Eeprom!Extended(c) \in {1, 2} => r.writable = writable
           /\ r.words = (IF writable /\ Eeprom!Opcode(c) = 3
                         THEN [words EXCEPT ![Eeprom!Address(c)] = Eeprom!AllOnes]
                         ELSE IF writable /\ Eeprom!Opcode(c) = 0 /\ Eeprom!Extended(c) = 2
                         THEN [a \in Eeprom!Addresses |-> Eeprom!AllOnes]
                         ELSE words)
<1> DEFINE o == Eeprom!Opcode(c)
           x == Eeprom!Extended(c)
<1>1. o \in 0 .. 3 /\ x \in 0 .. 3
    BY Opcodes, EepromNumbers
<1>2. PICK s \in Chips : s = Eeprom!Same
    BY SameIsChip
<1>3. CASE o = 1
  <2>1. Eeprom!Command(c) = [[s EXCEPT !.shift = <<>>, !.address = Eeprom!Address(c)]
                                EXCEPT !.mode = "WritingWord"]
      BY <1>2, <1>3 DEF Eeprom!Command
  <2> QED
    BY <1>3, <2>1 DEF Chips
<1>4. CASE o = 2
  <2>1. Eeprom!Command(c) = [[s EXCEPT !.shift = <<>>, !.address = Eeprom!Address(c)]
                                EXCEPT !.mode = "ReadingWord",
                                       !.output = Eeprom!WordAsBits(words[Eeprom!Address(c)])]
      BY <1>2, <1>4 DEF Eeprom!Command
  <2> QED
    BY <1>4, <2>1 DEF Chips
<1>5. CASE o = 3
  <2>1. Eeprom!Command(c) =
          [[s EXCEPT !.shift = <<>>, !.address = Eeprom!Address(c)]
              EXCEPT !.mode = "Idle", !.out = 1,
                     !.words = IF writable THEN [@ EXCEPT ![Eeprom!Address(c)] = Eeprom!AllOnes] ELSE @]
      BY <1>2, <1>5 DEF Eeprom!Command
  <2> QED
    BY <1>5, <2>1 DEF Chips
<1>6. CASE o = 0
  <2>1. Eeprom!Command(c) = Eeprom!ExtendedCommand(c)
      BY <1>6 DEF Eeprom!Command
  <2>2. CASE x = 0
    <3>1. Eeprom!ExtendedCommand(c) = [[s EXCEPT !.shift = <<>>, !.out = 1] EXCEPT !.writable = FALSE]
        BY <1>2, <2>2 DEF Eeprom!ExtendedCommand
    <3> QED
      BY <1>6, <2>1, <2>2, <3>1 DEF Chips
  <2>3. CASE x = 1
    <3>1. Eeprom!ExtendedCommand(c) = [[s EXCEPT !.shift = <<>>, !.out = 1] EXCEPT !.mode = "WritingAll"]
        BY <1>2, <2>3 DEF Eeprom!ExtendedCommand
    <3> QED
      BY <1>6, <2>1, <2>3, <3>1 DEF Chips
  <2>4. CASE x = 2
    <3>1. Eeprom!ExtendedCommand(c) =
            [[s EXCEPT !.shift = <<>>, !.out = 1]
                EXCEPT !.mode = "Idle",
                       !.words = IF writable THEN [a \in Eeprom!Addresses |-> Eeprom!AllOnes] ELSE @]
        BY <1>2, <2>4 DEF Eeprom!ExtendedCommand
    <3> QED
      BY <1>6, <2>1, <2>4, <3>1 DEF Chips
  <2>5. CASE x = 3
    <3>1. Eeprom!ExtendedCommand(c) = [[s EXCEPT !.shift = <<>>, !.out = 1] EXCEPT !.writable = TRUE]
        BY <1>2, <2>5 DEF Eeprom!ExtendedCommand
    <3> QED
      BY <1>6, <2>1, <2>5, <3>1 DEF Chips
  <2>6. x = 0 \/ x = 1 \/ x = 2 \/ x = 3
      BY <1>1
  <2> QED
    BY <2>2, <2>3, <2>4, <2>5, <2>6, Zenon
<1>7. o = 0 \/ o = 1 \/ o = 2 \/ o = 3
    BY <1>1
<1> QED
  BY <1>3, <1>4, <1>5, <1>6, <1>7, Zenon

(* What a clock edge does, case by case.                                    *)
LEMMA ClockEffect ==
    ASSUME EepromTypes, NEW b \in Eeprom!Bits
    PROVE  LET r == Eeprom!Clocked(b)
               c == Append(shift, b)
           IN  /\ eepromMode \in {"Idle", "ReadingWord"} =>
                    r.words = words /\ r.writable = writable /\ r.address = address
               /\ eepromMode = "Idle" =>
                    IF b = 1 THEN r.mode = "CollectingCommand" /\ r.shift = <<>>
                    ELSE r.mode = "Idle" /\ r.shift = shift
               /\ eepromMode = "ReadingWord" => r.mode = "ReadingWord" /\ r.shift = shift
               /\ eepromMode = "CollectingCommand" =>
                    IF Len(c) = Eeprom!CommandBits THEN r = Eeprom!Command(c)
                    ELSE /\ r.words = words /\ r.writable = writable /\ r.address = address
                         /\ r.mode = eepromMode /\ r.shift = c
               /\ eepromMode \in {"WritingWord", "WritingAll"} =>
                    /\ r.writable = writable /\ r.address = address /\ r.shift = c
                    /\ IF Len(c) < WordBits
                       THEN r.words = words /\ r.mode = eepromMode
                       ELSE /\ r.mode = "Idle"
                            /\ r.words = [a \in Eeprom!Addresses |->
                                 IF writable /\ (eepromMode = "WritingWord" => a = address)
                                 THEN Eeprom!Value(c) ELSE words[a]]
<1> DEFINE Word ==
      LET r == Eeprom!Clocked(b)
          c == Append(shift, b)
      IN  /\ r.writable = writable /\ r.address = address /\ r.shift = c
          /\ IF Len(c) < WordBits
             THEN r.words = words /\ r.mode = eepromMode
             ELSE /\ r.mode = "Idle"
                  /\ r.words = [a \in Eeprom!Addresses |->
                       IF writable /\ (eepromMode = "WritingWord" => a = address)
                       THEN Eeprom!Value(c) ELSE words[a]]
<1>1. PICK s \in Chips : s = Eeprom!Same
    BY SameIsChip
<1>2. CASE eepromMode = "Idle"
  <2>1. Eeprom!Clocked(b) = IF b = 1 THEN [s EXCEPT !.mode = "CollectingCommand", !.shift = <<>>] ELSE s
      BY <1>1, <1>2 DEF Eeprom!Clocked
  <2> QED
    BY <1>2, <2>1 DEF Chips
<1>3. CASE eepromMode = "ReadingWord"
  <2>1. Eeprom!Clocked(b) = Eeprom!BitShiftedOut
      BY <1>3 DEF Eeprom!Clocked
  <2>2. Eeprom!BitShiftedOut = IF output = <<>> THEN [s EXCEPT !.out = 1]
                               ELSE [s EXCEPT !.out = Head(output), !.output = Tail(output)]
      BY <1>1 DEF Eeprom!BitShiftedOut
  <2> QED
    BY <1>3, <2>1, <2>2 DEF Chips
<1>4. CASE eepromMode = "CollectingCommand"
  <2>1. Eeprom!Clocked(b) = Eeprom!Collected(b)
      BY <1>4 DEF Eeprom!Clocked
  <2>2. Eeprom!Collected(b) = IF Len(Append(shift, b)) = Eeprom!CommandBits THEN Eeprom!Command(Append(shift, b))
                              ELSE [s EXCEPT !.shift = Append(shift, b)]
      BY <1>1 DEF Eeprom!Collected
  <2> QED
    BY <1>4, <2>1, <2>2 DEF Chips
<1>5. ASSUME NEW targets, eepromMode \in {"WritingWord", "WritingAll"},
             \A a \in Eeprom!Addresses : a \in targets <=> (eepromMode = "WritingWord" => a = address),
             Eeprom!Clocked(b) = Eeprom!WordCollected(b, targets)
      PROVE  Word
  <2> DEFINE c == Append(shift, b)
             w == [a \in Eeprom!Addresses |->
                     IF writable /\ a \in targets THEN Eeprom!Value(c) ELSE words[a]]
  <2>1. CASE Len(c) < WordBits
    <3>1. Eeprom!Clocked(b) = [s EXCEPT !.shift = c]
        BY <1>1, <1>5, <2>1 DEF Eeprom!WordCollected
    <3> QED
      BY <2>1, <3>1 DEF Chips
  <2>2. CASE ~ Len(c) < WordBits
    <3>1. Eeprom!Clocked(b) = [Eeprom!Idle EXCEPT !.shift = c, !.words = w]
        BY <1>5, <2>2 DEF Eeprom!WordCollected
    <3>2. PICK i \in [words : {words}, writable : {writable}, mode : {"Idle"}, shift : {<<>>},
                      address : {address}, output : {output}, out : {1}] : i = Eeprom!Idle
        BY DEF Eeprom!Idle
    <3>3. w = [a \in Eeprom!Addresses |->
                 IF writable /\ (eepromMode = "WritingWord" => a = address)
                 THEN Eeprom!Value(c) ELSE words[a]]
        BY <1>5
    <3> HIDE DEF c, w
    <3>4. LET r == [i EXCEPT !.shift = c, !.words = w] IN
          r.writable = writable /\ r.address = address /\ r.mode = "Idle" /\ r.words = w
          /\ r.shift = c
        OBVIOUS
    <3>5. /\ Eeprom!Clocked(b).writable = writable /\ Eeprom!Clocked(b).address = address
          /\ Eeprom!Clocked(b).mode = "Idle" /\ Eeprom!Clocked(b).words = w
          /\ Eeprom!Clocked(b).shift = c
        BY <3>1, <3>2, <3>4
    <3> QED
      BY <2>2, <3>3, <3>5 DEF c
  <2> QED
    BY <2>1, <2>2
<1>6. CASE eepromMode = "WritingWord"
  <2>1. Eeprom!Clocked(b) = Eeprom!WordCollected(b, {address})
      BY <1>6 DEF Eeprom!Clocked
  <2>2. \A a \in Eeprom!Addresses : a \in {address} <=> (eepromMode = "WritingWord" => a = address)
      BY <1>6
  <2>3. eepromMode \in {"WritingWord", "WritingAll"}
      BY <1>6
  <2>4. Word
    <3> HIDE DEF Word
    <3> QED
      BY <1>5, <2>1, <2>2, <2>3
  <2> QED
    BY <1>6, <2>4
<1>7. CASE eepromMode = "WritingAll"
  <2>1. Eeprom!Clocked(b) = Eeprom!WordCollected(b, Eeprom!Addresses)
      BY <1>7 DEF Eeprom!Clocked
  <2>2. \A a \in Eeprom!Addresses :
           a \in Eeprom!Addresses <=> (eepromMode = "WritingWord" => a = address)
      BY <1>7
  <2>3. eepromMode \in {"WritingWord", "WritingAll"}
      BY <1>7
  <2>4. Word
    <3> HIDE DEF Word
    <3> QED
      BY <1>5, <2>1, <2>2, <2>3
  <2> QED
    BY <1>7, <2>4
<1> QED
  BY <1>2, <1>3, <1>4, <1>6, <1>7 DEF EepromTypes

(* The rest of a stream grows with the stream.                              *)
LEMMA RestGrows ==
    ASSUME NEW S, NEW s \in Seq(S), NEW b \in S, NEW m \in 1 .. Len(s) + 1
    PROVE  SubSeq(Append(s, b), m, Len(s) + 1) = Append(SubSeq(s, m, Len(s)), b)
<1> DEFINE u == SubSeq(Append(s, b), m, Len(s) + 1)
           v == SubSeq(s, m, Len(s))
<1>0. Len(s) \in Nat /\ m \in Int
    OBVIOUS
<1>1. \A i \in m .. Len(s) + 1 : Append(s, b)[i] \in S
    OBVIOUS
<1>2. /\ u \in Seq(S) /\ Len(u) = Len(s) + 1 - m + 1
      /\ \A i \in 1 .. Len(s) + 1 - m + 1 : u[i] = Append(s, b)[m + i - 1]
    BY <1>0, <1>1, SubSeqProperties
<1>3. /\ v \in Seq(S) /\ Len(v) = Len(s) - m + 1
      /\ \A i \in 1 .. Len(s) - m + 1 : v[i] = s[m + i - 1]
    BY <1>0, SubSeqProperties
<1> HIDE DEF u, v
<1>4. Append(v, b) \in Seq(S) /\ Len(Append(v, b)) = Len(u)
  <2>1. v \in Seq(S) /\ b \in S
    BY <1>3
  <2>2. Append(v, b) \in Seq(S) /\ Len(Append(v, b)) = Len(v) + 1
    BY <2>1
  <2> QED
    BY <1>0, <1>2, <1>3, <2>2
<1>5. ASSUME NEW i \in 1 .. Len(u) PROVE u[i] = Append(v, b)[i]
  <2>1. v \in Seq(S) /\ b \in S /\ Len(v) \in Nat /\ Len(u) = Len(v) + 1 /\ i \in 1 .. Len(v) + 1
    BY <1>0, <1>2, <1>3
  <2>2. Append(v, b)[i] = IF i = Len(v) + 1 THEN b ELSE v[i]
    BY <2>1
  <2>3. m + i - 1 \in 1 .. Len(s) + 1 /\ (i = Len(v) + 1 <=> m + i - 1 = Len(s) + 1)
    BY <1>0, <1>3, <2>1
  <2>5. u[i] = Append(s, b)[m + i - 1]
    BY <1>0, <1>2, <2>1
  <2>6. i # Len(v) + 1 => v[i] = s[m + i - 1]
    <3>1. i # Len(v) + 1 => i \in 1 .. Len(s) - m + 1
      BY <1>0, <1>3, <2>1
    <3> QED
      BY <1>3, <3>1
  <2>4. Append(s, b)[m + i - 1] = IF m + i - 1 = Len(s) + 1 THEN b ELSE s[m + i - 1]
    BY <2>3
  <2> QED
    BY <2>2, <2>3, <2>4, <2>5, <2>6
<1>6. u = Append(v, b)
    BY <1>2, <1>4, <1>5, SeqEqual
<1> QED
  BY <1>6 DEF u, v

(* One more bit of a stream.                                                *)
LEMMA OneMoreBit ==
    ASSUME NEW s \in Seq(Eeprom!Bits), NEW b \in Eeprom!Bits
    PROVE  /\ Append(s, b) \in Seq(Eeprom!Bits) /\ Len(Append(s, b)) = Len(s) + 1
           /\ AllZero(Append(s, b)) <=> AllZero(s) /\ b # 1
           /\ \A k : Begins(Append(s, b), k)
                       <=> Begins(s, k) \/ (k = Len(s) + 1 /\ b = 1 /\ AllZero(s))
           /\ \A k \in 1 .. Len(s) :
                SubSeq(Append(s, b), k + 1, Len(s) + 1) = Append(SubSeq(s, k + 1, Len(s)), b)
<1> DEFINE t == Append(s, b)
<1>1. /\ t \in Seq(Eeprom!Bits) /\ Len(t) = Len(s) + 1 /\ Len(s) \in Nat
      /\ t[Len(s) + 1] = b /\ \A j \in 1 .. Len(s) : t[j] = s[j]
    OBVIOUS
<1>2. ASSUME NEW k \in 1 .. Len(s)
      PROVE  SubSeq(t, k + 1, Len(s) + 1) = Append(SubSeq(s, k + 1, Len(s)), b)
  <2>1. k + 1 \in 1 .. Len(s) + 1
    OBVIOUS
  <2> QED
    BY <2>1, RestGrows, Zenon
<1> HIDE DEF t
<1>3. AllZero(t) <=> AllZero(s) /\ b # 1
    BY <1>1 DEF AllZero
<1>4. ASSUME NEW k PROVE Begins(t, k) <=> Begins(s, k) \/ (k = Len(s) + 1 /\ b = 1 /\ AllZero(s))
  <2>1. CASE k \in 1 .. Len(s)
    <3>1. \A j \in 1 .. k : t[j] = s[j]
        BY <1>1, <2>1
    <3> QED
      BY <1>1, <2>1, <3>1 DEF Begins
  <2>2. CASE k = Len(s) + 1
    BY <1>1, <2>2 DEF Begins, AllZero
  <2>3. CASE k \notin 1 .. Len(s) + 1
    BY <1>1, <2>3 DEF Begins
  <2> QED
    BY <1>1, <2>1, <2>2, <2>3
<1> QED
  BY <1>1, <1>2, <1>3, <1>4 DEF t

(* The reference reads from the first start bit.                            *)
LEMMA StreamBegins ==
    ASSUME NEW s \in Seq(Eeprom!Bits), NEW k, Begins(s, k)
    PROVE  Eeprom!AfterStart(s) = SubSeq(s, k + 1, Len(s))
<1> DEFINE starts == {i \in 1 .. Len(s) : s[i] = 1}
<1>1. Len(s) \in Nat /\ k \in starts /\ k \in Nat
    BY DEF Begins
<1>2. \A i \in starts : ~ i \in 1 .. k - 1
    BY DEF Begins
<1>3. \A i \in starts : k <= i
    BY <1>1, <1>2
<1>4. (CHOOSE i \in starts : \A j \in starts : i <= j) = k
    BY <1>1, <1>3
<1> HIDE DEF starts
<1>5. SubSeq(s, 1 + CHOOSE i \in starts : \A j \in starts : i <= j, Len(s)) = SubSeq(s, k + 1, Len(s))
  <2> DEFINE first == CHOOSE i \in starts : \A j \in starts : i <= j
  <2>1. first = k
    BY <1>4
  <2> HIDE DEF first
  <2>2. SubSeq(s, 1 + first, Len(s)) = SubSeq(s, k + 1, Len(s))
    BY <1>1, <2>1
  <2> QED
    BY <2>2 DEF first
<1> QED
  BY <1>1, <1>5 DEF Eeprom!AfterStart, starts

LEMMA NothingBegins ==
    ASSUME NEW s \in Seq(Eeprom!Bits), AllZero(s)
    PROVE  Eeprom!AfterStart(s) = <<>>
BY DEF Eeprom!AfterStart, AllZero

(* What a command says it says with its first bits.                         *)
LEMMA CommandIsPrefix ==
    ASSUME NEW c \in Seq(Eeprom!Bits), NEW b \in Eeprom!Bits, Len(c) >= Eeprom!CommandBits
    PROVE  /\ Eeprom!Opcode(Append(c, b)) = Eeprom!Opcode(c)
           /\ Eeprom!Extended(Append(c, b)) = Eeprom!Extended(c)
           /\ Eeprom!Address(Append(c, b)) = Eeprom!Address(c)
           /\ SubSeq(Append(c, b), Eeprom!CommandBits + 1, Len(c) + 1)
                = Append(SubSeq(c, Eeprom!CommandBits + 1, Len(c)), b)
<1>1. Eeprom!CommandBits \in Nat /\ Eeprom!CommandBits >= 4
    BY EepromNumbers
<1>2. \A j \in 1 .. Eeprom!CommandBits : Append(c, b)[j] = c[j]
    BY <1>1
<1>3. SubSeq(Append(c, b), 3, Eeprom!CommandBits) = SubSeq(c, 3, Eeprom!CommandBits)
    BY <1>1
<1>4. SubSeq(Append(c, b), Eeprom!CommandBits + 1, Len(c) + 1)
        = Append(SubSeq(c, Eeprom!CommandBits + 1, Len(c)), b)
  <2>1. Eeprom!CommandBits + 1 \in 1 .. Len(c) + 1
    BY <1>1
  <2> QED
    BY <2>1, RestGrows, Zenon
<1>5. 1 \in 1 .. Eeprom!CommandBits /\ 2 \in 1 .. Eeprom!CommandBits
      /\ 3 \in 1 .. Eeprom!CommandBits /\ 4 \in 1 .. Eeprom!CommandBits
    BY <1>1
<1>6. Eeprom!Opcode(Append(c, b)) = Eeprom!Opcode(c) /\ Eeprom!Extended(Append(c, b)) = Eeprom!Extended(c)
  <2> DEFINE d == Append(c, b)
  <2> HIDE DEF d
  <2>1. d[1] = c[1] /\ d[2] = c[2] /\ d[3] = c[3] /\ d[4] = c[4]
    BY <1>2, <1>5 DEF d
  <2> QED
    BY <2>1 DEF d, Eeprom!Opcode, Eeprom!Extended
<1> QED
  BY <1>3, <1>4, <1>6 DEF Eeprom!Address

(* A rising clock edge under chip select.                                   *)
Edge(b) ==
    /\ pins.select /\ pins'.select
    /\ Eeprom!Take(Eeprom!Clocked(b))
    /\ sent' = Append(sent, b)

LEMMA EdgeTypes ==
    ASSUME EepromInv, NEW b \in Eeprom!Bits, Edge(b)
    PROVE  EepromTypes' /\ BitsCount'
<1> DEFINE c == Append(shift, b)
<1>0. EepromTypes /\ BitsCount
    BY DEF EepromInv
<1>1. /\ sent' \in Seq(Eeprom!Bits) /\ Len(sent') = Len(sent) + 1 /\ Len(sent) \in Nat
      /\ c \in Seq(Eeprom!Bits) /\ Len(c) = Len(shift) + 1 /\ Len(shift) \in Nat
    BY <1>0 DEF EepromTypes, Edge
<1>2. /\ words' = Eeprom!Clocked(b).words /\ writable' = Eeprom!Clocked(b).writable
      /\ eepromMode' = Eeprom!Clocked(b).mode /\ shift' = Eeprom!Clocked(b).shift
    BY DEF Edge, Eeprom!Take
<1> HIDE DEF c
<1>3. CASE eepromMode \in {"Idle", "ReadingWord"}
  <2>1. /\ words' = words /\ writable' = writable
        /\ \/ eepromMode' = eepromMode /\ shift' = shift
           \/ eepromMode' = "CollectingCommand" /\ shift' = <<>>
    BY <1>0, <1>2, <1>3, ClockEffect
  <2>2. EepromTypes'
    <3>1. words' = [a \in Eeprom!Addresses |-> words'[a]]
      BY <1>0, <2>1 DEF EepromTypes
    <3>2. writable' \in BOOLEAN
      BY <1>0, <2>1, Zenon DEF EepromTypes
    <3>3. shift' \in Seq(Eeprom!Bits)
      <4>1. shift \in Seq(Eeprom!Bits) /\ (shift' = shift \/ shift' = <<>>)
        BY <1>0, <2>1, Zenon DEF EepromTypes
      <4> QED
        BY <4>1, EmptySeq
    <3>4. eepromMode' \in {"Idle", "CollectingCommand", "ReadingWord"}
      BY <1>3, <2>1
    <3> QED
      BY <1>1, <3>1, <3>2, <3>3, <3>4 DEF EepromTypes
  <2>3. BitsCount'
    BY <1>0, <1>1, <1>3, <2>1, EepromNumbers DEF BitsCount, Edge
  <2> QED
    BY <2>2, <2>3
<1>4. CASE eepromMode = "CollectingCommand" /\ Len(c) # Eeprom!CommandBits
  <2>1. words' = words /\ writable' = writable /\ eepromMode' = eepromMode /\ shift' = c
    BY <1>0, <1>2, <1>4, ClockEffect DEF c
  <2> QED
    BY <1>0, <1>1, <1>4, <2>1, EepromNumbers DEF EepromTypes, BitsCount, Edge
<1>5. CASE eepromMode = "CollectingCommand" /\ Len(c) = Eeprom!CommandBits
  <2> DEFINE r == Eeprom!Command(c)
  <2>1. words' = r.words /\ writable' = r.writable /\ eepromMode' = r.mode /\ shift' = r.shift
    BY <1>0, <1>2, <1>5, ClockEffect DEF c
  <2>2. Eeprom!Opcode(c) \in 0 .. 3 /\ Eeprom!Extended(c) \in 0 .. 3
    BY <1>1, <1>5, Opcodes, EepromNumbers
  <2>3. r.shift = <<>>
    BY <1>0, <1>1, <1>5, CommandEffect
  <2> DEFINE o == Eeprom!Opcode(c)
             x == Eeprom!Extended(c)
  <2>0. o = 1 \/ o = 2 \/ o = 3 \/ (o = 0 /\ x = 0) \/ (o = 0 /\ x = 1)
          \/ (o = 0 /\ x = 2) \/ (o = 0 /\ x = 3)
    BY <2>2
  <2>9. /\ o = 1 => r.mode = "WritingWord"
        /\ o = 2 => r.mode = "ReadingWord"
        /\ o = 3 => r.mode = "Idle"
        /\ o = 0 /\ x = 0 => r.mode = "CollectingCommand" /\ r.writable = FALSE
        /\ o = 0 /\ x = 1 => r.mode = "WritingAll"
        /\ o = 0 /\ x = 2 => r.mode = "Idle"
        /\ o = 0 /\ x = 3 => r.mode = "CollectingCommand" /\ r.writable = TRUE
        /\ o # 0 \/ x \in {1, 2} => r.writable = writable
    BY <1>0, <1>1, <1>5, CommandEffect
  <2> HIDE DEF r, o, x
  <2>4. r.mode \in {"WritingWord", "ReadingWord", "Idle", "WritingAll", "CollectingCommand"}
    BY <2>0, <2>9
  <2>5. r.writable \in BOOLEAN
    <3>1. o # 0 \/ x \in {1, 2} \/ (o = 0 /\ x = 0) \/ (o = 0 /\ x = 3)
      BY <2>0
    <3>2. r.writable = writable \/ r.writable = FALSE \/ r.writable = TRUE
      BY <2>9, <3>1, Zenon
    <3> QED
      BY <1>0, <3>2, Zenon DEF EepromTypes
  <2> USE DEF r
  <2>6. \/ r.words = words
        \/ r.words = [words EXCEPT ![Eeprom!Address(c)] = Eeprom!AllOnes]
        \/ r.words = [a \in Eeprom!Addresses |-> Eeprom!AllOnes]
    BY <1>0, <1>1, <1>5, CommandEffect
  <2> HIDE DEF r
  <2>7. words' = [a \in Eeprom!Addresses |-> words'[a]]
    BY <1>0, <2>1, <2>6 DEF EepromTypes
  <2>8. Len(sent') >= 1 + Eeprom!CommandBits /\ Len(shift') = 0 /\ shift' \in Seq(Eeprom!Bits)
    BY <1>0, <1>1, <1>5, <2>1, <2>3, EepromNumbers DEF BitsCount
  <2> QED
    BY <1>1, <2>1, <2>4, <2>5, <2>7, <2>8, EepromNumbers DEF EepromTypes, BitsCount, Edge
<1>6. CASE eepromMode \in {"WritingWord", "WritingAll"}
  <2> DEFINE w == [a \in Eeprom!Addresses |->
                     IF writable /\ (eepromMode = "WritingWord" => a = address)
                     THEN Eeprom!Value(c) ELSE words[a]]
  <2>1. /\ writable' = writable /\ shift' = c
        /\ IF Len(c) < WordBits THEN words' = words /\ eepromMode' = eepromMode
           ELSE eepromMode' = "Idle" /\ words' = w
    BY <1>0, <1>2, <1>6, ClockEffect DEF c
  <2>2. words' = [a \in Eeprom!Addresses |-> words'[a]]
    BY <1>0, <2>1 DEF EepromTypes
  <2> HIDE DEF w
  <2> QED
    BY <1>0, <1>1, <1>6, <2>1, <2>2, EepromNumbers DEF EepromTypes, BitsCount, Edge
<1> QED
  BY <1>0, <1>3, <1>4, <1>5, <1>6 DEF EepromTypes

(* The first command stays the one the stream says.                         *)
LEMMA EdgeKeepsFirst ==
    ASSUME EepromInv, NEW b \in Eeprom!Bits, Edge(b)
    PROVE  FirstCommandKept' /\ (AllZero(sent') \/ \E k \in 1 .. Len(sent') : Begins(sent', k))
<1> DEFINE c == Append(shift, b)
<1>0. EepromTypes /\ BitsCount /\ FirstCommandKept /\ pins.select
      /\ (AllZero(sent) \/ \E k \in 1 .. Len(sent) : Begins(sent, k))
    BY DEF EepromInv, Edge
<1>1. /\ sent' = Append(sent, b) /\ sent \in Seq(Eeprom!Bits) /\ sent' \in Seq(Eeprom!Bits)
      /\ Len(sent') = Len(sent) + 1 /\ Len(sent) \in Nat
      /\ c \in Seq(Eeprom!Bits) /\ Len(c) = Len(shift) + 1 /\ Len(shift) \in Nat
    BY <1>0 DEF EepromTypes, Edge
<1>2. /\ address' = Eeprom!Clocked(b).address
      /\ eepromMode' = Eeprom!Clocked(b).mode /\ shift' = Eeprom!Clocked(b).shift
    BY DEF Edge, Eeprom!Take
<1>3. /\ AllZero(sent') <=> AllZero(sent) /\ b # 1
      /\ \A k : Begins(sent', k) <=> Begins(sent, k) \/ (k = Len(sent) + 1 /\ b = 1 /\ AllZero(sent))
    BY <1>1, OneMoreBit
<1>4. AllZero(sent') \/ \E k \in 1 .. Len(sent') : Begins(sent', k)
  <2>1. CASE AllZero(sent)
    BY <1>1, <1>3, <2>1
  <2>2. CASE \E k \in 1 .. Len(sent) : Begins(sent, k)
    BY <1>1, <1>3, <2>2
  <2> QED
    BY <1>0, <2>1, <2>2
<1>5. AllZero(sent') => eepromMode' = "Idle"
    BY <1>0, <1>2, <1>3, ClockEffect DEF FirstCommandKept
<1>6. ASSUME NEW k \in 1 .. Len(sent'), Begins(sent', k)
      PROVE  LET d == SubSeq(sent', k + 1, Len(sent')) IN
             /\ Len(d) < Eeprom!CommandBits => eepromMode' = "CollectingCommand" /\ shift' = d
             /\ Len(d) >= Eeprom!CommandBits /\ WritesWord(d)
                  /\ Len(d) < Eeprom!CommandBits + WordBits =>
                  /\ eepromMode' = (IF Eeprom!Opcode(d) = 1 THEN "WritingWord" ELSE "WritingAll")
                  /\ eepromMode' = "WritingWord" => address' = Eeprom!Address(d)
                  /\ shift' = SubSeq(d, Eeprom!CommandBits + 1, Len(d))
  <2> DEFINE d == SubSeq(sent', k + 1, Len(sent'))
  <2>1. CASE k = Len(sent) + 1 /\ b = 1 /\ AllZero(sent)
    <3>1. d = <<>> /\ Len(d) = 0
      BY <1>1, <2>1
    <3>2. eepromMode' = "CollectingCommand" /\ shift' = <<>>
      BY <1>0, <1>2, <2>1, ClockEffect DEF FirstCommandKept
    <3> QED
      BY <3>1, <3>2, EepromNumbers
  <2>2. CASE Begins(sent, k)
    <3> DEFINE e == Said(k)
    <3>1. k \in 1 .. Len(sent)
      BY <2>2 DEF Begins
    <3>2. d = Append(e, b)
      <4>1. d = SubSeq(Append(sent, b), k + 1, Len(sent) + 1)
        BY <1>1
      <4> HIDE DEF d
      <4>2. SubSeq(Append(sent, b), k + 1, Len(sent) + 1) = Append(SubSeq(sent, k + 1, Len(sent)), b)
        BY <1>1, <3>1, OneMoreBit
      <4> QED
        BY <4>1, <4>2 DEF Said
    <3>3. e \in Seq(Eeprom!Bits) /\ Len(e) \in Nat
      BY <1>1, <3>1 DEF Said
    <3>4. d \in Seq(Eeprom!Bits) /\ Len(d) = Len(e) + 1
      <4> HIDE DEF d, e
      <4> QED
        BY <3>2, <3>3
    <3>5. /\ Len(e) < Eeprom!CommandBits => eepromMode = "CollectingCommand" /\ shift = e
          /\ Len(e) >= Eeprom!CommandBits /\ WritesWord(e) /\ Len(e) < Eeprom!CommandBits + WordBits =>
               /\ eepromMode = (IF Eeprom!Opcode(e) = 1 THEN "WritingWord" ELSE "WritingAll")
               /\ eepromMode = "WritingWord" => address = Eeprom!Address(e)
               /\ shift = SubSeq(e, Eeprom!CommandBits + 1, Len(e))
      BY <1>0, <2>2, <3>1 DEF FirstCommandKept
    <3> HIDE DEF d, e
    <3>6. CASE Len(d) < Eeprom!CommandBits
      <4>1. eepromMode = "CollectingCommand" /\ shift = e /\ c = d
        BY <3>2, <3>4, <3>5, <3>6, <3>3, EepromNumbers
      <4>2. eepromMode' = "CollectingCommand" /\ shift' = d
        <5>1. Len(c) # Eeprom!CommandBits
          BY <3>3, <3>4, <3>6, <4>1, EepromNumbers
        <5>2. /\ Eeprom!Clocked(b).mode = eepromMode
              /\ Eeprom!Clocked(b).shift = c
          BY <1>0, <4>1, <5>1, ClockEffect
        <5> QED
          BY <1>2, <4>1, <5>2
      <4> QED
        BY <3>6, <4>2, <3>4, <3>3, EepromNumbers DEF d
    <3>7. CASE Len(d) = Eeprom!CommandBits
      <4>1. eepromMode = "CollectingCommand" /\ shift = e /\ c = d
        BY <3>2, <3>3, <3>4, <3>5, <3>7, EepromNumbers
      <4>2. /\ eepromMode' = Eeprom!Command(d).mode /\ shift' = Eeprom!Command(d).shift
            /\ address' = Eeprom!Command(d).address
        BY <1>0, <1>2, <3>7, <4>1, ClockEffect
      <4>3. shift' = <<>>
        BY <1>0, <3>4, <3>7, <4>2, CommandEffect
      <4>4. /\ Eeprom!Opcode(d) = 1 => eepromMode' = "WritingWord" /\ address' = Eeprom!Address(d)
            /\ Eeprom!Opcode(d) = 0 /\ Eeprom!Extended(d) = 1 => eepromMode' = "WritingAll"
        BY <1>0, <3>4, <3>7, <4>2, CommandEffect
      <4>5. SubSeq(d, Eeprom!CommandBits + 1, Len(d)) = <<>>
        BY <3>4, <3>7, EepromNumbers
      <4>6. ~ Len(d) < Eeprom!CommandBits
        BY <3>7, EepromNumbers
      <4> QED
        BY <4>3, <4>4, <4>5, <4>6 DEF d, WritesWord
    <3>8. CASE Len(d) > Eeprom!CommandBits /\ WritesWord(d) /\ Len(d) < Eeprom!CommandBits + WordBits
      <4>1. Len(e) >= Eeprom!CommandBits /\ Len(e) < Eeprom!CommandBits + WordBits /\ Len(e) + 1 = Len(d)
        BY <3>3, <3>4, <3>8, EepromNumbers
      <4>2. /\ Eeprom!Opcode(d) = Eeprom!Opcode(e) /\ Eeprom!Extended(d) = Eeprom!Extended(e)
            /\ Eeprom!Address(d) = Eeprom!Address(e)
            /\ SubSeq(d, Eeprom!CommandBits + 1, Len(d))
                 = Append(SubSeq(e, Eeprom!CommandBits + 1, Len(e)), b)
        BY <3>2, <3>3, <4>1, CommandIsPrefix
      <4>3. WritesWord(e)
        BY <3>8, <4>2 DEF WritesWord
      <4>4. /\ eepromMode = (IF Eeprom!Opcode(d) = 1 THEN "WritingWord" ELSE "WritingAll")
            /\ eepromMode = "WritingWord" => address = Eeprom!Address(d)
            /\ c = SubSeq(d, Eeprom!CommandBits + 1, Len(d))
        BY <3>5, <4>1, <4>2, <4>3
      <4>5. Len(c) < WordBits
        <5>1. Len(SubSeq(d, Eeprom!CommandBits + 1, Len(d))) = Len(d) - Eeprom!CommandBits
          BY <3>4, <3>8, EepromNumbers
        <5> QED
          BY <3>4, <3>8, <4>4, <5>1, EepromNumbers
      <4>6. eepromMode' = eepromMode /\ shift' = c /\ address' = address
        BY <1>0, <1>2, <4>4, <4>5, ClockEffect
      <4>7. ~ Len(d) < Eeprom!CommandBits
        BY <3>4, <3>8, EepromNumbers
      <4> HIDE DEF c
      <4> QED
        BY <4>4, <4>6, <4>7 DEF d
    <3>9. \/ Len(d) < Eeprom!CommandBits \/ Len(d) = Eeprom!CommandBits
          \/ Len(d) > Eeprom!CommandBits /\ WritesWord(d) /\ Len(d) < Eeprom!CommandBits + WordBits
          \/ ~ Len(d) < Eeprom!CommandBits
               /\ ~ (WritesWord(d) /\ Len(d) < Eeprom!CommandBits + WordBits)
      BY <3>3, <3>4, EepromNumbers
    <3> QED
      BY <3>6, <3>7, <3>8, <3>9, Zenon DEF d
  <2> QED
    BY <1>3, <1>6, <2>1, <2>2
<1> QED
  BY <1>4, <1>5, <1>6 DEF FirstCommandKept, Said

(* What a clock edge does to the words is what the stream says.             *)
LEMMA EdgeFollows ==
    ASSUME EepromInv, NEW b \in Eeprom!Bits, Edge(b)
    PROVE  /\ Eeprom!FirstCommandEnds(sent') =>
                /\ words' = IF writable THEN Eeprom!Effect(sent') ELSE words
                /\ writable' = Eeprom!EnabledAfter(sent')
           /\ words' # words => writable /\ Len(sent') >= Eeprom!CommandBits + 1
<1> DEFINE c == Append(shift, b)
<1>0. EepromTypes /\ BitsCount /\ FirstCommandKept /\ pins.select
      /\ (AllZero(sent) \/ \E k \in 1 .. Len(sent) : Begins(sent, k))
    BY DEF EepromInv, Edge
<1>1. /\ sent' = Append(sent, b) /\ sent \in Seq(Eeprom!Bits) /\ sent' \in Seq(Eeprom!Bits)
      /\ Len(sent') = Len(sent) + 1 /\ Len(sent) \in Nat
      /\ c \in Seq(Eeprom!Bits) /\ Len(c) = Len(shift) + 1 /\ Len(shift) \in Nat
    BY <1>0 DEF EepromTypes, Edge
<1>2. /\ words' = Eeprom!Clocked(b).words /\ writable' = Eeprom!Clocked(b).writable
    BY DEF Edge, Eeprom!Take
<1>3. words' # words => writable /\ Len(sent') >= Eeprom!CommandBits + 1
  <2>1. CASE eepromMode \in {"Idle", "ReadingWord"}
    BY <1>0, <1>2, <2>1, ClockEffect
  <2>2. CASE eepromMode = "CollectingCommand" /\ Len(c) # Eeprom!CommandBits
    BY <1>0, <1>2, <2>2, ClockEffect
  <2>3. CASE eepromMode = "CollectingCommand" /\ Len(c) = Eeprom!CommandBits
    <3>1. words' = Eeprom!Command(c).words
      BY <1>0, <1>2, <2>3, ClockEffect
    <3>2. words' # words => writable
      BY <1>0, <1>1, <2>3, <3>1, CommandEffect
    <3>3. Len(sent') >= Eeprom!CommandBits + 1
      BY <1>0, <1>1, <2>3, EepromNumbers DEF BitsCount
    <3> QED
      BY <3>2, <3>3
  <2>4. CASE eepromMode \in {"WritingWord", "WritingAll"}
    <3>1. ~ writable => words' = words
      <4>1. Len(c) < WordBits => words' = words
        BY <1>0, <1>2, <2>4, ClockEffect
      <4>2. ~ Len(c) < WordBits =>
              words' = [a \in Eeprom!Addresses |->
                          IF writable /\ (eepromMode = "WritingWord" => a = address)
                          THEN Eeprom!Value(c) ELSE words[a]]
        BY <1>0, <1>2, <2>4, ClockEffect
      <4>3. words = [a \in Eeprom!Addresses |-> words[a]]
        BY <1>0 DEF EepromTypes
      <4> QED
        BY <4>1, <4>2, <4>3
    <3>2. Len(sent') >= Eeprom!CommandBits + 1
      BY <1>0, <1>1, <2>4, EepromNumbers DEF BitsCount
    <3> QED
      BY <3>1, <3>2
  <2> QED
    BY <1>0, <2>1, <2>2, <2>3, <2>4 DEF EepromTypes
<1>4. ASSUME Eeprom!FirstCommandEnds(sent')
      PROVE  /\ words' = IF writable THEN Eeprom!Effect(sent') ELSE words
             /\ writable' = Eeprom!EnabledAfter(sent')
  <2> DEFINE d == Eeprom!AfterStart(sent')
  <2>1. /\ Len(d) >= Eeprom!CommandBits
        /\ Len(d) = Eeprom!CommandBits + (IF WritesWord(d) THEN WordBits ELSE 0)
    BY <1>4 DEF Eeprom!FirstCommandEnds, WritesWord
  <2>2. ~ AllZero(sent')
    <3>1. CASE AllZero(sent')
      <4>1. d = <<>>
        BY <1>1, <3>1, NothingBegins, Zenon
      <4>2. Len(d) = 0
        BY <4>1
      <4> QED
        BY <2>1, <4>2, EepromNumbers
    <3> QED
      BY <3>1
  <2>3. PICK k \in 1 .. Len(sent') : Begins(sent', k)
    BY <2>2, EdgeKeepsFirst
  <2>4. d = SubSeq(sent', k + 1, Len(sent')) /\ Len(d) = Len(sent') - k
    <3>1. d = SubSeq(sent', k + 1, Len(sent'))
      BY <1>1, <2>3, StreamBegins, Zenon
    <3>2. Len(SubSeq(sent', k + 1, Len(sent'))) = Len(sent') - k
      BY <1>1
    <3> QED
      BY <3>1, <3>2
  <2>5. Begins(sent, k) /\ k \in 1 .. Len(sent)
    <3>1. k # Len(sent) + 1
      BY <1>1, <2>1, <2>4, EepromNumbers
    <3>2. Begins(sent, k)
      BY <1>1, <2>3, <3>1, OneMoreBit
    <3> QED
      BY <3>2 DEF Begins
  <2> DEFINE e == Said(k)
  <2>6. d = Append(e, b)
    <3>1. SubSeq(Append(sent, b), k + 1, Len(sent) + 1) = Append(SubSeq(sent, k + 1, Len(sent)), b)
      BY <1>1, <2>5, OneMoreBit
    <3>2. d = SubSeq(Append(sent, b), k + 1, Len(sent) + 1)
      BY <1>1, <2>4
    <3> QED
      BY <3>1, <3>2 DEF Said
  <2>7. e \in Seq(Eeprom!Bits) /\ Len(e) \in Nat
    BY <1>1, <2>5 DEF Said
  <2>8. /\ Len(e) < Eeprom!CommandBits => eepromMode = "CollectingCommand" /\ shift = e
        /\ Len(e) >= Eeprom!CommandBits /\ WritesWord(e) /\ Len(e) < Eeprom!CommandBits + WordBits =>
             /\ eepromMode = (IF Eeprom!Opcode(e) = 1 THEN "WritingWord" ELSE "WritingAll")
             /\ eepromMode = "WritingWord" => address = Eeprom!Address(e)
             /\ shift = SubSeq(e, Eeprom!CommandBits + 1, Len(e))
    BY <1>0, <2>5 DEF FirstCommandKept
  <2> HIDE DEF d, e
  <2>9. d \in Seq(Eeprom!Bits) /\ Len(d) = Len(e) + 1
    BY <2>6, <2>7
  <2>10. words = [a \in Eeprom!Addresses |-> words[a]]
    BY <1>0 DEF EepromTypes
  <2> DEFINE o == Eeprom!Opcode(d)
             x == Eeprom!Extended(d)
             w == Eeprom!Value(SubSeq(d, Eeprom!CommandBits + 1, Len(d)))
  <2>11. /\ Eeprom!Effect(sent') =
              [a \in Eeprom!Addresses |->
                 CASE o = 1 /\ a = Eeprom!Address(d) -> w
                   [] o = 3 /\ a = Eeprom!Address(d) -> Eeprom!AllOnes
                   [] o = 0 /\ x = 1 -> w
                   [] o = 0 /\ x = 2 -> Eeprom!AllOnes
                   [] OTHER -> words[a]]
         /\ Eeprom!EnabledAfter(sent') = IF o = 0 /\ x \in {0, 3} THEN x = 3 ELSE writable
    BY DEF Eeprom!Effect, Eeprom!EnabledAfter, d
  <2>12. o \in 0 .. 3 /\ x \in 0 .. 3
    BY <2>1, <2>9, Opcodes, EepromNumbers
  <2>13. CASE ~ WritesWord(d)
    <3>1. Len(d) = Eeprom!CommandBits
      BY <2>1, <2>13, EepromNumbers
    <3>2. eepromMode = "CollectingCommand" /\ c = d
      BY <2>6, <2>7, <2>8, <2>9, <3>1, EepromNumbers
    <3>3. words' = Eeprom!Command(d).words /\ writable' = Eeprom!Command(d).writable
      BY <1>0, <1>2, <3>1, <3>2, ClockEffect
    <3>4. words' = (IF writable /\ o = 3
                    THEN [words EXCEPT ![Eeprom!Address(d)] = Eeprom!AllOnes]
                    ELSE IF writable /\ o = 0 /\ x = 2
                    THEN [a \in Eeprom!Addresses |-> Eeprom!AllOnes]
                    ELSE words)
      BY <1>0, <2>9, <3>1, <3>3, CommandEffect
    <3>5. /\ o = 0 /\ x = 0 => writable' = FALSE
          /\ o = 0 /\ x = 3 => writable' = TRUE
          /\ o # 0 \/ x \in {1, 2} => writable' = writable
      BY <1>0, <2>9, <3>1, <3>3, CommandEffect
    <3>6. o # 1 /\ ~ (o = 0 /\ x = 1)
      BY <2>13 DEF WritesWord
    <3> HIDE DEF o, x, w
    <3>7. words' = IF writable THEN Eeprom!Effect(sent') ELSE words
      <4>1. CASE writable /\ o = 3
        <5>1. Eeprom!Effect(sent') = [a \in Eeprom!Addresses |->
                 IF a = Eeprom!Address(d) THEN Eeprom!AllOnes ELSE words[a]]
          BY <2>11, <4>1
        <5> QED
          BY <2>10, <3>4, <4>1, <5>1
      <4>2. CASE writable /\ o = 0 /\ x = 2
        <5>1. Eeprom!Effect(sent') = [a \in Eeprom!Addresses |-> Eeprom!AllOnes]
          BY <2>11, <4>2
        <5> QED
          BY <3>4, <4>2, <5>1
      <4>3. CASE writable /\ o # 3 /\ ~ (o = 0 /\ x = 2)
        <5>1. Eeprom!Effect(sent') = [a \in Eeprom!Addresses |-> words[a]]
          BY <2>11, <3>6, <4>3
        <5> QED
          BY <2>10, <3>4, <4>3, <5>1
      <4>4. CASE ~ writable
        BY <3>4, <4>4
      <4> QED
        BY <4>1, <4>2, <4>3, <4>4
    <3>8. writable' = Eeprom!EnabledAfter(sent')
      <4>1. CASE o = 0 /\ x = 0
        BY <2>11, <3>5, <4>1
      <4>2. CASE o = 0 /\ x = 3
        BY <2>11, <3>5, <4>2
      <4>3. CASE o # 0 \/ x \in {1, 2}
        BY <2>11, <3>5, <4>3
      <4> QED
        BY <2>12, <4>1, <4>2, <4>3
    <3> QED
      BY <3>7, <3>8
  <2>14. CASE WritesWord(d)
    <3>1. Len(d) = Eeprom!CommandBits + WordBits
      BY <2>1, <2>14
    <3>2. Len(e) >= Eeprom!CommandBits /\ Len(e) < Eeprom!CommandBits + WordBits
      BY <2>7, <2>9, <3>1, EepromNumbers
    <3>3. /\ Eeprom!Opcode(d) = Eeprom!Opcode(e) /\ Eeprom!Extended(d) = Eeprom!Extended(e)
          /\ Eeprom!Address(d) = Eeprom!Address(e)
          /\ SubSeq(d, Eeprom!CommandBits + 1, Len(d))
               = Append(SubSeq(e, Eeprom!CommandBits + 1, Len(e)), b)
      BY <2>6, <2>7, <2>9, <3>2, CommandIsPrefix
    <3>4. /\ eepromMode = (IF o = 1 THEN "WritingWord" ELSE "WritingAll")
          /\ eepromMode = "WritingWord" => address = Eeprom!Address(d)
          /\ c = SubSeq(d, Eeprom!CommandBits + 1, Len(d))
      BY <2>8, <2>14, <3>2, <3>3 DEF WritesWord
    <3>5. ~ Len(c) < WordBits
      <4>1. Len(SubSeq(d, Eeprom!CommandBits + 1, Len(d))) = Len(d) - Eeprom!CommandBits
        BY <2>9, <3>1, EepromNumbers
      <4> QED
        BY <3>1, <3>4, <4>1, EepromNumbers
    <3>6. /\ writable' = writable
          /\ words' = [a \in Eeprom!Addresses |->
                         IF writable /\ (eepromMode = "WritingWord" => a = address)
                         THEN w ELSE words[a]]
      <4>1. /\ eepromMode \in {"WritingWord", "WritingAll"}
            /\ Eeprom!Value(c) = w
        BY <3>4
      <4>2. /\ Eeprom!Clocked(b).writable = writable
            /\ Eeprom!Clocked(b).words =
                  [a \in Eeprom!Addresses |->
                     IF writable /\ (eepromMode = "WritingWord" => a = address)
                     THEN Eeprom!Value(c) ELSE words[a]]
        BY <1>0, <3>5, <4>1, ClockEffect
      <4> QED
        BY <1>2, <4>1, <4>2
    <3>7. o = 1 \/ (o = 0 /\ x = 1)
      BY <2>14 DEF WritesWord
    <3> HIDE DEF o, x, w
    <3>8. writable' = Eeprom!EnabledAfter(sent')
      BY <2>11, <3>6, <3>7
    <3>9. CASE o = 1
      <4>1. Eeprom!Effect(sent') =
              [a \in Eeprom!Addresses |-> IF a = Eeprom!Address(d) THEN w ELSE words[a]]
        BY <2>11, <3>9
      <4> QED
        BY <2>10, <3>4, <3>6, <3>8, <3>9, <4>1
    <3>10. CASE o = 0 /\ x = 1
      <4>1. Eeprom!Effect(sent') = [a \in Eeprom!Addresses |-> w]
        BY <2>11, <3>10
      <4> QED
        BY <2>10, <3>4, <3>6, <3>8, <3>10, <4>1
    <3> QED
      BY <3>7, <3>9, <3>10
  <2> QED
    BY <2>13, <2>14
<1> QED
  BY <1>3, <1>4

LEMMA InitEepromInv == MCInit => EepromInv
<1> SUFFICES ASSUME Eeprom!Init PROVE EepromInv
    BY DEF MCInit
<1>1. /\ sent = <<>> /\ shift = <<>> /\ words = [a \in Eeprom!Addresses |-> Eeprom!AllOnes]
      /\ writable = FALSE /\ eepromMode = "Idle" /\ pins.select = FALSE
    BY DEF Eeprom!Init
<1>2. Len(sent) = 0
    BY <1>1
<1>3. EepromTypes
  <2>1. sent \in Seq(Eeprom!Bits) /\ shift \in Seq(Eeprom!Bits)
      BY <1>1, EmptySeq
  <2> QED
    BY <1>1, <2>1 DEF EepromTypes
<1>4. AllZero(sent)
    BY <1>2 DEF AllZero
<1> QED
  BY <1>1, <1>3, <1>4 DEF EepromInv, BitsCount, FirstCommandKept

(* Select falls or rises: what was collected is dropped.                    *)
LEMMA SelectEdge ==
    ASSUME EepromInv, words' = words, writable' = writable, eepromMode' = "Idle", shift' = <<>>,
           \/ ~ pins'.select /\ sent' = sent
           \/ sent' = <<>>
    PROVE  EepromInv'
<1>1. EepromTypes'
  <2>1. sent' \in Seq(Eeprom!Bits) /\ shift' \in Seq(Eeprom!Bits)
      BY EmptySeq DEF EepromInv, EepromTypes
  <2>2. words' = [a \in Eeprom!Addresses |-> words'[a]] /\ writable' \in BOOLEAN
      BY DEF EepromInv, EepromTypes
  <2> QED
    BY <2>1, <2>2 DEF EepromTypes
<1>2. BitsCount'
    BY DEF BitsCount
<1>3. CASE ~ pins'.select /\ sent' = sent
  <2>1. FirstCommandKept'
      BY <1>3 DEF FirstCommandKept
  <2>2. (AllZero(sent) \/ \E k \in 1 .. Len(sent) : Begins(sent, k))'
      BY <1>3 DEF EepromInv
  <2> QED
    BY <1>1, <1>2, <2>1, <2>2 DEF EepromInv
<1>4. CASE sent' = <<>>
  <2>1. Len(sent') = 0
      BY <1>4
  <2>2. AllZero(sent')
      BY <2>1 DEF AllZero
  <2>3. FirstCommandKept'
      BY <2>1, <2>2 DEF FirstCommandKept
  <2> QED
    BY <1>1, <1>2, <2>2, <2>3 DEF EepromInv
<1> QED
  BY <1>3, <1>4

(* Select rises together with a clock edge: the start bit comes first.      *)
LEMMA SelectWithBit ==
    ASSUME EepromInv, NEW b \in Eeprom!Bits, words' = words, writable' = writable,
           eepromMode' = (IF b = 1 THEN "CollectingCommand" ELSE "Idle"),
           shift' = <<>>, sent' = <<b>>, pins'.select
    PROVE  EepromInv' /\ Eeprom!AfterStart(sent') = <<>>
<1>1. sent' \in Seq(Eeprom!Bits) /\ Len(sent') = 1 /\ sent'[1] = b
    OBVIOUS
<1>2. EepromTypes'
  <2>1. shift' \in Seq(Eeprom!Bits)
      BY EmptySeq
  <2>2. words' = [a \in Eeprom!Addresses |-> words'[a]] /\ writable' \in BOOLEAN
      BY DEF EepromInv, EepromTypes
  <2> QED
    BY <1>1, <2>1, <2>2 DEF EepromTypes
<1>3. BitsCount'
    BY <1>1, EepromNumbers DEF BitsCount
<1>4. AllZero(sent') <=> b # 1
    BY <1>1 DEF AllZero
<1>5. \A k : Begins(sent', k) <=> k = 1 /\ b = 1
    BY <1>1 DEF Begins
<1>6. SubSeq(sent', 2, 1) = <<>>
    BY SubSeqEmpty
<1>7. ASSUME NEW k \in 1 .. Len(sent'), Begins(sent', k)
      PROVE  /\ SubSeq(sent', k + 1, Len(sent')) = <<>>
             /\ Len(SubSeq(sent', k + 1, Len(sent'))) = 0 /\ b = 1
  <2>1. k = 1 /\ b = 1
      BY <1>5, <1>7
  <2>2. SubSeq(sent', k + 1, Len(sent')) = <<>>
      BY <1>1, <1>6, <2>1
  <2> QED
    BY <2>1, <2>2
<1>8. FirstCommandKept'
  <2>1. AllZero(sent') => eepromMode' = "Idle"
      BY <1>4
  <2>2. ASSUME NEW k \in 1 .. Len(sent'), Begins(sent', k)
        PROVE  /\ eepromMode' = "CollectingCommand" /\ shift' = SubSeq(sent', k + 1, Len(sent'))
               /\ Len(SubSeq(sent', k + 1, Len(sent'))) = 0
      BY <1>7, <2>2
  <2>3. 0 < Eeprom!CommandBits /\ ~ 0 >= Eeprom!CommandBits
      BY EepromNumbers
  <2> QED
    BY <2>1, <2>2, <2>3 DEF FirstCommandKept, Said
<1>9. AllZero(sent') \/ \E k \in 1 .. Len(sent') : Begins(sent', k)
    BY <1>1, <1>4, <1>5
<1>10. Eeprom!AfterStart(sent') = <<>>
  <2>1. CASE b = 1
    <3>1. Begins(sent', 1)
        BY <1>5, <2>1
    <3>2. Eeprom!AfterStart(sent') = SubSeq(sent', 1 + 1, Len(sent'))
        BY <1>1, <3>1, StreamBegins, Zenon
    <3> QED
      BY <1>1, <1>6, <3>2
  <2>2. CASE b # 1
      BY <1>1, <1>4, <2>2, NothingBegins, Zenon
  <2> QED
    BY <2>1, <2>2
<1> QED
  BY <1>2, <1>3, <1>8, <1>9, <1>10 DEF EepromInv

(* What clock_eeprom does: one clock edge, an edge of chip select with or   *)
(* without one, or nothing but a move of the clock pin.                     *)
Dropped == words' = words /\ writable' = writable /\ shift' = <<>>
Quiet == UNCHANGED <<words, writable, eepromMode, shift, address, sent>>

LEMMA ClockCases ==
    ASSUME NEW select \in BOOLEAN, NEW clock \in BOOLEAN, NEW b \in Eeprom!Bits,
           Eeprom!ClockEeprom(select, clock, b)
    PROVE  \/ Edge(b)
           \/ Dropped /\ eepromMode' = "Idle" /\ (sent' = <<>> \/ (~ pins'.select /\ sent' = sent))
           \/ Dropped /\ eepromMode' = (IF b = 1 THEN "CollectingCommand" ELSE "Idle")
                /\ sent' = <<b>> /\ pins'.select
           \/ Quiet /\ (pins'.select <=> pins.select)
<1> DEFINE rises == select /\ ~ pins.select
           falls == ~ select /\ pins.select
           edge == select /\ clock /\ ~ pins.clock
           r == CASE rises /\ edge -> IF b = 1
                                      THEN [Eeprom!Restarted EXCEPT !.mode = "CollectingCommand"]
                                      ELSE Eeprom!Restarted
                  [] rises /\ ~ edge -> Eeprom!Restarted
                  [] falls -> Eeprom!Restarted
                  [] edge /\ ~ rises -> Eeprom!Clocked(b)
                  [] OTHER -> Eeprom!Same
<1>1. /\ Eeprom!Take(r)
      /\ pins' = [select |-> select, clock |-> clock, out |-> r.out]
      /\ sent' = CASE rises /\ edge -> <<b>>
                   [] rises /\ ~ edge -> <<>>
                   [] edge /\ ~ rises -> Append(sent, b)
                   [] OTHER -> sent
    BY DEF Eeprom!ClockEeprom
<1>2. pins'.select = select
    BY <1>1
<1>3. PICK i \in [words : {words}, writable : {writable}, mode : {"Idle"}, shift : {<<>>},
                  address : {address}, output : {<<>>}, out : {1}] : i = Eeprom!Restarted
  <2>1. PICK j \in [words : {words}, writable : {writable}, mode : {"Idle"}, shift : {<<>>},
                    address : {address}, output : {output}, out : {1}] : j = Eeprom!Idle
    BY DEF Eeprom!Idle
  <2> QED
    BY <2>1 DEF Eeprom!Restarted
<1>4. CASE rises /\ edge
  <2>1. r = IF b = 1 THEN [i EXCEPT !.mode = "CollectingCommand"] ELSE i
    BY <1>3, <1>4
  <2>2. sent' = <<b>>
    BY <1>1, <1>4
  <2> HIDE DEF r
  <2>3. /\ r.words = words /\ r.writable = writable /\ r.shift = <<>>
        /\ r.mode = (IF b = 1 THEN "CollectingCommand" ELSE "Idle")
    BY <2>1
  <2> QED
    BY <1>1, <1>2, <1>4, <2>2, <2>3 DEF Eeprom!Take, Dropped
<1>5. CASE rises /\ ~ edge
  <2>1. r = i /\ sent' = <<>>
    BY <1>1, <1>3, <1>5
  <2> HIDE DEF r
  <2> QED
    BY <1>1, <2>1 DEF Eeprom!Take, Dropped
<1>6. CASE falls
  <2>1. r = i /\ sent' = sent
    BY <1>1, <1>3, <1>6
  <2> HIDE DEF r
  <2> QED
    BY <1>1, <1>2, <1>6, <2>1 DEF Eeprom!Take, Dropped
<1>7. CASE edge /\ ~ rises
  <2>1. r = Eeprom!Clocked(b) /\ sent' = Append(sent, b)
    BY <1>1, <1>7
  <2> HIDE DEF r
  <2> QED
    BY <1>1, <1>2, <1>7, <2>1 DEF Edge
<1>8. CASE ~ rises /\ ~ falls /\ ~ edge
  <2>1. r = Eeprom!Same /\ sent' = sent
    BY <1>1, <1>8
  <2> HIDE DEF r
  <2>2. Quiet
    BY <1>1, <2>1 DEF Eeprom!Take, Eeprom!Same, Quiet
  <2> QED
    BY <1>2, <1>8, <2>2
<1> QED
  BY <1>4, <1>5, <1>6, <1>7, <1>8

LEMMA QuietStep ==
    ASSUME EepromInv, Quiet, pins'.select <=> pins.select
    PROVE  EepromInv'
<1>1. EepromTypes'
    BY DEF EepromInv, EepromTypes, Quiet
<1>2. BitsCount'
    BY DEF EepromInv, BitsCount, Quiet
<1>3. FirstCommandKept'
    BY DEF EepromInv, FirstCommandKept, Said, Quiet
<1>4. (AllZero(sent) \/ \E k \in 1 .. Len(sent) : Begins(sent, k))'
    BY DEF EepromInv, Quiet
<1> QED
  BY <1>1, <1>2, <1>3, <1>4 DEF EepromInv

LEMMA EepromStep ==
    ASSUME EepromInv, [Eeprom!Next]_(Eeprom!vars)
    PROVE  /\ EepromInv'
           /\ sent' # sent /\ Eeprom!FirstCommandEnds(sent') =>
                /\ words' = IF writable THEN Eeprom!Effect(sent') ELSE words
                /\ writable' = Eeprom!EnabledAfter(sent')
           /\ words' # words => writable /\ Len(sent') >= Eeprom!CommandBits + 1
<1>1. CASE Quiet /\ (pins'.select <=> pins.select)
  <2>1. EepromInv'
      BY <1>1, QuietStep
  <2> QED
    BY <1>1, <2>1 DEF Quiet
<1>2. ASSUME NEW g, NEW v, Eeprom!Gate(g, v)
      PROVE  Quiet /\ (pins'.select <=> pins.select)
    BY <1>2 DEF Eeprom!Gate, Eeprom!chip, Quiet
<1>3. ASSUME NEW v, Eeprom!Tilt(v)
      PROVE  Quiet /\ (pins'.select <=> pins.select)
    BY <1>3 DEF Eeprom!Tilt, Eeprom!chip, Quiet
<1>4. CASE UNCHANGED Eeprom!vars
  <2>1. Quiet /\ (pins'.select <=> pins.select)
      BY <1>4 DEF Eeprom!vars, Quiet
  <2> QED
    BY <1>1, <2>1
<1>5. ASSUME NEW select \in BOOLEAN, NEW clock \in BOOLEAN, NEW b \in Eeprom!Bits,
             Eeprom!ClockEeprom(select, clock, b)
      PROVE  /\ EepromInv'
             /\ sent' # sent /\ Eeprom!FirstCommandEnds(sent') =>
                  /\ words' = IF writable THEN Eeprom!Effect(sent') ELSE words
                  /\ writable' = Eeprom!EnabledAfter(sent')
             /\ words' # words => writable /\ Len(sent') >= Eeprom!CommandBits + 1
  <2>1. CASE Edge(b)
    <3>1. EepromInv'
      BY <2>1, EdgeTypes, EdgeKeepsFirst DEF EepromInv
    <3> QED
      BY <2>1, <3>1, EdgeFollows
  <2>2. CASE Dropped /\ eepromMode' = "Idle" /\ (sent' = <<>> \/ (~ pins'.select /\ sent' = sent))
    <3>1. EepromInv'
      BY <2>2, SelectEdge DEF Dropped
    <3>2. sent' = <<>> => ~ Eeprom!FirstCommandEnds(sent')
      <4>1. CASE sent' = <<>>
        <5>1. <<>> \in Seq(Eeprom!Bits) /\ AllZero(<<>>)
          BY EmptySeq DEF AllZero
        <5>2. Eeprom!AfterStart(<<>>) = <<>>
          BY <5>1, NothingBegins
        <5>3. Len(Eeprom!AfterStart(sent')) = 0
          BY <4>1, <5>2
        <5> QED
          BY <5>3, EepromNumbers DEF Eeprom!FirstCommandEnds
      <4> QED
        BY <4>1
    <3> QED
      BY <2>2, <3>1, <3>2 DEF Dropped
  <2>3. CASE Dropped /\ eepromMode' = (IF b = 1 THEN "CollectingCommand" ELSE "Idle")
               /\ sent' = <<b>> /\ pins'.select
    <3>1. EepromInv' /\ Eeprom!AfterStart(sent') = <<>>
      BY <2>3, SelectWithBit DEF Dropped
    <3>2. Len(Eeprom!AfterStart(sent')) = 0
      BY <3>1
    <3>3. ~ Eeprom!FirstCommandEnds(sent')
      BY <3>2, EepromNumbers DEF Eeprom!FirstCommandEnds
    <3> QED
      BY <2>3, <3>1, <3>3 DEF Dropped
  <2>4. CASE Quiet /\ (pins'.select <=> pins.select)
    BY <1>1, <2>4
  <2> QED
    BY <1>5, <2>1, <2>2, <2>3, <2>4, ClockCases
<1> QED
  BY <1>1, <1>2, <1>3, <1>4, <1>5 DEF Eeprom!Next

(* The EEPROM does what the bits of a command say (clock_eeprom of          *)
(* mbc7.rs): for every size of an address and a word.                       *)
LEMMA EepromFollows == MCSpec => Eeprom!FollowsCommands
<1>1. EepromInv /\ [MCNext]_<<part, ramVars, rtc3Vars, rtcHVars, eepromVars, vars>>
        => [Eeprom!Next]_(Eeprom!vars)
    BY DEF MCNext, eepromVars, Eeprom!vars
<1>2. EepromInv /\ [MCNext]_<<part, ramVars, rtc3Vars, rtcHVars, eepromVars, vars>>
        => /\ EepromInv'
           /\ [/\ sent' # sent /\ Eeprom!FirstCommandEnds(sent')
                    => /\ words' = IF writable THEN Eeprom!Effect(sent') ELSE words
                       /\ writable' = Eeprom!EnabledAfter(sent')
               /\ words' # words => writable /\ Len(sent') >= Eeprom!CommandBits + 1]_(Eeprom!vars)
    BY <1>1, EepromStep
<1> QED
  BY <1>2, InitEepromInv, PTL DEF MCSpec, Eeprom!FollowsCommands

-----------------------------------------------------------------------------
(* The flash chip.  It sees its commands in the last six writes, which are  *)
(* not all writes: a byte that was programmed is not among them.  Tracks    *)
(* says how far back the two agree, and that a write before that ended a    *)
(* program command, so that no command runs across it.                      *)
Writes == {<<w[1], w[2]>> : w \in FlashWrites}
ProgramEnds == {<<Unlock1, 160>>, <<Unlock1, 224>>}

Tracks(h, t, q) ==
    /\ \A i \in 0 .. q - 1 : i < Len(h) => h[Len(h) - i] = t[Len(t) - i]
    /\ q < Len(h) => h[Len(h) - q] \in ProgramEnds

FlashInv ==
    /\ trail \in Seq(Writes) /\ history \in Seq(Writes)
    /\ sector = [s \in {0, 1} |-> sector[s]]
    /\ \E q \in 0 .. Len(trail) : Tracks(history, trail, q)
    /\ \A name \in {"program", "programHidden"} : name \in mode =>
         /\ Matched(trail, name)
         /\ Len(history) > 0 /\ history[Len(history)] \in ProgramEnds

(* The last writes of a sequence.                                           *)
LEMMA LastWrites ==
    ASSUME NEW S, NEW s \in Seq(S), NEW n \in Nat
    PROVE  LET h == LastOf(n, s) IN
           /\ h \in Seq(S) /\ Len(h) = (IF Len(s) > n THEN n ELSE Len(s))
           /\ \A i \in 0 .. Len(h) - 1 : h[Len(h) - i] = s[Len(s) - i]
<1>1. Len(s) \in Nat
    OBVIOUS
<1>2. CASE Len(s) > n
  <2> DEFINE h == SubSeq(s, Len(s) - n + 1, Len(s))
  <2>1. \A i \in Len(s) - n + 1 .. Len(s) : s[i] \in S
      BY <1>1, <1>2
  <2>2. /\ h \in Seq(S) /\ (n # 0 => Len(h) = Len(s) - (Len(s) - n + 1) + 1) /\ (n = 0 => Len(h) = 0)
        /\ \A i \in 1 .. Len(s) - (Len(s) - n + 1) + 1 : h[i] = s[Len(s) - n + 1 + i - 1]
      BY <1>1, <1>2, <2>1, SubSeqProperties
  <2> HIDE DEF h
  <2>3. Len(h) = n
      BY <1>1, <1>2, <2>2
  <2>4. ASSUME NEW i \in 0 .. Len(h) - 1 PROVE h[Len(h) - i] = s[Len(s) - i]
    <3>1. /\ n - i \in 1 .. Len(s) - (Len(s) - n + 1) + 1
          /\ Len(s) - n + 1 + (n - i) - 1 = Len(s) - i
        BY <1>1, <1>2, <2>3
    <3> QED
      BY <2>2, <2>3, <3>1
  <2>5. LastOf(n, s) = h
      BY <1>2 DEF LastOf, h
  <2> QED
    BY <1>2, <2>2, <2>3, <2>4, <2>5
<1>3. CASE ~ Len(s) > n
  BY <1>1, <1>3 DEF LastOf
<1> QED
  BY <1>2, <1>3

(* A sequence ends in another if it does place by place.                    *)
LEMMA EndsPlaceByPlace ==
    ASSUME NEW S, NEW s \in Seq(S), NEW T, NEW p \in Seq(T)
    PROVE  EndsIn(s, p) <=>
             Len(s) >= Len(p) /\ \A i \in 0 .. Len(p) - 1 : s[Len(s) - i] = p[Len(p) - i]
<1> DEFINE l == Len(s)
           n == Len(p)
           u == SubSeq(s, l - n + 1, l)
<1>1. l \in Nat /\ n \in Nat
    OBVIOUS
<1>2. ASSUME l >= n
      PROVE  /\ Len(u) = n /\ u \in Seq(S)
             /\ \A i \in 0 .. n - 1 : u[n - i] = s[l - i]
  <2>1. \A i \in l - n + 1 .. l : s[i] \in S
      BY <1>1, <1>2
  <2>2. /\ u \in Seq(S) /\ Len(u) = (IF l - n + 1 <= l THEN l - (l - n + 1) + 1 ELSE 0)
        /\ \A i \in 1 .. l - (l - n + 1) + 1 : u[i] = s[l - n + 1 + i - 1]
      BY <1>1, <1>2, <2>1, SubSeqProperties
  <2> HIDE DEF u, l, n
  <2>3. Len(u) = n
      BY <1>1, <1>2, <2>2
  <2>4. ASSUME NEW i \in 0 .. n - 1 PROVE u[n - i] = s[l - i]
    <3>1. n - i \in 1 .. l - (l - n + 1) + 1 /\ l - n + 1 + (n - i) - 1 = l - i
        BY <1>1, <1>2
    <3> QED
      BY <2>2, <3>1
  <2> QED
    BY <2>2, <2>3, <2>4
<1>3. ASSUME l >= n, u = p PROVE \A i \in 0 .. n - 1 : s[l - i] = p[n - i]
    BY <1>2, <1>3
<1>4. ASSUME l >= n, \A i \in 0 .. n - 1 : s[l - i] = p[n - i] PROVE u = p
  <2>1. \A j \in 1 .. n : n - j \in 0 .. n - 1 /\ n - (n - j) = j
      BY <1>1
  <2>2. \A j \in 1 .. n : u[j] = s[l - (n - j)] /\ s[l - (n - j)] = p[j]
      BY <1>2, <1>4, <2>1
  <2>3. \A j \in 1 .. n : u[j] = p[j]
      BY <2>2
  <2>4. u \in Seq(S \cup T) /\ p \in Seq(S \cup T) /\ Len(u) = Len(p)
      BY <1>2, <1>4
  <2> HIDE DEF u
  <2> QED
    BY <2>3, <2>4, SeqEqual
<1> QED
  BY <1>3, <1>4 DEF EndsIn

(* A command seen in the last writes is in the trail.                       *)
LEMMA SeenIsWritten ==
    ASSUME NEW h \in Seq(Writes), NEW t \in Seq(Writes), NEW q \in 1 .. Len(t), Tracks(h, t, q),
           NEW T, NEW p \in Seq(T), Len(p) > 0,
           \A i \in 1 .. Len(p) - 1 : p[i] \notin ProgramEnds,
           EndsIn(h, p)
    PROVE  EndsIn(t, p)
<1>1. Len(h) \in Nat /\ Len(t) \in Nat /\ Len(p) \in Nat /\ q \in Nat
    OBVIOUS
<1>2. Len(h) >= Len(p) /\ \A i \in 0 .. Len(p) - 1 : h[Len(h) - i] = p[Len(p) - i]
    BY EndsPlaceByPlace
<1>3. q >= Len(p)
  <2> SUFFICES ASSUME q < Len(p) PROVE FALSE
      BY <1>1
  <2>1. h[Len(h) - q] \in ProgramEnds
      BY <1>1, <1>2 DEF Tracks
  <2>2. h[Len(h) - q] = p[Len(p) - q] /\ Len(p) - q \in 1 .. Len(p) - 1
      BY <1>1, <1>2
  <2> QED
    BY <2>1, <2>2
<1>4. Len(t) >= Len(p)
    BY <1>1, <1>3
<1>5. ASSUME NEW i \in 0 .. Len(p) - 1 PROVE t[Len(t) - i] = p[Len(p) - i]
  <2>1. i \in 0 .. q - 1 /\ i < Len(h)
      BY <1>1, <1>2, <1>3
  <2> QED
    BY <1>2, <2>1 DEF Tracks
<1> QED
  BY <1>4, <1>5, EndsPlaceByPlace

(* The commands of the chip: the write that ends a program command is the   *)
(* last of every command it is part of.                                     *)
Places == {Unlock1, Unlock2, "near", "far"}
ChipWrites == {<<a, v>> : a \in Places, v \in Nat}

LEMMA ShortSequence ==
    ASSUME NEW T, NEW a \in T, NEW b \in T, NEW x \in T
    PROVE  LET c == <<a, b>> \o <<x>> IN
           c \in Seq(T) /\ Len(c) = 3 /\ c[1] = a /\ c[2] = b /\ c[3] = x
<1>1. <<a, b>> \in Seq(T) /\ Len(<<a, b>>) = 2 /\ <<a, b>>[1] = a /\ <<a, b>>[2] = b
    OBVIOUS
<1>2. <<x>> \in Seq(T) /\ Len(<<x>>) = 1 /\ <<x>>[1] = x
    OBVIOUS
<1> QED
  BY <1>1, <1>2

LEMMA LongSequence ==
    ASSUME NEW T, NEW a \in T, NEW b \in T, NEW x \in T, NEW y \in T
    PROVE  LET c == <<a, b>> \o <<x>> \o <<a, b>> \o <<y>> IN
           /\ c \in Seq(T) /\ Len(c) = 6
           /\ c[1] = a /\ c[2] = b /\ c[3] = x /\ c[4] = a /\ c[5] = b /\ c[6] = y
<1> DEFINE u == <<a, b>>
           v == u \o <<x>>
           w == v \o u
           c == w \o <<y>>
<1>1. u \in Seq(T) /\ Len(u) = 2 /\ u[1] = a /\ u[2] = b
    OBVIOUS
<1>2. <<y>> \in Seq(T) /\ Len(<<y>>) = 1 /\ <<y>>[1] = y
    OBVIOUS
<1>3. v \in Seq(T) /\ Len(v) = 3 /\ v[1] = a /\ v[2] = b /\ v[3] = x
    BY ShortSequence
<1> HIDE DEF u, v
<1>4. w \in Seq(T) /\ Len(w) = 5 /\ w[1] = a /\ w[2] = b /\ w[3] = x /\ w[4] = a /\ w[5] = b
  <2>1. w \in Seq(T) /\ Len(w) = Len(v) + Len(u)
        /\ \A i \in 1 .. Len(v) + Len(u) : w[i] = IF i <= Len(v) THEN v[i] ELSE u[i - Len(v)]
    BY <1>1, <1>3, ConcatProperties
  <2> HIDE DEF w
  <2>2. w[1] = v[1] /\ w[2] = v[2] /\ w[3] = v[3] /\ w[4] = u[1] /\ w[5] = u[2]
    BY <1>1, <1>3, <2>1
  <2> QED
    BY <1>1, <1>3, <2>1, <2>2
<1> HIDE DEF w
<1> DEFINE z == <<y>>
<1>5. c \in Seq(T) /\ Len(c) = 6 /\ c[6] = y /\ \A i \in 1 .. 5 : c[i] = w[i]
  <2>0. z \in Seq(T) /\ Len(z) = 1 /\ z[1] = y /\ c = w \o z
    BY <1>2
  <2> HIDE DEF z, c
  <2>1. c \in Seq(T) /\ Len(c) = Len(w) + Len(z)
        /\ \A i \in 1 .. Len(w) + Len(z) : c[i] = IF i <= Len(w) THEN w[i] ELSE z[i - Len(w)]
    BY <1>4, <2>0, ConcatProperties
  <2>2. c[6] = z[1]
    BY <1>4, <2>0, <2>1
  <2> QED
    BY <1>4, <2>0, <2>1, <2>2, SMTT(90)
<1>6. c[1] = a /\ c[2] = b /\ c[3] = x /\ c[4] = a /\ c[5] = b
    BY <1>4, <1>5
<1> QED
  BY <1>5, <1>6 DEF u, v, w

LEMMA AnyWrite == \A a \in Places, v \in Nat : <<a, v>> \in ChipWrites
BY DEF ChipWrites

LEMMA ShortCommand ==
    ASSUME NEW x \in ChipWrites
    PROVE  LET c == Unlock \o <<x>> IN
           /\ c \in Seq(ChipWrites) /\ Len(c) = 3
           /\ c[1] = <<Unlock1, 170>> /\ c[2] = <<Unlock2, 85>> /\ c[3] = x
<1>1. <<Unlock1, 170>> \in ChipWrites /\ <<Unlock2, 85>> \in ChipWrites
    BY AnyWrite DEF Places
<1> DEFINE a == <<Unlock1, 170>>
           b == <<Unlock2, 85>>
<1>2. Unlock = <<a, b>>
    BY DEF Unlock
<1> HIDE DEF a, b
<1>3. LET c == <<a, b>> \o <<x>> IN
      c \in Seq(ChipWrites) /\ Len(c) = 3 /\ c[1] = a /\ c[2] = b /\ c[3] = x
    BY <1>1, ShortSequence DEF a, b
<1> QED
  BY <1>2, <1>3 DEF a, b

(* The writes of a long command, one by one.                                *)
SixWrites(c, v, x) ==
  /\ c \in Seq(ChipWrites) /\ Len(c) = 6
  /\ c[1] = <<Unlock1, 170>> /\ c[2] = <<Unlock2, 85>> /\ c[3] = <<Unlock1, v>>
  /\ c[4] = <<Unlock1, 170>> /\ c[5] = <<Unlock2, 85>> /\ c[6] = x

LEMMA LongCommand ==
    ASSUME NEW v \in Nat, NEW x \in ChipWrites
    PROVE  SixWrites(Long(v, x), v, x)
<1>1. <<Unlock1, 170>> \in ChipWrites /\ <<Unlock2, 85>> \in ChipWrites
      /\ <<Unlock1, v>> \in ChipWrites
    BY AnyWrite DEF Places
<1> DEFINE a == <<Unlock1, 170>>
           b == <<Unlock2, 85>>
           y == <<Unlock1, v>>
<1>2. Long(v, x) = <<a, b>> \o <<y>> \o <<a, b>> \o <<x>>
    BY DEF Unlock, Long
<1>3. a \in ChipWrites /\ b \in ChipWrites /\ y \in ChipWrites
    BY <1>1
<1> HIDE DEF a, b, y
<1>4. LET c == <<a, b>> \o <<y>> \o <<a, b>> \o <<x>> IN
      /\ c \in Seq(ChipWrites) /\ Len(c) = 6
      /\ c[1] = a /\ c[2] = b /\ c[3] = y /\ c[4] = a /\ c[5] = b /\ c[6] = x
    BY <1>3, LongSequence
<1> DEFINE c == <<a, b>> \o <<y>> \o <<a, b>> \o <<x>>
<1>5. c = Long(v, x) /\ c \in Seq(ChipWrites) /\ Len(c) = 6
      /\ c[1] = a /\ c[2] = b /\ c[3] = y /\ c[4] = a /\ c[5] = b /\ c[6] = x
    BY <1>2, <1>4, Zenon
<1> HIDE DEF c
<1>6. SixWrites(c, v, x)
    BY <1>5 DEF SixWrites, a, b, y
<1> QED
  BY <1>5, <1>6, Zenon

(* A command that ends in x and does not program before.                    *)
Completes(c, x) ==
  /\ c \in Seq(ChipWrites) /\ Len(c) > 0 /\ c[Len(c)] = x
  /\ \A i \in 1 .. Len(c) - 1 : c[i] \notin ProgramEnds

LEMMA LongAvoids ==
    ASSUME NEW v \in Nat, NEW x \in ChipWrites, <<Unlock1, v>> \notin ProgramEnds
    PROVE  Completes(Long(v, x), x)
<1> DEFINE c == Long(v, x)
<1>1. /\ c \in Seq(ChipWrites) /\ Len(c) = 6 /\ c[6] = x
      /\ c[1] = <<Unlock1, 170>> /\ c[2] = <<Unlock2, 85>> /\ c[3] = <<Unlock1, v>>
      /\ c[4] = <<Unlock1, 170>> /\ c[5] = <<Unlock2, 85>>
  <2>1. SixWrites(c, v, x)
      BY LongCommand
  <2> HIDE DEF c
  <2> QED
    BY <2>1 DEF SixWrites
<1>2. <<Unlock1, 170>> \notin ProgramEnds /\ <<Unlock2, 85>> \notin ProgramEnds
    BY DEF ProgramEnds, Unlock1, Unlock2
<1> HIDE DEF c
<1>3. /\ c[1] \notin ProgramEnds /\ c[2] \notin ProgramEnds /\ c[3] \notin ProgramEnds
      /\ c[4] \notin ProgramEnds /\ c[5] \notin ProgramEnds
    BY <1>1, <1>2
<1>4. Len(c) - 1 = 5 /\ \A i \in 1 .. 5 : i = 1 \/ i = 2 \/ i = 3 \/ i = 4 \/ i = 5
    BY <1>1
<1>5. \A i \in 1 .. Len(c) - 1 : c[i] \notin ProgramEnds
    BY <1>3, <1>4
<1>6. Completes(c, x)
    BY <1>1, <1>5 DEF Completes
<1> QED
  BY <1>6 DEF c

LEMMA Commands ==
    ASSUME NEW name \in DOMAIN Pattern, NEW p \in Pattern[name]
    PROVE  /\ p \in Seq(ChipWrites) /\ Len(p) > 0
           /\ \A i \in 1 .. Len(p) - 1 : p[i] \notin ProgramEnds
           /\ name \in {"program", "programHidden"} => p[Len(p)] \in ProgramEnds
<1>1. <<Unlock1, 170>> \notin ProgramEnds /\ <<Unlock2, 85>> \notin ProgramEnds
      /\ <<Unlock1, 96>> \notin ProgramEnds /\ <<Unlock1, 128>> \notin ProgramEnds
    BY DEF ProgramEnds, Unlock1, Unlock2
<1>2. ASSUME NEW x \in ChipWrites, p = Unlock \o <<x>>
      PROVE  /\ p \in Seq(ChipWrites) /\ Len(p) > 0 /\ p[Len(p)] = x
             /\ \A i \in 1 .. Len(p) - 1 : p[i] \notin ProgramEnds
  <2>1. /\ p \in Seq(ChipWrites) /\ Len(p) = 3 /\ p[3] = x
        /\ p[1] = <<Unlock1, 170>> /\ p[2] = <<Unlock2, 85>>
      BY <1>2, ShortCommand, SMTT(90)
  <2>2. \A i \in 1 .. 2 : p[i] \notin ProgramEnds
    <3>1. p[1] \notin ProgramEnds /\ p[2] \notin ProgramEnds
      BY <1>1, <2>1
    <3>2. \A i \in 1 .. 2 : i = 1 \/ i = 2
      OBVIOUS
    <3> QED
      BY <3>1, <3>2, Zenon
  <2>3. Len(p) - 1 = 2 /\ Len(p) > 0
      BY <2>1
  <2> QED
    BY <2>1, <2>2, <2>3, ZenonT(120)
<1>3. ASSUME NEW v \in {96, 128}, NEW x \in ChipWrites, p = Long(v, x)
      PROVE  /\ p \in Seq(ChipWrites) /\ Len(p) > 0 /\ p[Len(p)] = x
             /\ \A i \in 1 .. Len(p) - 1 : p[i] \notin ProgramEnds
  <2>1. v \in Nat /\ <<Unlock1, v>> \notin ProgramEnds
      BY <1>1
  <2>2. Completes(Long(v, x), x)
      BY <2>1, LongAvoids
  <2>3. Completes(p, x)
      BY <1>3, <2>2
  <2> QED
    BY <2>3 DEF Completes
<1>4. \A n \in Nat : <<Unlock1, n>> \in ChipWrites
    BY AnyWrite, ZenonT(120) DEF Places
<1>5. CASE name = "id"
  <2>1. p = Unlock \o <<<<Unlock1, 144>>>>
      BY <1>5 DEF Pattern
  <2> QED
    BY <1>2, <1>4, <1>5, <2>1, ZenonT(120)
<1>6. CASE name = "program"
  <2>1. p = Unlock \o <<<<Unlock1, 160>>>>
      BY <1>6, ZenonT(120) DEF Pattern
  <2>2. <<Unlock1, 160>> \in ChipWrites /\ <<Unlock1, 160>> \in ProgramEnds
      BY <1>4 DEF ProgramEnds
  <2> QED
    BY <1>2, <2>1, <2>2, ZenonT(120)
<1>7. CASE name = "programHidden"
  <2>1. p = Long(96, <<Unlock1, 224>>)
      BY <1>7 DEF Pattern
  <2>2. <<Unlock1, 224>> \in ChipWrites /\ <<Unlock1, 224>> \in ProgramEnds /\ 96 \in {96, 128}
      BY <1>4 DEF ProgramEnds
  <2> QED
    BY <1>3, <2>1, <2>2, SMTT(90)
<1>10. CASE name = "showHidden"
  <2>1. p = Long(96, <<Unlock1, 119>>)
      BY <1>10 DEF Pattern
  <2>2. <<Unlock1, 119>> \in ChipWrites
      BY <1>4
  <2> QED
    BY <1>3, <1>10, <2>1, <2>2
<1>11. CASE name = "eraseHidden"
  <2>1. p = Long(96, <<Unlock1, 4>>)
      BY <1>11 DEF Pattern
  <2>2. <<Unlock1, 4>> \in ChipWrites
      BY <1>4
  <2> QED
    BY <1>3, <1>11, <2>1, <2>2
<1>12. CASE name = "unprotect"
  <2>1. p = Long(96, <<Unlock1, 64>>)
      BY <1>12 DEF Pattern
  <2>2. <<Unlock1, 64>> \in ChipWrites
      BY <1>4
  <2> QED
    BY <1>3, <1>12, <2>1, <2>2
<1>13. CASE name = "protect"
  <2>1. p = Long(96, <<Unlock1, 32>>)
      BY <1>13 DEF Pattern
  <2>2. <<Unlock1, 32>> \in ChipWrites
      BY <1>4
  <2> QED
    BY <1>3, <1>13, <2>1, <2>2
<1>14. CASE name = "eraseChip"
  <2>1. p = Long(128, <<Unlock1, 16>>)
      BY <1>14 DEF Pattern
  <2>2. <<Unlock1, 16>> \in ChipWrites
      BY <1>4
  <2> QED
    BY <1>3, <1>14, <2>1, <2>2, SMTT(90)
<1>9. CASE name = "eraseSector"
  <2>1. PICK a \in {Unlock1, Unlock2, "near", "far"} : p = Long(128, <<a, 48>>)
      BY <1>9 DEF Pattern, EraseSector
  <2>2. <<a, 48>> \in ChipWrites
      BY AnyWrite DEF Places
  <2> QED
    BY <1>3, <1>9, <2>1, <2>2
<1> QED
  BY <1>5, <1>6, <1>7, <1>9, <1>10, <1>11, <1>12, <1>13, <1>14 DEF Pattern

(* What the last writes match, the trail matches.                           *)
LEMMA MatchIsWritten ==
    ASSUME NEW h \in Seq(Writes), NEW t \in Seq(Writes), NEW q \in 1 .. Len(t), Tracks(h, t, q),
           NEW name \in DOMAIN Pattern, Matched(h, name)
    PROVE  Matched(t, name)
<1>1. PICK p \in Pattern[name] : EndsIn(h, p)
    BY DEF Matched
<1>2. EndsIn(t, p)
    BY <1>1, Commands, SeenIsWritten
<1> QED
  BY <1>2 DEF Matched

(* One more write, to the history and to the trail.                         *)
LEMMA WriteTracked ==
    ASSUME NEW h \in Seq(Writes), NEW t \in Seq(Writes), NEW q \in 0 .. Len(t), Tracks(h, t, q),
           NEW x \in Writes
    PROVE  LET g == LastOf(6, Append(h, x)) IN
           g \in Seq(Writes) /\ Len(g) > 0 /\ q + 1 \in 1 .. Len(Append(t, x))
           /\ g[Len(g)] = x /\ Tracks(g, Append(t, x), q + 1)
<1> DEFINE hx == Append(h, x)
           tx == Append(t, x)
           g == LastOf(6, hx)
<1>1. /\ hx \in Seq(Writes) /\ Len(hx) = Len(h) + 1 /\ Len(h) \in Nat
      /\ tx \in Seq(Writes) /\ Len(tx) = Len(t) + 1 /\ Len(t) \in Nat
      /\ hx[Len(hx)] = x /\ \A i \in 1 .. Len(h) : hx[i] = h[i]
      /\ tx[Len(tx)] = x /\ \A i \in 1 .. Len(t) : tx[i] = t[i]
    OBVIOUS
<1> HIDE DEF hx, tx
<1>2. /\ g \in Seq(Writes) /\ Len(g) = (IF Len(hx) > 6 THEN 6 ELSE Len(hx))
      /\ \A i \in 0 .. Len(g) - 1 : g[Len(g) - i] = hx[Len(hx) - i]
    BY <1>1, LastWrites, ZenonT(120)
<1> HIDE DEF g
<1>3. Len(g) > 0 /\ Len(g) =< Len(hx) /\ Len(g) \in Nat
    BY <1>1, <1>2
<1>4. g[Len(g)] = x
  <2>1. g[Len(g) - 0] = hx[Len(hx) - 0]
    <3>1. 0 \in 0 .. Len(g) - 1
        BY <1>3
    <3> QED
      BY <1>2, <3>1, Zenon
  <2> QED
    BY <1>1, <1>3, <2>1
<1>5. ASSUME NEW i \in 0 .. q, i < Len(g) PROVE g[Len(g) - i] = tx[Len(tx) - i]
  <2>1. CASE i = 0
      BY <1>1, <1>3, <1>4, <2>1
  <2>2. CASE i # 0
    <3>1. /\ i - 1 \in 0 .. q - 1 /\ i - 1 < Len(h) /\ i - 1 < Len(t)
          /\ Len(hx) - i = Len(h) - (i - 1) /\ Len(tx) - i = Len(t) - (i - 1)
          /\ Len(hx) - i \in 1 .. Len(h) /\ Len(tx) - i \in 1 .. Len(t)
        BY <1>1, <1>3, <1>5, <2>2
    <3>2. g[Len(g) - i] = hx[Len(hx) - i]
      <4>1. i \in 0 .. Len(g) - 1
          BY <1>3, <1>5
      <4> QED
        BY <1>2, <4>1, Zenon
    <3>3. h[Len(h) - (i - 1)] = t[Len(t) - (i - 1)]
        BY <3>1 DEF Tracks
    <3> QED
      BY <1>1, <3>1, <3>2, <3>3
  <2> QED
    BY <2>1, <2>2
<1>6. ASSUME q + 1 < Len(g) PROVE g[Len(g) - (q + 1)] \in ProgramEnds
  <2>1. /\ g[Len(g) - (q + 1)] = hx[Len(hx) - (q + 1)] /\ q < Len(h)
        /\ Len(hx) - (q + 1) = Len(h) - q /\ Len(h) - q \in 1 .. Len(h)
    <3>1. q + 1 \in 0 .. Len(g) - 1
        BY <1>3, <1>6
    <3>2. g[Len(g) - (q + 1)] = hx[Len(hx) - (q + 1)]
        BY <1>2, <3>1
    <3>3. q < Len(h) /\ Len(hx) - (q + 1) = Len(h) - q /\ Len(h) - q \in 1 .. Len(h)
        BY <1>1, <1>3, <1>6
    <3> QED
      BY <3>2, <3>3
  <2> QED
    BY <1>1, <2>1 DEF Tracks
<1>7. Tracks(g, tx, q + 1)
    BY <1>5, <1>6 DEF Tracks
<1>8. q + 1 \in 1 .. Len(tx)
    BY <1>1
<1> QED
  BY <1>2, <1>3, <1>4, <1>7, <1>8 DEF g, hx, tx

(* A write to the trail alone: the byte a program command waited for.       *)
LEMMA ByteTracked ==
    ASSUME NEW h \in Seq(Writes), NEW t \in Seq(Writes), NEW x \in Writes,
           Len(h) > 0, h[Len(h)] \in ProgramEnds
    PROVE  0 \in 0 .. Len(Append(t, x)) /\ Tracks(h, Append(t, x), 0)
BY DEF Tracks

(* A program command is the last write seen when it is seen.                *)
LEMMA ProgramIsLast ==
    ASSUME NEW h \in Seq(Writes), NEW name \in {"program", "programHidden"}, Matched(h, name)
    PROVE  Len(h) > 0 /\ h[Len(h)] \in ProgramEnds
<1>1. name \in DOMAIN Pattern
    BY DEF Pattern
<1>2. PICK p \in Pattern[name] : EndsIn(h, p)
    BY DEF Matched
<1>3. p \in Seq(ChipWrites) /\ Len(p) > 0 /\ p[Len(p)] \in ProgramEnds
    BY <1>1, Commands
<1>4. Len(h) >= Len(p) /\ \A i \in 0 .. Len(p) - 1 : h[Len(h) - i] = p[Len(p) - i]
    BY <1>2, <1>3, EndsPlaceByPlace
<1>5. h[Len(h) - 0] = p[Len(p) - 0] /\ Len(h) \in Nat /\ Len(p) \in Nat
  <2>1. 0 \in 0 .. Len(p) - 1 /\ Len(h) \in Nat /\ Len(p) \in Nat
      BY <1>3
  <2> QED
    BY <1>4, <2>1, Zenon
<1> QED
  BY <1>3, <1>4, <1>5

LEMMA InitFlashInv == MCInit => FlashInv
<1> SUFFICES ASSUME Init PROVE FlashInv
    BY DEF MCInit
<1>1. trail = <<>> /\ history = <<>> /\ mode = {} /\ sector = [s \in {0, 1} |-> "erased"]
    BY DEF Init
<1>2. trail \in Seq(Writes) /\ history \in Seq(Writes)
    BY <1>1, EmptySeq
<1>3. 0 \in 0 .. Len(trail) /\ Tracks(history, trail, 0)
    BY <1>1 DEF Tracks
<1> QED
  BY <1>1, <1>2, <1>3 DEF FlashInv

(* The chip forgets what was begun, or sees nothing.                        *)
LEMMA FlashForgets ==
    ASSUME FlashInv, ExitModes, UNCHANGED chip
    PROVE  FlashInv'
<1>1. trail' = <<>> /\ history' = <<>> /\ mode' = {} /\ sector' = sector
    BY DEF ExitModes, chip
<1>2. trail' \in Seq(Writes) /\ history' \in Seq(Writes)
    BY <1>1, EmptySeq
<1>3. 0 \in 0 .. Len(trail') /\ Tracks(history', trail', 0)
    BY <1>1 DEF Tracks
<1>4. sector' = [s \in {0, 1} |-> sector'[s]]
    BY <1>1 DEF FlashInv
<1> QED
  BY <1>1, <1>2, <1>3, <1>4 DEF FlashInv

LEMMA FlashIdle ==
    ASSUME FlashInv, UNCHANGED <<chip, mode, history, trail>>
    PROVE  FlashInv'
BY DEF FlashInv, chip, Tracks, Matched

(* What a step of the chip may change.                                      *)
FlashChange ==
    /\ sector' # sector =>
         ChangedBy({"program"}, TRUE) \/ ChangedBy({"eraseChip", "eraseSector"}, FALSE)
    /\ sector'[0] # sector[0] => ~protected /\ writeOn
    /\ hidden' # hidden =>
         writeOn /\ (ChangedBy({"programHidden"}, TRUE) \/ ChangedBy({"eraseHidden"}, FALSE))
    /\ protected' # protected => writeOn /\ ChangedBy({"protect", "unprotect"}, FALSE)

(* The byte a program command waited for.                                   *)
LEMMA DataByteStep ==
    ASSUME FlashInv, NEW a, NEW v, <<a, v>> \in Writes,
           DataByte(a, v), trail' = Append(trail, <<a, v>>)
    PROVE  FlashInv' /\ FlashChange
<1> DEFINE s == SectorOf(a)
<1>1. PICK name \in {"program", "programHidden"} : name \in mode
    BY DEF DataByte
<1>2. trail \in Seq(Writes) /\ history \in Seq(Writes)
      /\ Len(history) > 0 /\ history[Len(history)] \in ProgramEnds
    BY <1>1 DEF FlashInv
<1>3. 0 \in 0 .. Len(trail') /\ Tracks(history', trail', 0) /\ history' = history
      /\ trail' \in Seq(Writes)
    BY <1>2, ByteTracked DEF DataByte
<1>4. Before(trail') = trail
  <2>1. Len(trail') - 1 = Len(trail) /\ trail' = Append(trail, <<a, v>>)
      BY <1>2
  <2>2. SubSeq(Append(trail, <<a, v>>), 1, Len(trail)) = trail
      BY <1>2
  <2> QED
    BY <2>1, <2>2 DEF Before
<1>5. mode' \intersect {"program", "programHidden"} = {}
    BY DEF DataByte, ModeAfter, Status
<1>6. s \in {0, 1}
    BY DEF SectorOf
<1>7. sector' = [i \in {0, 1} |-> sector'[i]] /\ (sector'[0] # sector[0] => ~protected /\ writeOn)
  <2>1. sector = [i \in {0, 1} |-> sector[i]]
      BY DEF FlashInv
  <2>2. CASE sector' = sector
      BY <2>1, <2>2
  <2>3. CASE sector' # sector
    <3>1. sector' = [sector EXCEPT ![s] = "programmed"] /\ (s = 1 \/ SectorZeroOpen)
        BY <2>3 DEF DataByte, ProgramsHidden, Programs
    <3> HIDE DEF s
    <3>2. sector' = [i \in {0, 1} |-> IF i = s THEN "programmed" ELSE sector[i]]
        BY <2>1, <3>1
    <3>3. s # 0 => sector'[0] = sector[0]
        BY <1>6, <3>2
    <3>4. sector' = [i \in {0, 1} |-> sector'[i]]
        BY <3>2, Zenon
    <3>5. s = 0 => ~protected /\ writeOn
        BY <3>1 DEF SectorZeroOpen
    <3> QED
      BY <3>3, <3>4, <3>5
  <2> QED
    BY <2>2, <2>3
<1>8. FlashInv'
    BY <1>3, <1>5, <1>7 DEF FlashInv
<1>9. CASE "programHidden" \in mode
  <2>1. Matched(Before(trail'), "programHidden")
      BY <1>4, <1>9 DEF FlashInv
  <2>2. ChangedBy({"programHidden"}, TRUE)
      BY <2>1 DEF ChangedBy
  <2>3. sector' = sector /\ protected' = protected /\ (hidden' # hidden => writeOn)
      BY <1>9 DEF DataByte, ProgramsHidden
  <2> QED
    BY <1>8, <2>2, <2>3 DEF FlashChange
<1>10. CASE "programHidden" \notin mode
  <2>1. "program" \in mode
      BY <1>1, <1>10
  <2>2. Matched(Before(trail'), "program")
      BY <1>4, <2>1 DEF FlashInv
  <2>3. ChangedBy({"program"}, TRUE)
      BY <2>2 DEF ChangedBy
  <2>4. hidden' = hidden /\ protected' = protected
      BY <1>10 DEF DataByte, Programs
  <2> QED
    BY <1>7, <1>8, <2>3, <2>4 DEF FlashChange
<1> QED
  BY <1>9, <1>10

(* A write that is part of a command, or of none.                           *)
LEMMA CommandByteStep ==
    ASSUME FlashInv, NEW a, NEW v, <<a, v>> \in Writes,
           CommandByte(a, v), trail' = Append(trail, <<a, v>>)
    PROVE  FlashInv' /\ FlashChange
<1> DEFINE h == LastOf(6, Append(history, <<a, v>>))
<1>1. history' = h /\ mode \intersect {"program", "programHidden"} = {}
      /\ \/ \E name \in DOMAIN Pattern : Matched(h, name) /\ Executes(name, a)
         \/ UNCHANGED <<chip, mode>>
    BY DEF CommandByte
<1>2. PICK q \in 0 .. Len(trail) : Tracks(history, trail, q)
    BY DEF FlashInv
<1>3. trail \in Seq(Writes) /\ history \in Seq(Writes) /\ sector = [i \in {0, 1} |-> sector[i]]
    BY DEF FlashInv
<1>4. LET t == Append(trail, <<a, v>>) IN
      h \in Seq(Writes) /\ q + 1 \in 1 .. Len(t) /\ Tracks(h, t, q + 1) /\ t \in Seq(Writes)
    BY <1>2, <1>3, WriteTracked
<1> HIDE DEF h
<1>5. /\ h \in Seq(Writes) /\ trail' \in Seq(Writes) /\ q + 1 \in 1 .. Len(trail')
      /\ q + 1 \in 0 .. Len(trail') /\ Tracks(h, trail', q + 1)
    BY <1>4
<1>6. CASE UNCHANGED <<chip, mode>>
  <2>1. FlashInv'
      BY <1>1, <1>3, <1>5, <1>6 DEF FlashInv, chip
  <2> QED
    BY <1>6, <2>1 DEF FlashChange, chip
<1>7. ASSUME NEW name \in DOMAIN Pattern, Matched(h, name), Executes(name, a)
      PROVE  FlashInv' /\ FlashChange
  <2>1. PICK t : t = trail'
      OBVIOUS
  <2>2. Matched(trail', name)
    <3>1. t \in Seq(Writes) /\ q + 1 \in 1 .. Len(t) /\ Tracks(h, t, q + 1)
        BY <1>5, <2>1
    <3>2. Matched(t, name)
        BY <1>5, <1>7, <3>1, MatchIsWritten
    <3> QED
      BY <2>1, <3>2
  <2>3. ASSUME NEW n \in {"program", "programHidden"}, n \in mode'
        PROVE  name = n
      BY <1>1, <1>7, <2>3 DEF Executes, ModeAfter, Status
  <2>4. \A n \in {"program", "programHidden"} : n \in mode' =>
          Matched(trail', n) /\ Len(history') > 0 /\ history'[Len(history')] \in ProgramEnds
      BY <1>1, <1>5, <1>7, <2>2, <2>3, ProgramIsLast
  <2>5. /\ sector' # sector => name \in {"eraseChip", "eraseSector"}
        /\ sector' = [i \in {0, 1} |-> sector'[i]]
        /\ sector'[0] # sector[0] => ~protected /\ writeOn
    <3>1. CASE sector' = sector
        BY <1>3, <3>1
    <3>2. CASE sector' # sector
      <4>1. PICK r : name \in {"eraseChip", "eraseSector"} /\ sector' = Erased(r)
          BY <1>7, <3>2 DEF Executes
      <4>2. sector' = [i \in {0, 1} |->
                         IF i \in r /\ (i = 1 \/ SectorZeroOpen) THEN "erased" ELSE sector[i]]
          BY <4>1 DEF Erased
      <4> QED
        BY <4>1, <4>2 DEF SectorZeroOpen
    <3> QED
      BY <3>1, <3>2
  <2>6. /\ hidden' # hidden => writeOn /\ name = "eraseHidden"
        /\ protected' # protected => writeOn /\ name \in {"protect", "unprotect"}
      BY <1>7 DEF Executes
  <2>7. FlashInv'
      BY <1>1, <1>5, <2>4, <2>5 DEF FlashInv
  <2>8. \A names : name \in names => ChangedBy(names, FALSE)
      BY <2>2 DEF ChangedBy
  <2> QED
    BY <2>5, <2>6, <2>7, <2>8 DEF FlashChange
<1> QED
  BY <1>1, <1>6, <1>7

LEMMA FlashStep ==
    ASSUME FlashInv, [Next]_vars
    PROVE  FlashInv' /\ (FlashChange \/ UNCHANGED vars)
<1>1. CASE UNCHANGED vars
    BY <1>1, FlashIdle DEF vars, chip
<1>2. ASSUME NEW v \in BOOLEAN, FlashEnable(v) PROVE FlashInv' /\ FlashChange
    BY <1>2, FlashIdle, FlashForgets DEF FlashEnable, FlashChange, chip
<1>3. ASSUME NEW v \in BOOLEAN, WriteEnable(v) PROVE FlashInv' /\ FlashChange
    BY <1>3, FlashIdle DEF WriteEnable, FlashChange, chip
<1>4. ASSUME NEW w, NEW v \in BOOLEAN, ShowFlash(w, v) PROVE FlashInv' /\ FlashChange
    BY <1>4, FlashIdle DEF ShowFlash, FlashChange, chip
<1>5. ASSUME ResetChip PROVE FlashInv' /\ FlashChange
    BY <1>5, FlashForgets DEF ResetChip, FlashChange, chip
<1>6. ASSUME NEW w \in FlashWrites, FlashWrite(w[1], w[2]) PROVE FlashInv' /\ FlashChange
  <2>1. <<w[1], w[2]>> \in Writes
      BY DEF Writes
  <2> QED
    BY <1>6, <2>1, DataByteStep, CommandByteStep DEF FlashWrite
<1> QED
  BY <1>1, <1>2, <1>3, <1>4, <1>5, <1>6 DEF Next

(* The flash chip changes only as the last write of a whole command says    *)
(* (mbc6.rs), whatever the game writes between two commands.                *)
LEMMA FlashFollows == MCSpec => FlashFollowsCommands
<1>1. [MCNext]_<<part, ramVars, rtc3Vars, rtcHVars, eepromVars, vars>> => [Next]_vars
    BY DEF MCNext, vars
<1>2. FlashInv /\ [MCNext]_<<part, ramVars, rtc3Vars, rtcHVars, eepromVars, vars>>
        => /\ FlashInv'
           /\ [FlashChange]_vars
    BY <1>1, FlashStep
<1>3. MCSpec => [][FlashChange]_vars
    BY <1>2, InitFlashInv, PTL DEF MCSpec
<1> QED
  BY <1>3 DEF FlashFollowsCommands, FlashChange

(* The memories behind the bus obey the commands given to them and nothing *)
(* else (clock_eeprom of mbc7.rs, write_flash of mbc6.rs): what changes in  *)
(* them is what the first whole command of a select says, or what the last  *)
(* write of an unbroken command says, writes enabled where they must be.    *)
THEOREM CommandsAreFollowed == MCSpec => MemoriesFollowCommands
BY EepromFollows, FlashFollows DEF MemoriesFollowCommands

(***************************************************************************)
(* The clock of the MBC3.                                                   *)
(***************************************************************************)

Clocks == [second : 0 .. SecondsPerMinute - 1, minute : 0 .. MinutesPerHour - 1,
           hour : 0 .. HoursPerDay - 1, day : 0 .. DayCount - 1,
           halted : BOOLEAN, carry : BOOLEAN]

LEMMA Units ==
    /\ SecondsPerMinute \in Nat \ {0} /\ MinutesPerHour \in Nat \ {0}
    /\ HoursPerDay \in Nat \ {0} /\ DayCount \in Nat \ {0} /\ RegisterBytes \subseteq Nat
BY Rtc3Assumption DEF Rtc3!Rtc3Parameters

(* Advanced, digit by digit: c is r after n seconds, with the minutes,      *)
(* hours, days and rounds of the day counter that were carried.             *)
Counts(r, n, c, minutes, hours, days, rounds) ==
    /\ c = Rtc3!Advanced(r, n)
    /\ r.second + n = SecondsPerMinute * minutes + c.second
    /\ r.minute + minutes = MinutesPerHour * hours + c.minute
    /\ r.hour + hours = HoursPerDay * days + c.hour
    /\ r.day + days = DayCount * rounds + c.day
    /\ c.halted = r.halted
    /\ c.carry <=> r.carry \/ r.day + days >= DayCount

LEMMA Digits ==
    ASSUME NEW r \in Clocks, NEW n \in Nat
    PROVE  \E c \in Clocks, minutes \in Nat, hours \in Nat, days \in Nat, rounds \in Nat :
             Counts(r, n, c, minutes, hours, days, rounds)
<1>1. PICK S \in Nat \ {0}, M \in Nat \ {0}, H \in Nat \ {0}, D \in Nat \ {0} :
         S = SecondsPerMinute /\ M = MinutesPerHour /\ H = HoursPerDay /\ D = DayCount
    BY Units
<1>2. r.second \in Nat /\ r.minute \in Nat /\ r.hour \in Nat /\ r.day \in Nat
      /\ r.halted \in BOOLEAN /\ r.carry \in BOOLEAN
    BY <1>1 DEF Clocks
<1>3. PICK x \in Nat : x = r.second + n
    BY <1>2
<1>4. PICK minutes \in Nat, s \in 0 .. S - 1 : minutes = x \div S /\ s = x % S /\ x = S * minutes + s
    BY Divided
<1>5. PICK y \in Nat : y = r.minute + minutes
    BY <1>2
<1>6. PICK hours \in Nat, m \in 0 .. M - 1 : hours = y \div M /\ m = y % M /\ y = M * hours + m
    BY Divided
<1>7. PICK z \in Nat : z = r.hour + hours
    BY <1>2
<1>8. PICK days \in Nat, h \in 0 .. H - 1 : days = z \div H /\ h = z % H /\ z = H * days + h
    BY Divided
<1>9. PICK w \in Nat : w = r.day + days
    BY <1>2
<1>10. PICK rounds \in Nat, d \in 0 .. D - 1 : rounds = w \div D /\ d = w % D /\ w = D * rounds + d
    BY Divided
<1>11. PICK k \in BOOLEAN : k = (r.carry \/ w >= D)
    OBVIOUS
<1>12. Rtc3!Advanced(r, n) = [r EXCEPT !.second = s, !.minute = m, !.hour = h, !.day = d, !.carry = k]
    BY <1>1, <1>3, <1>4, <1>5, <1>6, <1>7, <1>8, <1>9, <1>10, <1>11, Zenon DEF Rtc3!Advanced
<1>13. PICK c : c = [r EXCEPT !.second = s, !.minute = m, !.hour = h, !.day = d, !.carry = k]
    OBVIOUS
<1>14. c \in Clocks /\ c.second = s /\ c.minute = m /\ c.hour = h /\ c.day = d
       /\ c.halted = r.halted /\ c.carry = k
    BY <1>1, <1>13 DEF Clocks
<1>15. c.carry <=> r.carry \/ w >= D
    BY <1>11, <1>14
<1>16. Counts(r, n, c, minutes, hours, days, rounds)
    BY <1>1, <1>3, <1>4, <1>5, <1>6, <1>7, <1>8, <1>9, <1>10, <1>12, <1>13, <1>14, <1>15, ZenonT(120) DEF Counts
<1> QED
    BY <1>14, <1>16

LEMMA SameClock ==
    ASSUME NEW c \in Clocks, NEW d \in Clocks, c.second = d.second, c.minute = d.minute,
           c.hour = d.hour, c.day = d.day, c.halted = d.halted, c.carry <=> d.carry
    PROVE  c = d
<1>1. c.carry = d.carry
    BY DEF Clocks
<1> QED
    BY <1>1 DEF Clocks

(* A digit that nothing is carried into, and one that goes on by one.       *)
LEMMA StandsStill ==
    ASSUME NEW b \in Nat \ {0}, NEW p \in 0 .. b - 1, NEW q \in Nat, NEW t \in 0 .. b - 1,
           p + 0 = b * q + t
    PROVE  q = 0 /\ t = p
<1>1. p = b * 0 + p /\ p = b * q + t /\ p \in Int /\ q \in Int
    OBVIOUS
<1>2. p \div b = 0 /\ p % b = p
    BY <1>1, OnlyDivision
<1>3. p \div b = q /\ p % b = t
    BY <1>1, OnlyDivision
<1> QED
    BY <1>2, <1>3

LEMMA OneUp ==
    ASSUME NEW b \in Nat \ {0}, NEW p \in 0 .. b - 1, NEW q \in Nat, NEW t \in 0 .. b - 1,
           p + 1 = b * q + t
    PROVE  /\ q = (IF p = b - 1 THEN 1 ELSE 0)
           /\ t = (p + 1) % b
<1>1. PICK a \in Int : a = p + 1
    OBVIOUS
<1>2. a \div b = q /\ a % b = t
    BY <1>1, OnlyDivision
<1>3. CASE p = b - 1
  <2>1. a = b * 1 + 0 /\ 0 \in 0 .. b - 1
      BY <1>1, <1>3
  <2>2. a \div b = 1 /\ a % b = 0
      BY <2>1, OnlyDivision
  <2> QED
      BY <1>1, <1>2, <1>3, <2>2
<1>4. CASE p # b - 1
  <2>1. a = b * 0 + a /\ a \in 0 .. b - 1
      BY <1>1, <1>4
  <2>2. a \div b = 0 /\ a % b = a
      BY <2>1, OnlyDivision
  <2> QED
      BY <1>1, <1>2, <1>4, <2>2
<1> QED
    BY <1>3, <1>4

(* Seconds may be counted in two goes.                                      *)
LEMMA AdvancedTwice ==
    ASSUME NEW r \in Clocks, NEW a \in Nat, NEW b \in Nat
    PROVE  /\ Rtc3!Advanced(r, a) \in Clocks
           /\ Rtc3!Advanced(Rtc3!Advanced(r, a), b) = Rtc3!Advanced(r, a + b)
<1>1. PICK S \in Nat \ {0}, M \in Nat \ {0}, H \in Nat \ {0}, D \in Nat \ {0} :
         S = SecondsPerMinute /\ M = MinutesPerHour /\ H = HoursPerDay /\ D = DayCount
    BY Units
<1>2. PICK c \in Clocks, m \in Nat, h \in Nat, d \in Nat, x \in Nat : Counts(r, a, c, m, h, d, x)
    BY Digits
<1>3. PICK e \in Clocks, m2 \in Nat, h2 \in Nat, d2 \in Nat, x2 \in Nat : Counts(c, b, e, m2, h2, d2, x2)
    BY Digits
<1>4. PICK f \in Clocks, m3 \in Nat, h3 \in Nat, d3 \in Nat, x3 \in Nat :
        Counts(r, a + b, f, m3, h3, d3, x3)
  <2>1. a + b \in Nat
      OBVIOUS
  <2> QED
      BY <2>1, Digits
<1>5. \A u \in Clocks : /\ u.second \in 0 .. S - 1 /\ u.minute \in 0 .. M - 1
                        /\ u.hour \in 0 .. H - 1 /\ u.day \in 0 .. D - 1
    BY <1>1 DEF Clocks
<1>6. m3 = m + m2 /\ f.second = e.second
  <2>1. PICK u \in Int, r1 \in 0 .. S - 1, r2 \in 0 .. S - 1, r3 \in 0 .. S - 1 :
          u = r.second + a /\ r1 = c.second /\ r2 = e.second /\ r3 = f.second
      BY <1>5
  <2>2. u = S * m + r1 /\ r1 + b = S * m2 + r2 /\ u + b = S * m3 + r3
      BY <1>1, <1>2, <1>3, <1>4, <1>5, <2>1 DEF Counts
  <2> DEFINE n == b
  <2>3. n \in Int /\ r1 + n = S * m2 + r2 /\ u + n = S * m3 + r3
      BY <2>2
  <2> HIDE DEF n
  <2>4. m3 = m + m2
      BY <2>2, <2>3, Carried
  <2>5. S * m3 = S * m + S * m2
      BY <2>4
  <2>6. r3 = r2
      BY <2>2, <2>3, <2>5
  <2> QED
      BY <2>1, <2>4, <2>6
<1>7. h3 = h + h2 /\ f.minute = e.minute
  <2>1. PICK u \in Int, r1 \in 0 .. M - 1, r2 \in 0 .. M - 1, r3 \in 0 .. M - 1 :
          u = r.minute + m /\ r1 = c.minute /\ r2 = e.minute /\ r3 = f.minute
      BY <1>5
  <2>2. u = M * h + r1 /\ r1 + m2 = M * h2 + r2 /\ u + m2 = M * h3 + r3
      BY <1>1, <1>2, <1>3, <1>4, <1>5, <1>6, <2>1 DEF Counts
  <2>3. h3 = h + h2 /\ r3 = r2
      BY <2>2, Carried
  <2> QED
      BY <2>1, <2>3
<1>8. d3 = d + d2 /\ f.hour = e.hour
  <2>1. PICK u \in Int, r1 \in 0 .. H - 1, r2 \in 0 .. H - 1, r3 \in 0 .. H - 1 :
          u = r.hour + h /\ r1 = c.hour /\ r2 = e.hour /\ r3 = f.hour
      BY <1>5
  <2>2. u = H * d + r1 /\ r1 + h2 = H * d2 + r2 /\ u + h2 = H * d3 + r3
      BY <1>1, <1>2, <1>3, <1>4, <1>5, <1>7, <2>1 DEF Counts
  <2>3. d3 = d + d2 /\ r3 = r2
      BY <2>2, Carried
  <2> QED
      BY <2>1, <2>3
<1>9. PICK u \in Nat, r1 \in 0 .. D - 1, r2 \in 0 .. D - 1, r3 \in 0 .. D - 1 :
        /\ u = r.day + d /\ r1 = c.day /\ r2 = e.day /\ r3 = f.day
        /\ u = D * x + r1 /\ r1 + d2 = D * x2 + r2 /\ u + d2 = D * x3 + r3
  <2>1. PICK u \in Nat, r1 \in 0 .. D - 1, r2 \in 0 .. D - 1, r3 \in 0 .. D - 1 :
          u = r.day + d /\ r1 = c.day /\ r2 = e.day /\ r3 = f.day
      BY <1>5, SMTT(90)
  <2>2. u = D * x + r1
      BY <1>1, <1>2, <2>1 DEF Counts
  <2>3. r1 + d2 = D * x2 + r2
      BY <1>1, <1>3, <2>1 DEF Counts
  <2>4. u + d2 = D * x3 + r3
    <3>1. r.day \in Int
        BY <1>5
    <3> QED
        BY <1>1, <1>4, <1>8, <2>1, <3>1 DEF Counts
  <2> QED
      BY <2>1, <2>2, <2>3, <2>4, SMTT(90)
<1>10. f.day = e.day
  <2>1. PICK v \in Int, n \in Int : v = u /\ n = d2
      OBVIOUS
  <2>2. v = D * x + r1 /\ r1 + n = D * x2 + r2 /\ v + n = D * x3 + r3
      BY <1>9, <2>1
  <2>3. x3 = x + x2
      BY <2>2, Carried
  <2>4. D * x3 = D * x + D * x2
      BY <2>3
  <2>5. r3 = r2
      BY <2>2, <2>4
  <2> QED
      BY <1>9, <2>5
<1>11. /\ c.carry <=> r.carry \/ u >= D
       /\ e.carry <=> c.carry \/ r1 + d2 >= D
       /\ f.carry <=> r.carry \/ u + d2 >= D
    BY <1>1, <1>2, <1>3, <1>4, <1>5, <1>8, <1>9 DEF Counts
<1>12. u + d2 >= D <=> u >= D \/ r1 + d2 >= D
  <2>1. CASE u >= D
      BY <2>1
  <2>2. CASE u < D
    <3>1. u = D * 0 + u /\ u \in 0 .. D - 1
        BY <2>2
    <3>2. u \div D = 0 /\ u % D = u /\ u \div D = x /\ u % D = r1
        BY <1>9, <3>1, OnlyDivision, SMTT(90)
    <3> QED
        BY <2>2, <3>2
  <2> QED
      BY <2>1, <2>2
<1>13. e.halted = f.halted
    BY <1>2, <1>3, <1>4 DEF Counts
<1>14. e = f
    BY <1>6, <1>7, <1>8, <1>10, <1>11, <1>12, <1>13, SameClock
<1> QED
    BY <1>2, <1>3, <1>4, <1>14 DEF Counts

(* A clock that stands still for no time, and one that is halted.           *)
LEMMA AdvancedNever ==
    ASSUME NEW r \in Clocks
    PROVE  Rtc3!Advanced(r, 0) = r /\ \A n \in Nat : Rtc3!Advanced(r, n).halted = r.halted
<1>1. PICK S \in Nat \ {0}, M \in Nat \ {0}, H \in Nat \ {0}, D \in Nat \ {0} :
         S = SecondsPerMinute /\ M = MinutesPerHour /\ H = HoursPerDay /\ D = DayCount
    BY Units
<1>2. PICK c \in Clocks, m \in Nat, h \in Nat, d \in Nat, x \in Nat : Counts(r, 0, c, m, h, d, x)
    BY Digits
<1>3. PICK s1 \in 0 .. S - 1, m1 \in 0 .. M - 1, h1 \in 0 .. H - 1, d1 \in 0 .. D - 1 :
        s1 = r.second /\ m1 = r.minute /\ h1 = r.hour /\ d1 = r.day
    BY <1>1 DEF Clocks
<1>4. PICK s2 \in 0 .. S - 1, m2 \in 0 .. M - 1, h2 \in 0 .. H - 1, d2 \in 0 .. D - 1 :
        s2 = c.second /\ m2 = c.minute /\ h2 = c.hour /\ d2 = c.day
    BY <1>1 DEF Clocks
<1>5. /\ s1 + 0 = S * m + s2 /\ m1 + m = M * h + m2
      /\ h1 + h = H * d + h2 /\ d1 + d = D * x + d2
    BY <1>1, <1>2, <1>3, <1>4 DEF Counts
<1>6. m = 0 /\ s2 = s1
    BY <1>5, StandsStill
<1>7. h = 0 /\ m2 = m1
    BY <1>5, <1>6, StandsStill
<1>8. d = 0 /\ h2 = h1
    BY <1>5, <1>7, StandsStill
<1>9. d2 = d1
    BY <1>5, <1>8, StandsStill
<1>10. c.carry <=> r.carry
  <2>1. c.carry <=> r.carry \/ d1 + d >= D
      BY <1>1, <1>2, <1>3 DEF Counts
  <2> QED
      BY <1>8, <2>1
<1>11. c.halted = r.halted /\ c = Rtc3!Advanced(r, 0)
    BY <1>2 DEF Counts
<1>12. ASSUME NEW n \in Nat PROVE Rtc3!Advanced(r, n).halted = r.halted
  <2>1. PICK e \in Clocks, i \in Nat, j \in Nat, k \in Nat, y \in Nat : Counts(r, n, e, i, j, k, y)
      BY Digits
  <2> QED
      BY <2>1 DEF Counts
<1>13. c = r
    BY <1>3, <1>4, <1>6, <1>7, <1>8, <1>9, <1>10, <1>11, SameClock
<1> QED
    BY <1>11, <1>12, <1>13

(* The reference clock, one second, is the code's with one second.          *)
LEMMA AdvancedOnce ==
    ASSUME NEW r \in Clocks
    PROVE  Rtc3!Advanced(r, 1) = Rtc3!OneSecond(r)
<1>1. PICK S \in Nat \ {0}, M \in Nat \ {0}, H \in Nat \ {0}, D \in Nat \ {0} :
         S = SecondsPerMinute /\ M = MinutesPerHour /\ H = HoursPerDay /\ D = DayCount
    BY Units
<1>2. PICK s \in 0 .. S - 1, m \in 0 .. M - 1, h \in 0 .. H - 1, d \in 0 .. D - 1, k \in BOOLEAN :
        s = r.second /\ m = r.minute /\ h = r.hour /\ d = r.day /\ k = r.carry
    BY <1>1 DEF Clocks
<1>3. PICK c \in Clocks, minutes \in Nat, hours \in Nat, days \in Nat, rounds \in Nat :
        Counts(r, 1, c, minutes, hours, days, rounds)
    BY Digits
<1>4. PICK s2 \in 0 .. S - 1, m2 \in 0 .. M - 1, h2 \in 0 .. H - 1, d2 \in 0 .. D - 1 :
        s2 = c.second /\ m2 = c.minute /\ h2 = c.hour /\ d2 = c.day
    BY <1>1 DEF Clocks
<1>5. /\ s + 1 = S * minutes + s2 /\ m + minutes = M * hours + m2
      /\ h + hours = H * days + h2 /\ d + days = D * rounds + d2
    BY <1>1, <1>2, <1>3, <1>4 DEF Counts
<1> DEFINE newMinute == s = S - 1
           newHour   == newMinute /\ m = M - 1
           newDay    == newHour /\ h = H - 1
<1>7. minutes = (IF newMinute THEN 1 ELSE 0) /\ s2 = (s + 1) % S
    BY <1>5, OneUp
<1>8. hours = (IF newHour THEN 1 ELSE 0) /\ m2 = (IF newMinute THEN (m + 1) % M ELSE m)
    BY <1>5, <1>7, OneUp, StandsStill
<1>9. days = (IF newDay THEN 1 ELSE 0) /\ h2 = (IF newHour THEN (h + 1) % H ELSE h)
    BY <1>5, <1>8, OneUp, StandsStill
<1>10. d2 = (IF newDay THEN (d + 1) % D ELSE d)
    BY <1>5, <1>9, OneUp, StandsStill
<1>11. c.carry <=> k \/ (newDay /\ d = D - 1)
  <2>1. c.carry <=> k \/ d + days >= D
      BY <1>1, <1>2, <1>3 DEF Counts
  <2>2. d + days >= D <=> newDay /\ d = D - 1
      BY <1>9
  <2> QED
      BY <2>1, <2>2
<1>12. PICK k2 \in BOOLEAN : k2 = (k \/ (newDay /\ d = D - 1))
    OBVIOUS
<1>13. Rtc3!OneSecond(r) = [r EXCEPT !.second = s2, !.minute = m2, !.hour = h2, !.day = d2, !.carry = k2]
  <2>1. newMinute <=> r.second = SecondsPerMinute - 1
      BY <1>1, <1>2, Zenon
  <2>2. newHour <=> (r.second = SecondsPerMinute - 1 /\ r.minute = MinutesPerHour - 1)
      BY <1>1, <1>2, Zenon
  <2>3. newDay <=> (r.second = SecondsPerMinute - 1 /\ r.minute = MinutesPerHour - 1
                      /\ r.hour = HoursPerDay - 1)
      BY <1>1, <1>2, Zenon
  <2> HIDE DEF newMinute, newHour, newDay
  <2> QED
      BY <1>1, <1>2, <1>7, <1>8, <1>9, <1>10, <1>12, <2>1, <2>2, <2>3, Zenon DEF Rtc3!OneSecond
<1> HIDE DEF newMinute, newHour, newDay
<1>14. c.carry = k2
    BY <1>11, <1>12 DEF Clocks
<1>15. c.halted = r.halted /\ c = Rtc3!Advanced(r, 1)
    BY <1>3 DEF Counts
<1>16. c = [r EXCEPT !.second = s2, !.minute = m2, !.hour = h2, !.day = d2, !.carry = k2]
    BY <1>4, <1>14, <1>15 DEF Clocks
<1> QED
    BY <1>13, <1>15, <1>16

(* A clock driven every second shows what the code counts at once.          *)
LEMMA DrivenIsAdvanced ==
    ASSUME NEW r \in Clocks, NEW n \in Nat
    PROVE  Rtc3!Driven(r)[n] = Rtc3!Advanced(r, n)
<1> DEFINE f == [i \in Nat |-> Rtc3!Advanced(r, i)]
           d == Rtc3!Driven(r)
           A == {i \in Nat : d[i] = f[i]}
<1>1. \A i \in Nat \ {0} : f[i] = Rtc3!OneSecond(f[i - 1])
  <2> TAKE i \in Nat \ {0}
  <2>1. PICK j \in Nat : j = i - 1 /\ i = j + 1
      OBVIOUS
  <2>2. Rtc3!Advanced(r, j) \in Clocks
        /\ Rtc3!Advanced(Rtc3!Advanced(r, j), 1) = Rtc3!Advanced(r, j + 1)
      BY AdvancedTwice
  <2>3. f[i] = Rtc3!Advanced(r, i) /\ f[j] = Rtc3!Advanced(r, j)
      OBVIOUS
  <2> QED
      BY <2>1, <2>2, <2>3, AdvancedOnce, Zenon
<1>2. f[0] = r
    BY AdvancedNever
<1>3. f = [i \in Nat |-> IF i = 0 THEN r ELSE Rtc3!OneSecond(f[i - 1])]
    BY <1>1, <1>2
<1> HIDE DEF f
<1>4. d = [i \in Nat |-> IF i = 0 THEN r ELSE Rtc3!OneSecond(d[i - 1])]
    BY <1>3, Zenon DEF Rtc3!Driven
<1> HIDE DEF d
<1>5. 0 \in A
    BY <1>2, <1>4
<1>6. ASSUME NEW i \in Nat, i \in A PROVE i + 1 \in A
  <2>1. PICK j \in Nat : j = i + 1 /\ j # 0 /\ j - 1 = i
      OBVIOUS
  <2>2. d[j] = Rtc3!OneSecond(d[i]) /\ f[j] = Rtc3!OneSecond(f[i])
      BY <1>3, <1>4, <2>1, Zenon
  <2> QED
      BY <1>6, <2>1, <2>2
<1> HIDE DEF A
<1>7. n \in A
    BY <1>5, <1>6, Induction
<1> QED
    BY <1>7 DEF A, d, f

(* Bringing a clock up to date: it stays a clock, and is then up to date.   *)
LEMMA UpToDate ==
    ASSUME NEW r \in Clocks, NEW t \in Int, NEW since \in Int
    PROVE  LET u == Rtc3!Updated(r, t, since) IN
           /\ u.regs \in Clocks /\ u.last \in Int /\ t =< u.last
           /\ u.last = Rtc3!LaterOf(t, since)
           /\ u.regs.halted = r.halted
           /\ Rtc3!Updated(u.regs, t, u.last).regs = u.regs
           /\ t =< since => u.regs = r
           /\ t > since /\ ~ r.halted => u.regs = Rtc3!Advanced(r, t - since)
           /\ r.halted => u.regs = r
<1> DEFINE u == Rtc3!Updated(r, t, since)
<1>1. CASE t =< since
  <2>1. u = [regs |-> r, last |-> since]
      BY <1>1 DEF Rtc3!Updated
  <2>2. u.regs = r /\ u.last = since
      BY <2>1
  <2> HIDE DEF u
  <2>3. Rtc3!Updated(u.regs, t, u.last).regs = u.regs
      BY <1>1, <2>2 DEF Rtc3!Updated
  <2> QED
      BY <1>1, <2>2, <2>3 DEF u, Rtc3!LaterOf
<1>2. CASE t > since
  <2>1. PICK n \in Nat : n = t - since
      BY <1>2
  <2>2. u = [regs |-> IF r.halted THEN r ELSE Rtc3!Advanced(r, n), last |-> t]
      BY <1>2, <2>1 DEF Rtc3!Updated
  <2>3. u.regs = (IF r.halted THEN r ELSE Rtc3!Advanced(r, n)) /\ u.last = t
      BY <2>2
  <2>4. Rtc3!Advanced(r, n) \in Clocks /\ Rtc3!Advanced(r, n).halted = r.halted
      BY AdvancedTwice, AdvancedNever
  <2> HIDE DEF u
  <2>5. Rtc3!Updated(u.regs, t, u.last).regs = u.regs
      BY <2>3 DEF Rtc3!Updated
  <2> QED
      BY <1>2, <2>1, <2>3, <2>4, <2>5 DEF u, Rtc3!LaterOf
<1> QED
    BY <1>1, <1>2

LEMMA RegisterIsClock ==
    ASSUME NEW r \in Clocks, NEW s \in Rtc3!Slots, NEW v \in RegisterBytes
    PROVE  Rtc3!RegisterWritten(r, s, v) \in Clocks
<1>1. PICK S \in Nat \ {0}, M \in Nat \ {0}, H \in Nat \ {0}, D \in Nat \ {0} :
         S = SecondsPerMinute /\ M = MinutesPerHour /\ H = HoursPerDay /\ D = DayCount
    BY Units
<1>2. PICK w \in Nat : w = v
    BY Units
<1>3. w % S \in 0 .. S - 1
    BY Division
<1>4. w % M \in 0 .. M - 1
    BY Division
<1>5. w % H \in 0 .. H - 1
    BY Division
<1>6. w % D \in 0 .. D - 1
    BY Division
<1>7. PICK a \in 0 .. S - 1, b \in 0 .. M - 1, c \in 0 .. H - 1, d \in 0 .. D - 1, p \in BOOLEAN, q \in BOOLEAN :
        a = v % S /\ b = v % M /\ c = v % H /\ d = v % D /\ p = (v % 2 = 1) /\ q = (v \div 2 = 1)
    BY <1>2, <1>3, <1>4, <1>5, <1>6
<1>8. CASE s = "second"
  <2>1. Rtc3!RegisterWritten(r, s, v) = [r EXCEPT !.second = a]
      BY <1>1, <1>7, <1>8 DEF Rtc3!RegisterWritten
  <2> QED
      BY <1>1, <2>1 DEF Clocks
<1>9. CASE s = "minute"
  <2>1. Rtc3!RegisterWritten(r, s, v) = [r EXCEPT !.minute = b]
      BY <1>1, <1>7, <1>9 DEF Rtc3!RegisterWritten
  <2> QED
      BY <1>1, <2>1 DEF Clocks
<1>10. CASE s = "hour"
  <2>1. Rtc3!RegisterWritten(r, s, v) = [r EXCEPT !.hour = c]
      BY <1>1, <1>7, <1>10 DEF Rtc3!RegisterWritten
  <2> QED
      BY <1>1, <2>1 DEF Clocks
<1>11. CASE s = "day"
  <2>1. Rtc3!RegisterWritten(r, s, v) = [r EXCEPT !.day = d]
      BY <1>1, <1>7, <1>11 DEF Rtc3!RegisterWritten
  <2> QED
      BY <1>1, <2>1 DEF Clocks
<1>12. CASE s = "control"
  <2>1. Rtc3!RegisterWritten(r, s, v) = [r EXCEPT !.halted = p, !.carry = q]
      BY <1>7, <1>12 DEF Rtc3!RegisterWritten
  <2> QED
      BY <2>1 DEF Clocks
<1> QED
    BY <1>8, <1>9, <1>10, <1>11, <1>12 DEF Rtc3!Slots

Rtc3Inv ==
    /\ now \in Int /\ last \in Int /\ live \in Clocks
    /\ slot \in Rtc3!Slots \union {"ram"}
    /\ Rtc3!ClockKeepsTime

LEMMA InitRtc3Inv == MCInit => Rtc3Inv
<1> SUFFICES ASSUME Rtc3!Init PROVE Rtc3Inv
    BY DEF MCInit
<1>1. PICK S \in Nat \ {0}, M \in Nat \ {0}, H \in Nat \ {0}, D \in Nat \ {0} :
         S = SecondsPerMinute /\ M = MinutesPerHour /\ H = HoursPerDay /\ D = DayCount
    BY Units
<1>2. live \in Clocks
    BY <1>1 DEF Rtc3!Init, Rtc3!Midnight, Clocks
<1>3. Rtc3!Updated(live, 1, 1) = [regs |-> live, last |-> 1]
    BY DEF Rtc3!Updated
<1> QED
    BY <1>2, <1>3 DEF Rtc3!Init, Rtc3Inv, Rtc3!ClockKeepsTime

(* The host's time: the clock shows the seconds that a driven one counted.  *)
LEMMA HostTimeKeeps ==
    ASSUME Rtc3Inv, NEW t \in 0 .. MaxNow, Rtc3!HostTime(t)
    PROVE  Rtc3Inv'
<1>1. PICK n \in Int, l \in Int, r \in Clocks : n = now /\ l = last /\ r = live
    BY DEF Rtc3Inv
<1>2. /\ t \in Int /\ (t > n \/ (t < n /\ n =< l))
      /\ now' = t /\ last' = l /\ live' = r /\ slot' = slot
      /\ ideal3' = IF ideal3.halted THEN ideal3
                   ELSE Rtc3!Driven(ideal3)[Rtc3!LaterOf(t, l) - Rtc3!LaterOf(n, l)]
    BY <1>1 DEF Rtc3!HostTime
<1>3. ideal3 = Rtc3!Updated(r, n, l).regs
    BY <1>1 DEF Rtc3Inv, Rtc3!ClockKeepsTime
<1>4. PICK i \in Clocks : i = ideal3 /\ i.halted = r.halted
    BY <1>3, UpToDate
<1>5. PICK k \in Nat : k = Rtc3!LaterOf(t, l) - Rtc3!LaterOf(n, l)
    BY <1>2 DEF Rtc3!LaterOf
<1>6. Rtc3!Driven(i)[k] = Rtc3!Advanced(i, k)
    BY DrivenIsAdvanced
<1>7. Rtc3!Updated(r, t, l).regs = IF i.halted THEN i ELSE Rtc3!Advanced(i, k)
  <2>1. CASE r.halted
    <3>1. Rtc3!Updated(r, t, l).regs = r /\ i = r
        BY <1>3, <1>4, <2>1, UpToDate
    <3> QED
        BY <1>4, <2>1, <3>1
  <2>2. CASE ~ r.halted /\ t =< l
    <3>1. k = 0 /\ n =< l
        BY <1>2, <1>5, <2>2 DEF Rtc3!LaterOf
    <3>2. Rtc3!Updated(r, t, l).regs = r /\ i = r
        BY <1>2, <1>3, <1>4, <2>2, <3>1, UpToDate
    <3> QED
        BY <1>4, <2>2, <3>1, <3>2, AdvancedNever
  <2>3. CASE ~ r.halted /\ t > l /\ n =< l
    <3>1. k = t - l
        BY <1>5, <2>3 DEF Rtc3!LaterOf
    <3>2. Rtc3!Updated(r, t, l).regs = Rtc3!Advanced(r, t - l) /\ i = r
        BY <1>2, <1>3, <1>4, <2>3, UpToDate
    <3> QED
        BY <1>4, <2>3, <3>1, <3>2
  <2>4. CASE ~ r.halted /\ t > l /\ n > l
    <3>1. PICK a \in Nat : a = n - l /\ a + k = t - l
        BY <1>2, <1>5, <2>4 DEF Rtc3!LaterOf
    <3>2. Rtc3!Updated(r, t, l).regs = Rtc3!Advanced(r, a + k) /\ i = Rtc3!Advanced(r, a)
        BY <1>2, <1>3, <1>4, <2>4, <3>1, UpToDate, SMTT(90)
    <3>3. Rtc3!Advanced(i, k) = Rtc3!Advanced(r, a + k)
        BY <3>2, AdvancedTwice
    <3> QED
        BY <1>4, <2>4, <3>2, <3>3
  <2> QED
      BY <1>1, <2>1, <2>2, <2>3, <2>4
<1>8. ideal3' = Rtc3!Updated(r, t, l).regs
    BY <1>2, <1>4, <1>5, <1>6, <1>7
<1> QED
    BY <1>1, <1>2, <1>8 DEF Rtc3Inv, Rtc3!ClockKeepsTime

LEMMA UpdateKeeps ==
    ASSUME Rtc3Inv, Rtc3!Update, now' = now, ideal3' = ideal3,
           slot' \in Rtc3!Slots \union {"ram"}
    PROVE  Rtc3Inv'
<1>1. PICK n \in Int, l \in Int, r \in Clocks : n = now /\ l = last /\ r = live
    BY DEF Rtc3Inv
<1>2. PICK u : u = Rtc3!Updated(r, n, l)
    OBVIOUS
<1>3. last' = u.last /\ live' = u.regs
    BY <1>1, <1>2 DEF Rtc3!Update
<1>4. u.regs \in Clocks /\ u.last \in Int /\ Rtc3!Updated(u.regs, n, u.last).regs = u.regs
    BY <1>2, UpToDate
<1>5. ideal3 = u.regs
    BY <1>1, <1>2 DEF Rtc3Inv, Rtc3!ClockKeepsTime
<1> QED
    BY <1>1, <1>3, <1>4, <1>5 DEF Rtc3Inv, Rtc3!ClockKeepsTime

LEMMA RegisterKeeps ==
    ASSUME Rtc3Inv, NEW v \in RegisterBytes, Rtc3!WriteRegister(v)
    PROVE  Rtc3Inv'
<1>1. PICK n \in Int, l \in Int, r \in Clocks : n = now /\ l = last /\ r = live
    BY DEF Rtc3Inv
<1>2. PICK u : u = Rtc3!Updated(r, n, l)
    OBVIOUS
<1>3. /\ last' = u.last /\ live' = Rtc3!RegisterWritten(u.regs, slot, v)
      /\ ideal3' = Rtc3!RegisterWritten(ideal3, slot, v) /\ now' = n /\ slot' = slot
      /\ slot \in Rtc3!Slots
    BY <1>1, <1>2 DEF Rtc3!WriteRegister, Rtc3Inv
<1>4. u.regs \in Clocks /\ u.last \in Int /\ n =< u.last
    BY <1>2, UpToDate
<1>5. ideal3 = u.regs
    BY <1>1, <1>2 DEF Rtc3Inv, Rtc3!ClockKeepsTime
<1>6. live' \in Clocks
    BY <1>3, <1>4, RegisterIsClock
<1>7. PICK x \in Clocks, m \in Int : x = live' /\ m = last'
    BY <1>3, <1>4, <1>6
<1>8. Rtc3!Updated(x, n, m).regs = x
    BY <1>3, <1>4, <1>7, UpToDate
<1> QED
    BY <1>1, <1>3, <1>5, <1>7, <1>8 DEF Rtc3Inv, Rtc3!ClockKeepsTime

LEMMA NextRtc3Inv ==
    Rtc3Inv /\ [MCNext]_<<part, ramVars, rtc3Vars, rtcHVars, eepromVars, vars>> => Rtc3Inv'
<1> SUFFICES ASSUME Rtc3Inv, Rtc3!Next \/ UNCHANGED rtc3Vars PROVE Rtc3Inv'
    BY DEF MCNext
<1>1. CASE UNCHANGED rtc3Vars
    BY <1>1 DEF rtc3Vars, Rtc3Inv, Rtc3!ClockKeepsTime
<1>2. ASSUME NEW t \in 0 .. MaxNow, Rtc3!HostTime(t) PROVE Rtc3Inv'
    BY <1>2, HostTimeKeeps
<1>3. ASSUME Rtc3!Tick PROVE Rtc3Inv'
    BY <1>3, UpdateKeeps DEF Rtc3!Tick, Rtc3Inv
<1>4. ASSUME NEW v \in BOOLEAN, Rtc3!EnableWrite(v) PROVE Rtc3Inv'
    BY <1>4, UpdateKeeps DEF Rtc3!EnableWrite, Rtc3Inv
<1>5. ASSUME NEW s \in Rtc3!Slots \union {"ram"}, Rtc3!SelectWrite(s) PROVE Rtc3Inv'
    BY <1>5, UpdateKeeps DEF Rtc3!SelectWrite
<1>6. ASSUME NEW v \in 0 .. 2, Rtc3!LatchWrite(v) PROVE Rtc3Inv'
    BY <1>6, UpdateKeeps DEF Rtc3!LatchWrite, Rtc3Inv
<1>7. ASSUME NEW v \in RegisterBytes, Rtc3!WriteRegister(v) PROVE Rtc3Inv'
    BY <1>7, RegisterKeeps
<1>8. ASSUME Rtc3!WriteRam PROVE Rtc3Inv'
    BY <1>8, UpdateKeeps DEF Rtc3!WriteRam, Rtc3Inv
<1> QED
    BY <1>1, <1>2, <1>3, <1>4, <1>5, <1>6, <1>7, <1>8 DEF Rtc3!Next

(***************************************************************************)
(* The clock of the HuC3.                                                   *)
(***************************************************************************)

Times == [minute : Nat, day : Nat]
Memories == [RtcH!Parts -> Times]
Ideals == [now : Int, second : Int, left : Int]

LEMMA UnitsH ==
    \E S \in Nat \ {0}, M \in Nat \ {0}, B \in Nat \ {0}, C \in Nat \ {0}, P \in Nat \ {0} :
       /\ S = SecondsInMinute /\ M = MinutesInDay /\ B = Base /\ C = RtcH!Cap
       /\ P = M * C /\ P = RtcH!Period
<1>1. PICK S \in Nat \ {0}, M \in Nat \ {0}, B \in Nat \ {0} :
        S = SecondsInMinute /\ M = MinutesInDay /\ B = Base
    BY RtcHAssumption DEF RtcH!RtcHParameters
<1>2. PICK D \in Nat \ {0} : D = B * B
    OBVIOUS
<1>3. PICK C \in Nat \ {0} : C = D * B
    OBVIOUS
<1>4. PICK P \in Nat \ {0} : P = M * C
    OBVIOUS
<1>5. C = RtcH!Cap
    BY <1>1, <1>2, <1>3 DEF RtcH!Cap
<1>6. P = RtcH!Period
    BY <1>1, <1>4, <1>5 DEF RtcH!Period
<1> QED
    BY <1>1, <1>4, <1>5, <1>6

(* A minute that runs over the day, and a day that runs over its twelve     *)
(* bits, leave the time that they name in the round of all times.           *)
LEMMA TimeWraps ==
    ASSUME NEW d \in Nat, NEW x \in Nat
    PROVE  \E t \in Times :
             /\ t = [minute |-> x % MinutesInDay,
                     day |-> (d + (x \div MinutesInDay)) % RtcH!Cap]
             /\ RtcH!Absolute(t) \in 0 .. RtcH!Period - 1
             /\ RtcH!Absolute(t) = (d * MinutesInDay + x) % RtcH!Period
<1>1. PICK M \in Nat \ {0}, C \in Nat \ {0}, P \in Nat \ {0} :
        M = MinutesInDay /\ C = RtcH!Cap /\ P = M * C /\ P = RtcH!Period
    BY UnitsH
<1>2. PICK q \in Nat, m \in 0 .. M - 1 : q = x \div M /\ m = x % M /\ x = M * q + m
    BY Divided
<1>3. PICK D \in Nat : D = d + q
    OBVIOUS
<1>4. PICK k \in Nat, e \in 0 .. C - 1 : k = D \div C /\ e = D % C /\ D = C * k + e
    BY Divided
<1>5. PICK z \in Nat : z = e * M + m
    OBVIOUS
<1>6. z < P
  <2>1. e * M =< (C - 1) * M
      OBVIOUS
  <2>2. (C - 1) * M = P - M
      BY <1>1
  <2>3. e * M \in Nat
      OBVIOUS
  <2> QED
      BY <1>5, <2>1, <2>2, <2>3
<1>7. PICK y \in Nat : y = d * M + x
    OBVIOUS
<1>8. y = P * k + z
  <2>1. y = D * M + m
    <3>1. D * M = d * M + M * q
        BY <1>3
    <3> QED
        BY <1>2, <1>7, <3>1
  <2>2. D * M = (C * k) * M + e * M
      BY <1>4
  <2>3. (C * k) * M = P * k
      BY <1>1
  <2>4. D * M \in Int /\ e * M \in Int /\ P * k \in Int
      OBVIOUS
  <2> QED
      BY <1>5, <2>1, <2>2, <2>3, <2>4
<1>9. z \in 0 .. P - 1
    BY <1>6
<1>10. y \div P = k /\ y % P = z
    BY <1>8, <1>9, OnlyDivision
<1>11. PICK t \in Times : t = [minute |-> m, day |-> e] /\ RtcH!Absolute(t) = z
  <2>1. [minute |-> m, day |-> e] \in Times
      BY DEF Times
  <2>2. RtcH!Absolute([minute |-> m, day |-> e]) = e * M + m
      BY <1>1 DEF RtcH!Absolute
  <2> QED
      BY <1>5, <2>1, <2>2
<1> QED
    BY <1>1, <1>2, <1>3, <1>4, <1>7, <1>9, <1>10, <1>11

(* The reference clock n seconds later.                                     *)
Onward(i, n) ==
    [now |-> (i.now + ((i.second + n) \div SecondsInMinute)) % RtcH!Period,
     second |-> (i.second + n) % SecondsInMinute,
     left |-> (i.left - ((i.second + n) \div SecondsInMinute)) % RtcH!Period]

RangedIdeals == [now : 0 .. RtcH!Period - 1, second : 0 .. SecondsInMinute - 1,
                 left : 0 .. RtcH!Period - 1]

LEMMA OnwardIsIdeal ==
    ASSUME NEW i \in RangedIdeals, NEW n \in Nat
    PROVE  Onward(i, n) \in RangedIdeals /\ Onward(i, 0) = i
<1>1. PICK S \in Nat \ {0}, P \in Nat \ {0} : S = SecondsInMinute /\ P = RtcH!Period
    BY UnitsH
<1>2. PICK a \in 0 .. P - 1, s \in 0 .. S - 1, l \in 0 .. P - 1 : i = [now |-> a, second |-> s, left |-> l]
    BY <1>1 DEF RangedIdeals
<1>3. PICK x \in Nat : x = s + n
    OBVIOUS
<1>4. PICK q \in Nat, r \in 0 .. S - 1 : q = x \div S /\ r = x % S
    BY Divided
<1>5. PICK b \in Int, c \in Int : b = a + q /\ c = l - q
    OBVIOUS
<1>6. b % P \in 0 .. P - 1 /\ c % P \in 0 .. P - 1
    BY Division
<1>7. Onward(i, n) = [now |-> b % P, second |-> r, left |-> c % P]
    BY <1>1, <1>2, <1>3, <1>4, <1>5 DEF Onward
<1>8. Onward(i, n) \in RangedIdeals
    BY <1>1, <1>4, <1>6, <1>7 DEF RangedIdeals
<1>9. s \div S = 0 /\ s % S = s
    BY SmallDivision
<1>10. a % P = a
    BY SmallDivision
<1>11. l % P = l
    BY SmallDivision
<1>12. s + 0 = s /\ a + 0 = a /\ l - 0 = l
    OBVIOUS
<1>13. Onward(i, 0) = i
    BY <1>1, <1>2, <1>9, <1>10, <1>11, <1>12 DEF Onward
<1> QED
    BY <1>8, <1>13

LEMMA OnwardTwice ==
    ASSUME NEW i \in RangedIdeals, NEW n \in Nat, NEW k \in Nat
    PROVE  Onward(Onward(i, n), k) = Onward(i, n + k)
<1>1. PICK S \in Nat \ {0}, P \in Nat \ {0} : S = SecondsInMinute /\ P = RtcH!Period
    BY UnitsH
<1>2. PICK a \in 0 .. P - 1, s \in 0 .. S - 1, l \in 0 .. P - 1 : i = [now |-> a, second |-> s, left |-> l]
    BY <1>1 DEF RangedIdeals
<1>3. PICK x \in Nat : x = s + n
    OBVIOUS
<1>4. PICK q \in Nat, r \in 0 .. S - 1 : q = x \div S /\ r = x % S /\ x = S * q + r
    BY Divided
<1>5. PICK y \in Nat : y = r + k
    OBVIOUS
<1>6. PICK q2 \in Nat, r2 \in 0 .. S - 1 : q2 = y \div S /\ r2 = y % S /\ y = S * q2 + r2
    BY Divided
<1>7. PICK z \in Nat : z = s + (n + k) /\ z = x + k
    BY <1>3
<1>8. PICK q3 \in Nat, r3 \in 0 .. S - 1 : q3 = z \div S /\ r3 = z % S /\ z = S * q3 + r3
    BY Divided
<1>9. q3 = q + q2 /\ r3 = r2
  <2>1. x = S * q + r /\ r + k = S * q2 + r2 /\ x + k = S * q3 + r3
      BY <1>4, <1>5, <1>6, <1>7, <1>8
  <2>2. q3 = q + q2
      BY <2>1, Carried
  <2>3. S * q3 = S * q + S * q2
      BY <2>2
  <2> QED
      BY <2>1, <2>2, <2>3
<1>10. PICK b \in Int, c \in Int, q4 \in Int, q5 \in Int :
        b = a + q /\ c = l - q /\ q4 = 0 - q2 /\ q5 = q2
    OBVIOUS
<1>11. ((b % P) + q5) % P = (b + q5) % P
    BY LaterDivision, ZenonT(120)
<1>12. ((c % P) + q4) % P = (c + q4) % P
    BY LaterDivision, ZenonT(120)
<1>13. b % P \in Int /\ c % P \in Int
    BY Division
<1>14. PICK u \in Int, v \in Int : u = b % P /\ v = c % P
    BY <1>13
<1>15. Onward(i, n) = [now |-> u, second |-> r, left |-> v]
    BY <1>1, <1>2, <1>3, <1>4, <1>10, <1>14 DEF Onward
<1>16. Onward(Onward(i, n), k) = [now |-> (u + q5) % P, second |-> r2, left |-> (v - q2) % P]
    BY <1>1, <1>5, <1>6, <1>10, <1>15 DEF Onward
<1>17. Onward(i, n + k) = [now |-> (a + q3) % P, second |-> r3, left |-> (l - q3) % P]
    BY <1>1, <1>2, <1>7, <1>8 DEF Onward
<1>18. a + q3 = b + q5 /\ l - q3 = c + q4 /\ v - q2 = v + q4
    BY <1>9, <1>10
<1> QED
    BY <1>9, <1>11, <1>12, <1>14, <1>16, <1>17, <1>18

LEMMA OnwardOnce ==
    ASSUME NEW i \in RangedIdeals
    PROVE  Onward(i, 1) = RtcH!IdealSecond(i)
<1>1. PICK S \in Nat \ {0}, P \in Nat \ {0} : S = SecondsInMinute /\ P = RtcH!Period
    BY UnitsH
<1>2. PICK a \in 0 .. P - 1, s \in 0 .. S - 1, l \in 0 .. P - 1 : i = [now |-> a, second |-> s, left |-> l]
    BY <1>1 DEF RangedIdeals
<1>3. PICK x \in Nat : x = s + 1
    OBVIOUS
<1>4. CASE s < S - 1
  <2>1. x \in 0 .. S - 1
      BY <1>3, <1>4
  <2>2. x \div S = 0 /\ x % S = x
      BY <2>1, SmallDivision
  <2>3. a % P = a
      BY SmallDivision
  <2>4. l % P = l
      BY SmallDivision
  <2>5. Onward(i, 1) = [now |-> (a + 0) % P, second |-> x, left |-> (l - 0) % P]
      BY <1>1, <1>2, <1>3, <2>2 DEF Onward
  <2>6. Onward(i, 1) = [now |-> a, second |-> x, left |-> l]
    <3>1. a + 0 = a /\ l - 0 = l
        OBVIOUS
    <3> QED
        BY <2>3, <2>4, <2>5, <3>1
  <2>7. RtcH!IdealSecond(i) = [i EXCEPT !.second = s + 1]
      BY <1>1, <1>2, <1>4 DEF RtcH!IdealSecond
  <2> QED
      BY <1>2, <1>3, <2>6, <2>7
<1>5. CASE s = S - 1
  <2>1. x = S * 1 + 0 /\ 0 \in 0 .. S - 1
      BY <1>3, <1>5
  <2>2. x \div S = 1 /\ x % S = 0
      BY <2>1, OnlyDivision
  <2>3. Onward(i, 1) = [now |-> (a + 1) % P, second |-> 0, left |-> (l - 1) % P]
      BY <1>1, <1>2, <1>3, <2>2 DEF Onward
  <2>4. RtcH!IdealSecond(i) = [second |-> 0, now |-> (a + 1) % P, left |-> (l - 1) % P]
      BY <1>1, <1>2, <1>5 DEF RtcH!IdealSecond
  <2> QED
      BY <2>3, <2>4
<1> QED
    BY <1>4, <1>5

LEMMA IdealIsOnward ==
    ASSUME NEW i \in RangedIdeals, NEW n \in Nat
    PROVE  RtcH!IdealAfter(i)[n] = Onward(i, n)
<1> DEFINE f == [j \in Nat |-> Onward(i, j)]
           d == RtcH!IdealAfter(i)
           A == {j \in Nat : d[j] = f[j]}
<1>1. \A j \in Nat \ {0} : f[j] = RtcH!IdealSecond(f[j - 1])
  <2> TAKE j \in Nat \ {0}
  <2>1. PICK k \in Nat : k = j - 1 /\ j = k + 1
      OBVIOUS
  <2>2. Onward(i, k) \in RangedIdeals /\ Onward(Onward(i, k), 1) = Onward(i, k + 1)
      BY OnwardIsIdeal, OnwardTwice
  <2>3. f[j] = Onward(i, j) /\ f[k] = Onward(i, k)
      OBVIOUS
  <2> QED
      BY <2>1, <2>2, <2>3, OnwardOnce, Zenon
<1>2. f[0] = i
    BY OnwardIsIdeal
<1>3. f = [j \in Nat |-> IF j = 0 THEN i ELSE RtcH!IdealSecond(f[j - 1])]
    BY <1>1, <1>2
<1> HIDE DEF f
<1>4. d = [j \in Nat |-> IF j = 0 THEN i ELSE RtcH!IdealSecond(d[j - 1])]
    BY <1>3, Zenon DEF RtcH!IdealAfter
<1> HIDE DEF d
<1>5. 0 \in A
    BY <1>2, <1>4
<1>6. ASSUME NEW j \in Nat, j \in A PROVE j + 1 \in A
  <2>1. PICK k \in Nat : k = j + 1 /\ k # 0 /\ k - 1 = j
      OBVIOUS
  <2>2. d[k] = RtcH!IdealSecond(d[j]) /\ f[k] = RtcH!IdealSecond(f[j])
      BY <1>3, <1>4, <2>1, Zenon
  <2> QED
      BY <1>6, <2>1, <2>2
<1> HIDE DEF A
<1>7. n \in A
    BY <1>5, <1>6, Induction
<1> QED
    BY <1>7 DEF A, d, f

LEMMA IdealOfMemory ==
    ASSUME NEW m \in Memories, NEW s \in 0 .. SecondsInMinute - 1
    PROVE  /\ \A p \in RtcH!Parts : RtcH!Absolute(m[p]) \in Nat
           /\ RtcH!Ideal(m, s) \in RangedIdeals
<1>1. PICK S \in Nat \ {0}, M \in Nat \ {0}, P \in Nat \ {0} :
        S = SecondsInMinute /\ M = MinutesInDay /\ P = RtcH!Period
    BY UnitsH
<1>2. ASSUME NEW p \in RtcH!Parts PROVE RtcH!Absolute(m[p]) \in Nat
  <2>1. m[p].day \in Nat /\ m[p].minute \in Nat
      BY DEF Memories, Times
  <2>2. PICK d \in Nat, n \in Nat : d = m[p].day /\ n = m[p].minute
      BY <2>1
  <2>3. d * M + n \in Nat
      OBVIOUS
  <2> QED
      BY <1>1, <2>2, <2>3 DEF RtcH!Absolute
<1>3. PICK c \in Nat, e \in Nat : c = RtcH!Absolute(m.current) /\ e = RtcH!Absolute(m.event)
    BY <1>2 DEF RtcH!Parts
<1>4. c % P \in 0 .. P - 1
    BY Division
<1>5. PICK x \in Int : x = e - c
    OBVIOUS
<1>6. x % P \in 0 .. P - 1
    BY Division
<1> QED
    BY <1>1, <1>2, <1>3, <1>4, <1>5, <1>6 DEF RtcH!Ideal, RangedIdeals

LEMMA ForwardTime ==
    ASSUME NEW c \in Times, NEW w \in Nat
    PROVE  /\ RtcH!Forward(c, w) \in Times
           /\ RtcH!Absolute(RtcH!Forward(c, w)) \in 0 .. RtcH!Period - 1
           /\ RtcH!Absolute(RtcH!Forward(c, w)) = (RtcH!Absolute(c) + w) % RtcH!Period
<1>1. PICK M \in Nat \ {0} : M = MinutesInDay
    BY UnitsH
<1>2. PICK d \in Nat, n \in Nat : d = c.day /\ n = c.minute
    BY DEF Times
<1>3. PICK x \in Nat : x = n + w
    OBVIOUS
<1>4. PICK t \in Times :
        /\ t = [minute |-> x % MinutesInDay, day |-> (d + (x \div MinutesInDay)) % RtcH!Cap]
        /\ RtcH!Absolute(t) \in 0 .. RtcH!Period - 1
        /\ RtcH!Absolute(t) = (d * MinutesInDay + x) % RtcH!Period
    BY TimeWraps
<1>5. RtcH!Forward(c, w) = t
    BY <1>2, <1>3, <1>4 DEF RtcH!Forward
<1>6. RtcH!Absolute(c) + w = d * MinutesInDay + x
  <2>1. PICK y \in Int : y = d * M
      OBVIOUS
  <2> QED
      BY <1>1, <1>2, <1>3, <2>1 DEF RtcH!Absolute
<1> QED
    BY <1>4, <1>5, <1>6

(* Bringing the memory up to date: its time and the way to the event are    *)
(* those of the reference clock after as many seconds.                      *)
LEMMA UpToDateH ==
    ASSUME NEW m \in Memories, NEW s \in 0 .. SecondsInMinute - 1, NEW t \in Int, NEW since \in Int
    PROVE  LET u == RtcH!UpdatedTo(m, s, t, since) IN
           /\ u.memory \in Memories /\ u.sub \in 0 .. SecondsInMinute - 1
           /\ u.seen \in Int /\ t =< u.seen /\ u.seen = RtcH!Later(t, since)
           /\ u.memory.window = m.window
           /\ t =< since => u.memory = m /\ u.sub = s
           /\ t > since => RtcH!Ideal(u.memory, u.sub) = Onward(RtcH!Ideal(m, s), t - since)
<1> DEFINE u == RtcH!UpdatedTo(m, s, t, since)
<1>1. CASE t =< since
  <2>1. u = [memory |-> m, sub |-> s, seen |-> since]
      BY <1>1 DEF RtcH!UpdatedTo
  <2>2. u.memory = m /\ u.sub = s /\ u.seen = since
      BY <2>1
  <2> HIDE DEF u
  <2> QED
      BY <1>1, <2>2 DEF u, RtcH!Later
<1>2. CASE t > since
  <2>1. PICK S \in Nat \ {0}, P \in Nat \ {0} : S = SecondsInMinute /\ P = RtcH!Period
      BY UnitsH
  <2>2. PICK x \in Nat, n \in Nat : n = t - since /\ x = s + n /\ x = s + t - since
      BY <1>2, <2>1
  <2>3. PICK w \in Nat, r \in 0 .. S - 1 : w = x \div S /\ r = x % S
      BY Divided
  <2>4. PICK m2 : m2 = (IF w = 0 THEN m ELSE [m EXCEPT !.current = RtcH!Forward(m.current, w)])
      OBVIOUS
  <2>5. u = [memory |-> m2, sub |-> r, seen |-> t]
    <3>1. ~ (t =< since)
        BY <1>2
    <3> QED
        BY <2>1, <2>2, <2>3, <2>4, <3>1, Zenon DEF RtcH!UpdatedTo
  <2>6. u.memory = m2 /\ u.sub = r /\ u.seen = t
      BY <2>5
  <2>7. m.current \in Times
      BY DEF Memories, RtcH!Parts
  <2>8. RtcH!Forward(m.current, w) \in Times
      BY <2>7, ForwardTime
  <2>9. /\ m2 \in Memories /\ m2.window = m.window /\ m2.event = m.event
        /\ m2.current = IF w = 0 THEN m.current ELSE RtcH!Forward(m.current, w)
      BY <2>4, <2>8 DEF Memories, RtcH!Parts
  <2>10. PICK c \in Nat, e \in Nat : c = RtcH!Absolute(m.current) /\ e = RtcH!Absolute(m.event)
      BY <2>1, IdealOfMemory DEF RtcH!Parts
  <2>11. PICK c2 \in Nat : c2 = RtcH!Absolute(m2.current)
      BY <2>1, <2>9, IdealOfMemory DEF RtcH!Parts
  <2>12. c2 % P = (c + w) % P /\ (e - c2) % P = (e - (c + w)) % P
    <3>1. CASE w = 0
      <4>1. c2 = c /\ c + w = c
          BY <2>9, <2>10, <2>11, <3>1
      <4> QED
          BY <4>1
    <3>2. CASE w # 0
      <4>1. c2 \in 0 .. P - 1 /\ c2 = (c + w) % P
          BY <2>1, <2>7, <2>9, <2>10, <2>11, <3>2, ForwardTime
      <4>2. c2 % P = c2
          BY <4>1, SmallDivision
      <4>3. PICK y \in Int, e3 \in Int : y = c + w /\ e3 = e
          OBVIOUS
      <4>4. (e3 - (y % P)) % P = (e3 - y) % P
          BY LessDivision
      <4> QED
          BY <4>1, <4>2, <4>3, <4>4
    <3> QED
        BY <3>1, <3>2
  <2>13. RtcH!Ideal(m2, r) = [now |-> (c + w) % P, second |-> r, left |-> (e - (c + w)) % P]
      BY <2>1, <2>9, <2>10, <2>11, <2>12 DEF RtcH!Ideal
  <2>14. RtcH!Ideal(m, s) = [now |-> c % P, second |-> s, left |-> (e - c) % P]
      BY <2>1, <2>10 DEF RtcH!Ideal
  <2>15. Onward(RtcH!Ideal(m, s), n) = [now |-> ((c % P) + w) % P, second |-> r, left |-> (((e - c) % P) - w) % P]
      BY <2>1, <2>2, <2>3, <2>14 DEF Onward
  <2>16. ((c % P) + w) % P = (c + w) % P
    <3>1. PICK c3 \in Int, w3 \in Int : c3 = c /\ w3 = w
        OBVIOUS
    <3>2. ((c3 % P) + w3) % P = (c3 + w3) % P
        BY LaterDivision
    <3> QED
        BY <3>1, <3>2
  <2>17. (((e - c) % P) - w) % P = (e - (c + w)) % P
    <3>1. PICK c3 \in Int, w3 \in Int : c3 = e - c /\ w3 = 0 - w
        OBVIOUS
    <3>2. ((c3 % P) + w3) % P = (c3 + w3) % P
        BY LaterDivision
    <3>3. PICK v \in 0 .. P - 1 : v = c3 % P
      <4>1. c3 % P \in 0 .. P - 1
          BY Division
      <4> QED
          BY <4>1
    <3>4. v + w3 = v - w /\ c3 + w3 = e - (c + w)
        BY <3>1
    <3> QED
        BY <3>1, <3>2, <3>3, <3>4
  <2> HIDE DEF u
  <2> QED
      BY <1>2, <2>1, <2>2, <2>3, <2>6, <2>9, <2>13, <2>15, <2>16, <2>17 DEF u, RtcH!Later
<1> QED
    BY <1>1, <1>2

LEMMA SplitTime ==
    ASSUME NEW n \in Nat
    PROVE  RtcH!Split(n) \in Times /\ RtcH!Absolute(RtcH!Split(n)) = n % RtcH!Period
<1>1. PICK M \in Nat \ {0} : M = MinutesInDay
    BY UnitsH
<1>2. PICK d \in Nat : d = 0
    OBVIOUS
<1>3. PICK t \in Times :
        /\ t = [minute |-> n % MinutesInDay, day |-> (d + (n \div MinutesInDay)) % RtcH!Cap]
        /\ RtcH!Absolute(t) = (d * MinutesInDay + n) % RtcH!Period
    BY TimeWraps
<1>4. d + (n \div MinutesInDay) = n \div MinutesInDay /\ d * MinutesInDay + n = n
  <2>1. PICK q \in Nat, r \in 0 .. M - 1 : q = n \div M /\ r = n % M
      BY Divided
  <2>2. d + q = q /\ d * M + n = n
      BY <1>2
  <2> QED
      BY <1>1, <2>1, <2>2
<1>5. RtcH!Split(n) = t
    BY <1>3, <1>4 DEF RtcH!Split
<1> QED
    BY <1>3, <1>4, <1>5

(* Setting the time takes the event along: the way to it stays the same.    *)
LEMMA TimeIsSet ==
    ASSUME NEW m \in Memories
    PROVE  LET n == RtcH!TimeSet(m) IN
           /\ n \in Memories
           /\ RtcH!Absolute(m.event) >= RtcH!Absolute(m.current) =>
                RtcH!Ideal(n, 0) = [now |-> RtcH!Absolute(m.window) % RtcH!Period, second |-> 0,
                                    left |-> (RtcH!Absolute(m.event) - RtcH!Absolute(m.current)) % RtcH!Period]
<1>1. PICK S \in Nat \ {0}, P \in Nat \ {0} : S = SecondsInMinute /\ P = RtcH!Period
    BY UnitsH
<1>2. PICK W \in Nat, C \in Nat, E \in Nat :
        W = RtcH!Absolute(m.window) /\ C = RtcH!Absolute(m.current) /\ E = RtcH!Absolute(m.event)
  <2>1. 0 \in 0 .. SecondsInMinute - 1
      BY <1>1
  <2> QED
      BY <2>1, IdealOfMemory DEF RtcH!Parts
<1>3. PICK x \in Nat : x = RtcH!Max0(W + E - C) /\ (E >= C => x = W + E - C)
    BY DEF RtcH!Max0
<1>4. PICK v : v = RtcH!Split(x)
    OBVIOUS
<1>5. v \in Times /\ RtcH!Absolute(v) = x % P
    BY <1>1, <1>4, SplitTime
<1>6. PICK n : n = [m EXCEPT !.current = m.window, !.event = v]
    OBVIOUS
<1>7. RtcH!TimeSet(m) = n
    BY <1>2, <1>3, <1>4, <1>6, Zenon DEF RtcH!TimeSet
<1>8. n \in Memories /\ n.current = m.window /\ n.event = v
    BY <1>5, <1>6 DEF Memories, RtcH!Parts
<1>9. ASSUME E >= C
      PROVE  RtcH!Ideal(n, 0) = [now |-> W % P, second |-> 0, left |-> (E - C) % P]
  <2>1. PICK x3 \in Int, w3 \in Int : x3 = x /\ w3 = 0 - W
      OBVIOUS
  <2>2. ((x3 % P) + w3) % P = (x3 + w3) % P
      BY LaterDivision
  <2>3. PICK y \in 0 .. P - 1 : y = x3 % P
    <3>1. x3 % P \in 0 .. P - 1
        BY Division
    <3> QED
        BY <3>1
  <2>4. x3 + w3 = E - C /\ y + w3 = y - W
      BY <1>3, <1>9, <2>1
  <2>5. RtcH!Ideal(n, 0) = [now |-> W % P, second |-> 0, left |-> (y - W) % P]
      BY <1>1, <1>2, <1>5, <1>8, <2>1, <2>3 DEF RtcH!Ideal
  <2> QED
      BY <2>2, <2>3, <2>4, <2>5
<1> QED
    BY <1>1, <1>2, <1>7, <1>8, <1>9

(* A nibble that is written leaves a number.                                *)
LEMMA NibbleIsNumber ==
    ASSUME NEW x \in Nat, NEW i \in 0 .. 2, NEW v \in Nat
    PROVE  RtcH!WithNibble(x, i, v) \in Nat
<1>1. PICK B \in Nat \ {0} : B = Base
    BY UnitsH
<1>2. PICK p \in Nat \ {0} : p = RtcH!Power(i)
  <2>1. B * B \in Nat \ {0}
      OBVIOUS
  <2>2. RtcH!Power(i) = (IF i = 0 THEN 1 ELSE IF i = 1 THEN B ELSE B * B)
      BY <1>1 DEF RtcH!Power
  <2> QED
      BY <2>1, <2>2
<1>3. PICK q \in Nat, r \in 0 .. p - 1 : q = x \div p /\ r = x % p /\ x = p * q + r
    BY Divided
<1>4. PICK j \in Nat, n \in 0 .. B - 1 : j = q \div B /\ n = q % B /\ q = B * j + n
    BY Divided
<1>5. PICK k \in Nat, w \in 0 .. B - 1 : k = v \div B /\ w = v % B
    BY Divided
<1>6. RtcH!WithNibble(x, i, v) = x + (w - n) * p
    BY <1>1, <1>2, <1>3, <1>4, <1>5 DEF RtcH!WithNibble
<1>7. (w - n) * p = w * p - n * p /\ w * p \in Nat /\ n * p \in Nat
    OBVIOUS
<1>8. n =< q
  <2>1. B * j \in Nat
      OBVIOUS
  <2> QED
      BY <1>4, <2>1
<1>9. n * p =< p * q
  <2>1. p * (q - n) >= 0 /\ p * (q - n) = p * q - n * p
      BY <1>8
  <2> QED
      BY <1>7, <2>1
<1>10. p * q \in Nat
    OBVIOUS
<1> QED
    BY <1>3, <1>6, <1>7, <1>9, <1>10

LEMMA PokedIsMemory ==
    ASSUME NEW m \in Memories, NEW a, NEW v \in Nat
    PROVE  RtcH!Poked(m, a, v) \in Memories
<1>1. ASSUME NEW p \in RtcH!Parts
      PROVE  (CASE a \in RtcH!Start[p] .. RtcH!Start[p] + 2 ->
                    [m[p] EXCEPT !.minute = RtcH!WithNibble(@, a - RtcH!Start[p], v)]
                [] a \in RtcH!Start[p] + 3 .. RtcH!Start[p] + 5 ->
                    [m[p] EXCEPT !.day = RtcH!WithNibble(@, a - RtcH!Start[p] - 3, v)]
                [] OTHER -> m[p]) \in Times
  <2>1. PICK b \in Nat : b = RtcH!Start[p]
      BY DEF RtcH!Start, RtcH!Parts
  <2>2. PICK t \in Times : t = m[p]
      BY DEF Memories
  <2>3. t.minute \in Nat /\ t.day \in Nat
      BY DEF Times
  <2>4. CASE a \in b .. b + 2
    <3>1. a - b \in 0 .. 2
        BY <2>4
    <3>2. RtcH!WithNibble(t.minute, a - b, v) \in Nat
        BY <2>3, <3>1, NibbleIsNumber
    <3>3. [t EXCEPT !.minute = RtcH!WithNibble(t.minute, a - b, v)] \in Times
        BY <3>2 DEF Times
    <3>4. ~ (a \in b + 3 .. b + 5)
        BY <2>4
    <3> QED
        BY <2>1, <2>2, <2>4, <3>3, <3>4, Zenon
  <2>5. CASE a \in b + 3 .. b + 5
    <3>1. a - b - 3 \in 0 .. 2
        BY <2>5
    <3>2. RtcH!WithNibble(t.day, a - b - 3, v) \in Nat
        BY <2>3, <3>1, NibbleIsNumber
    <3>3. [t EXCEPT !.day = RtcH!WithNibble(t.day, a - b - 3, v)] \in Times
        BY <3>2 DEF Times
    <3>4. ~ (a \in b .. b + 2)
        BY <2>5
    <3> QED
        BY <2>1, <2>2, <2>5, <3>3, <3>4, Zenon
  <2>6. CASE ~ (a \in b .. b + 2) /\ ~ (a \in b + 3 .. b + 5)
      BY <2>1, <2>2, <2>6
  <2> QED
      BY <2>4, <2>5, <2>6
<1> QED
    BY <1>1, Zenon DEF RtcH!Poked, Memories

RtcHInv ==
    /\ time \in Int /\ seen \in Int /\ sub \in 0 .. SecondsInMinute - 1
    /\ memory \in Memories
    /\ RtcH!ClockAndEventKeepTime

LEMMA InitRtcHInv == MCInit => RtcHInv
<1> SUFFICES ASSUME RtcH!Init PROVE RtcHInv
    BY DEF MCInit
<1>1. PICK S \in Nat \ {0} : S = SecondsInMinute
    BY UnitsH
<1>2. PICK m \in Memories : m = memory
    BY DEF RtcH!Init, Memories, Times
<1>3. RtcH!UpdatedTo(m, 0, 0, 0) = [memory |-> m, sub |-> 0, seen |-> 0]
    BY DEF RtcH!UpdatedTo
<1> QED
    BY <1>1, <1>2, <1>3 DEF RtcH!Init, RtcHInv, RtcH!ClockAndEventKeepTime, RtcH!Now

LEMMA HostClockKeeps ==
    ASSUME RtcHInv, NEW t \in 0 .. MaxSeconds, RtcH!HostClock(t)
    PROVE  RtcHInv'
<1>1. PICK n \in Int, l \in Int, s \in 0 .. SecondsInMinute - 1, m \in Memories :
        n = time /\ l = seen /\ s = sub /\ m = memory
    BY DEF RtcHInv
<1>2. /\ t \in Int /\ (t > n \/ (t < n /\ n =< l))
      /\ time' = t /\ seen' = l /\ sub' = s /\ memory' = m
      /\ ideal' = RtcH!IdealAfter(ideal)[RtcH!Later(t, l) - RtcH!Later(n, l)]
    BY <1>1 DEF RtcH!HostClock
<1>3. PICK i \in RangedIdeals : i = RtcH!Ideal(m, s)
    BY IdealOfMemory
<1>4. PICK k \in Nat : k = RtcH!Later(t, l) - RtcH!Later(n, l)
    BY <1>2 DEF RtcH!Later
<1>5. PICK u : u = RtcH!UpdatedTo(m, s, n, l)
    OBVIOUS
<1>6. PICK u2 : u2 = RtcH!UpdatedTo(m, s, t, l)
    OBVIOUS
<1>7. ideal = RtcH!Ideal(u.memory, u.sub)
    BY <1>1, <1>5 DEF RtcHInv, RtcH!ClockAndEventKeepTime, RtcH!Now
<1>8. SUFFICES ideal' = RtcH!Ideal(u2.memory, u2.sub)
    BY <1>1, <1>2, <1>6 DEF RtcHInv, RtcH!ClockAndEventKeepTime, RtcH!Now
<1>9. CASE t =< l
  <2>1. k = 0 /\ n =< l
      BY <1>2, <1>4, <1>9 DEF RtcH!Later
  <2>2. ideal = i
      BY <1>3, <1>5, <1>7, <2>1, UpToDateH
  <2>3. RtcH!Ideal(u2.memory, u2.sub) = i
      BY <1>3, <1>6, <1>9, UpToDateH
  <2>4. ideal' = Onward(i, k)
      BY <1>2, <1>4, <2>2, IdealIsOnward
  <2> QED
      BY <2>1, <2>3, <2>4, OnwardIsIdeal
<1>10. CASE t > l /\ n =< l
  <2>1. k = t - l
      BY <1>4, <1>10 DEF RtcH!Later
  <2>2. ideal = i
      BY <1>3, <1>5, <1>7, <1>10, UpToDateH
  <2>3. RtcH!Ideal(u2.memory, u2.sub) = Onward(i, t - l)
      BY <1>2, <1>3, <1>6, <1>10, UpToDateH
  <2>4. ideal' = Onward(i, k)
      BY <1>2, <1>4, <2>2, IdealIsOnward
  <2> QED
      BY <2>1, <2>3, <2>4
<1>11. CASE t > l /\ n > l
  <2>1. PICK a \in Nat : a = n - l /\ a + k = t - l
      BY <1>2, <1>4, <1>11 DEF RtcH!Later
  <2>2. ideal = Onward(i, a)
      BY <1>3, <1>5, <1>7, <1>11, <2>1, UpToDateH
  <2>3. RtcH!Ideal(u2.memory, u2.sub) = Onward(i, a + k)
      BY <1>2, <1>3, <1>6, <1>11, <2>1, UpToDateH
  <2>4. ideal' = Onward(Onward(i, a), k)
      BY <1>2, <1>4, <2>2, OnwardIsIdeal, IdealIsOnward
  <2> QED
      BY <2>3, <2>4, OnwardTwice
<1> QED
    BY <1>1, <1>9, <1>10, <1>11

(* What a command leaves is up to date and the reference clock with it.     *)
LEMMA CommandKeeps ==
    ASSUME RtcHInv, NEW m \in Memories, NEW s \in 0 .. SecondsInMinute - 1,
           memory' = m, sub' = s, seen' = RtcH!Now.seen, time' = time,
           ideal' = RtcH!Ideal(m, s)
    PROVE  RtcHInv'
<1>1. PICK n \in Int, l \in Int, s1 \in 0 .. SecondsInMinute - 1, m1 \in Memories :
        n = time /\ l = seen /\ s1 = sub /\ m1 = memory
    BY DEF RtcHInv
<1>2. PICK u : u = RtcH!Now /\ u = RtcH!UpdatedTo(m1, s1, n, l)
    BY <1>1 DEF RtcH!Now
<1>3. PICK k \in Int : k = u.seen /\ n =< k
    BY <1>2, UpToDateH
<1>4. RtcH!UpdatedTo(m, s, n, k).memory = m /\ RtcH!UpdatedTo(m, s, n, k).sub = s
    BY <1>3, UpToDateH
<1> QED
    BY <1>1, <1>2, <1>3, <1>4 DEF RtcHInv, RtcH!ClockAndEventKeepTime, RtcH!Now

LEMMA NextRtcHInv ==
    RtcHInv /\ [MCNext]_<<part, ramVars, rtc3Vars, rtcHVars, eepromVars, vars>> => RtcHInv'
<1> SUFFICES ASSUME RtcHInv, RtcH!NextHuC3 \/ UNCHANGED rtcHVars PROVE RtcHInv'
    BY DEF MCNext
<1>1. CASE UNCHANGED rtcHVars
    BY <1>1 DEF rtcHVars, RtcHInv, RtcH!ClockAndEventKeepTime, RtcH!Now
<1>2. ASSUME NEW t \in 0 .. MaxSeconds, RtcH!HostClock(t) PROVE RtcHInv'
    BY <1>2, HostClockKeeps
<1>3. PICK m \in Memories, s \in 0 .. SecondsInMinute - 1 :
        /\ m = RtcH!Now.memory /\ s = RtcH!Now.sub /\ m.window = memory.window
        /\ ideal = RtcH!Ideal(m, s)
  <2>1. PICK n \in Int, l \in Int, s1 \in 0 .. SecondsInMinute - 1, m1 \in Memories :
          n = time /\ l = seen /\ s1 = sub /\ m1 = memory
      BY DEF RtcHInv
  <2>2. PICK u : u = RtcH!Now /\ u = RtcH!UpdatedTo(m1, s1, n, l)
      BY <2>1 DEF RtcH!Now
  <2>3. u.memory \in Memories /\ u.sub \in 0 .. SecondsInMinute - 1 /\ u.memory.window = m1.window
      BY <2>2, UpToDateH
  <2> QED
      BY <2>1, <2>2, <2>3 DEF RtcHInv, RtcH!ClockAndEventKeepTime
<1>4. ASSUME RtcH!TickHuC3 PROVE RtcHInv'
    BY <1>3, <1>4, CommandKeeps DEF RtcH!TickHuC3
<1>5. ASSUME RtcH!ReadNibble PROVE RtcHInv'
    BY <1>3, <1>5, CommandKeeps DEF RtcH!ReadNibble
<1>6. ASSUME NEW v \in Arguments, RtcH!WriteNibble(v) PROVE RtcHInv'
  <2>1. PICK w \in Nat : w = v
      BY RtcHAssumption DEF RtcH!RtcHParameters
  <2>2. PICK m2 \in Memories : m2 = RtcH!Poked(m, access, w)
      BY PokedIsMemory
  <2> QED
      BY <1>3, <1>6, <2>1, <2>2, CommandKeeps DEF RtcH!WriteNibble
<1>7. ASSUME NEW low \in BOOLEAN, NEW v \in Arguments, RtcH!SetAccess(low, v) PROVE RtcHInv'
    BY <1>3, <1>7, CommandKeeps DEF RtcH!SetAccess
<1>8. ASSUME RtcH!FetchTime PROVE RtcHInv'
  <2>1. PICK m2 \in Memories : /\ m2 = RtcH!TimeFetched(m)
                               /\ m2.current = m.current /\ m2.event = m.event
    <3>1. PICK c \in Times : c = m.current
        BY DEF Memories, RtcH!Parts
    <3>2. RtcH!TimeFetched(m) = [m EXCEPT !.window = c]
        BY <3>1 DEF RtcH!TimeFetched
    <3> QED
        BY <3>2 DEF Memories, RtcH!Parts
  <2>2. RtcH!Ideal(m2, s) = RtcH!Ideal(m, s)
      BY <2>1 DEF RtcH!Ideal
  <2> QED
      BY <1>3, <1>8, <2>1, <2>2, CommandKeeps DEF RtcH!FetchTime
<1>9. ASSUME RtcH!SetTime PROVE RtcHInv'
  <2>1. PICK m2 \in Memories : m2 = RtcH!TimeSet(m)
      BY TimeIsSet
  <2>2. 0 \in 0 .. SecondsInMinute - 1
      BY UnitsH
  <2>3. memory' = m2 /\ sub' = 0 /\ seen' = RtcH!Now.seen /\ time' = time
      BY <1>3, <1>9, <2>1 DEF RtcH!SetTime
  <2>4. ideal' = RtcH!Ideal(m2, 0)
    <3>1. PICK C \in Nat, E \in Nat : C = RtcH!Absolute(m.current) /\ E = RtcH!Absolute(m.event)
        BY IdealOfMemory DEF RtcH!Parts
    <3>2. CASE E < C
        BY <1>3, <1>9, <2>3, <3>1, <3>2 DEF RtcH!SetTime
    <3>3. CASE E >= C
      <4>1. ideal' = [ideal EXCEPT !.now = RtcH!Absolute(m.window) % RtcH!Period, !.second = 0]
          BY <1>3, <1>9, <3>1, <3>3 DEF RtcH!SetTime
      <4>2. ideal = [now |-> C % RtcH!Period, second |-> s, left |-> (E - C) % RtcH!Period]
          BY <1>3, <3>1 DEF RtcH!Ideal
      <4>3. ideal' = [now |-> RtcH!Absolute(m.window) % RtcH!Period, second |-> 0,
                      left |-> (E - C) % RtcH!Period]
          BY <4>1, <4>2
      <4> QED
          BY <2>1, <3>1, <3>3, <4>3, TimeIsSet
    <3> QED
        BY <3>1, <3>2, <3>3
  <2> QED
      BY <2>2, <2>3, <2>4, CommandKeeps
<1> QED
    BY <1>1, <1>2, <1>4, <1>5, <1>6, <1>7, <1>8, <1>9 DEF RtcH!NextHuC3

(* The clocks of the MBC3 and the HuC3 (update_rtc of mbc3.rs and huc3.rs)  *)
(* count at once, whenever a program looks, what a clock driven every second *)
(* counts: for every length of the units, however long nobody looked, with  *)
(* a host time that is set back, halts and writes in between.               *)
THEOREM ClocksNeverDrift == MCSpec => []ClocksKeepTime
<1>1. MCInit => Rtc3Inv /\ RtcHInv
    BY InitRtc3Inv, InitRtcHInv
<1>2. Rtc3Inv /\ RtcHInv /\ [MCNext]_<<part, ramVars, rtc3Vars, rtcHVars, eepromVars, vars>>
        => (Rtc3Inv /\ RtcHInv)'
    BY NextRtc3Inv, NextRtcHInv
<1>3. Rtc3Inv /\ RtcHInv => ClocksKeepTime
    BY DEF Rtc3Inv, RtcHInv, ClocksKeepTime
<1> QED
    BY <1>1, <1>2, <1>3, PTL DEF MCSpec
=============================================================================
