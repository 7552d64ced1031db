----------------------------- MODULE EepromMbc7 -----------------------------
(***************************************************************************)
(* The serial EEPROM and the accelerometer latch of an MBC7 cartridge.  The *)
(* game raises chip select and clocks bits in, one for every rising edge:   *)
(* a start bit, two bits of opcode, the address, and for a write the word.  *)
(* Scaled: an address has AddressBits bits (8 in the code) and a word       *)
(* WordBits (16); the code ignores the top bit of an address.               *)
(***************************************************************************)
EXTENDS Integers, Sequences
LOCAL INSTANCE SequencesExt

CONSTANTS AddressBits, WordBits,
          MaxSent  \* bound: bits the game clocks under one chip select

VARIABLES words,    \* eeprom
          writable, \* eeprom_write_enabled
          mode,     \* eeprom_command_mode
          shift,    \* eeprom_shift_register and eeprom_bits_collected
          address,  \* eeprom_pending_address
          output,   \* eeprom_output_word, the bits still to be shifted out
          pins,     \* eeprom_io: chip select, clock and data out
          gates,    \* the two enable latches of the mapper
          tilt,     \* accel_latched
          sent      \* history: the bits clocked in since chip select rose

vars == <<words, writable, mode, shift, address, output, pins, gates, tilt, sent>>
chip == <<words, writable, mode, shift, address, output, pins, sent>>

Bits == {0, 1}
CommandBits == 2 + AddressBits
\* an extended opcode is in the two top bits of the address
EepromParameters == AddressBits \in Nat \ {0, 1} /\ WordBits \in Nat \ {0}
Value(bits) == FoldLeft(LAMBDA n, b : 2 * n + b, 0, bits)
Addresses == 0 .. 2 ^ (AddressBits - 1) - 1
AllOnes == 2 ^ WordBits - 1
WordAsBits(w) == [i \in 1 .. WordBits |-> (w \div 2 ^ (WordBits - i)) % 2]

\* the parts of a command of CommandBits bits
Opcode(c) == 2 * c[1] + c[2]
Address(c) == Value(Tail(SubSeq(c, 3, CommandBits)))
Extended(c) == 2 * c[3] + c[4]

Idle == [words |-> words, writable |-> writable, mode |-> "Idle", shift |-> <<>>,
         address |-> address, output |-> output, out |-> 1]

(***************************************************************************)
(* One rising clock edge with data in at b: on_rising_clock.                *)
(***************************************************************************)

Same == [words |-> words, writable |-> writable, mode |-> mode, shift |-> shift,
         address |-> address, output |-> output, out |-> pins.out]

\* opcode 00: enable, disable, write all and erase all, by the next two bits.
\* Enabling and disabling leave the chip collecting: until chip select falls
\* the next command needs no start bit
ExtendedCommand(c) ==
    LET s == [Same EXCEPT !.shift = <<>>, !.out = 1] IN
    CASE Extended(c) = 0 -> [s EXCEPT !.writable = FALSE]
      [] Extended(c) = 1 -> [s EXCEPT !.mode = "WritingAll"]
      [] Extended(c) = 2 -> [s EXCEPT !.mode = "Idle",
                                      !.words = IF writable THEN [a \in Addresses |-> AllOnes]
                                                ELSE @]
      [] Extended(c) = 3 -> [s EXCEPT !.writable = TRUE]
\* decode_command
Command(c) ==
    LET s == [Same EXCEPT !.shift = <<>>,
                          !.address = IF Opcode(c) = 0 THEN @ ELSE Address(c)] IN
    CASE Opcode(c) = 2 -> [s EXCEPT !.mode = "ReadingWord",
                                    !.output = WordAsBits(words[Address(c)])]
      [] Opcode(c) = 1 -> [s EXCEPT !.mode = "WritingWord"]
      [] Opcode(c) = 3 -> [s EXCEPT !.mode = "Idle", !.out = 1,
                                    !.words = IF writable
                                              THEN [@ EXCEPT ![Address(c)] = AllOnes] ELSE @]
      [] Opcode(c) = 0 -> ExtendedCommand(c)

Collected(b) ==
    LET c == Append(shift, b) IN
    IF Len(c) = CommandBits THEN Command(c) ELSE [Same EXCEPT !.shift = c]
WordCollected(b, targets) ==
    LET w == Append(shift, b) IN
    IF Len(w) < WordBits THEN [Same EXCEPT !.shift = w]
    ELSE [Idle EXCEPT !.shift = w,
                      !.words = [a \in Addresses |->
                                    IF writable /\ a \in targets THEN Value(w) ELSE words[a]]]
BitShiftedOut ==
    IF output = <<>> THEN [Same EXCEPT !.out = 1]
    ELSE [Same EXCEPT !.out = Head(output), !.output = Tail(output)]

Clocked(b) ==
    CASE mode = "Idle" -> IF b = 1 THEN [Same EXCEPT !.mode = "CollectingCommand", !.shift = <<>>]
                          ELSE Same
      [] mode = "CollectingCommand" -> Collected(b)
      [] mode = "ReadingWord" -> BitShiftedOut
      [] mode = "WritingWord" -> WordCollected(b, {address})
      [] mode = "WritingAll"  -> WordCollected(b, Addresses)

(***************************************************************************)
(* The steps.                                                               *)
(***************************************************************************)

Init ==
    /\ words = [a \in Addresses |-> AllOnes]
    /\ writable = FALSE
    /\ mode = "Idle" /\ shift = <<>> /\ address = 0 /\ output = <<>>
    /\ pins = [select |-> FALSE, clock |-> FALSE, out |-> 1]
    /\ gates = <<FALSE, FALSE>>
    /\ tilt = FALSE
    /\ sent = <<>>

Open == gates = <<TRUE, TRUE>>

\* Mbc7::write: the two latches that open the window at A000
Gate(g, v) ==
    /\ gates' = [gates EXCEPT ![g] = v]
    /\ UNCHANGED <<chip, tilt>>

\* the accelerometer: 55 erases the latch, AA takes a sample once
Tilt(v) ==
    /\ Open
    /\ tilt' = v
    /\ UNCHANGED <<chip, gates>>

Take(r) ==
    /\ words' = r.words /\ writable' = r.writable /\ mode' = r.mode
    /\ shift' = r.shift /\ address' = r.address /\ output' = r.output

\* begin_transaction and end_transaction
Restarted == [Idle EXCEPT !.output = <<>>]
\* clock_eeprom: select rising, then the clock edge, then select falling; both
\* edges of select drop what was collected
ClockEeprom(select, clock, b) ==
    LET rises == select /\ ~pins.select
        falls == ~select /\ pins.select
        edge  == select /\ clock /\ ~pins.clock
    IN  /\ Open
        /\ edge => Len(sent) < MaxSent \/ rises
        /\ LET r == CASE rises /\ edge -> IF b = 1
                                          THEN [Restarted EXCEPT !.mode = "CollectingCommand"]
                                          ELSE Restarted
                      [] rises /\ ~edge -> Restarted
                      [] falls -> Restarted
                      [] edge /\ ~rises -> Clocked(b)
                      [] OTHER -> Same
           IN  /\ Take(r)
               /\ pins' = [select |-> select, clock |-> clock, out |-> r.out]
        /\ sent' = CASE rises /\ edge -> <<b>>
                     [] rises /\ ~edge -> <<>>
                     [] edge /\ ~rises -> Append(sent, b)
                     [] OTHER -> sent
        /\ UNCHANGED <<gates, tilt>>

Next ==
    \/ \E g \in 1 .. 2, v \in BOOLEAN : Gate(g, v)
    \/ \E v \in BOOLEAN : Tilt(v)
    \/ \E select, clock \in BOOLEAN, b \in Bits : ClockEeprom(select, clock, b)

Spec == Init /\ [][Next]_vars

(***************************************************************************)
(* Properties.                                                              *)
(***************************************************************************)

\* The reference: what the first command in a stream of bits does to the words,
\* read from the whole stream at once.
AfterStart(bits) ==
    LET starts == {i \in 1 .. Len(bits) : bits[i] = 1} IN
    IF starts = {} THEN <<>>
    ELSE SubSeq(bits, 1 + CHOOSE i \in starts : \A j \in starts : i <= j, Len(bits))
FirstCommandEnds(bits) ==
    LET c == AfterStart(bits)
        n == Len(c)
    IN  /\ n >= CommandBits
        /\ LET writesWord == Opcode(c) = 1 \/ (Opcode(c) = 0 /\ Extended(c) = 1)
           IN  n = CommandBits + (IF writesWord THEN WordBits ELSE 0)
Effect(bits) ==
    LET c == AfterStart(bits)
        w == Value(SubSeq(c, CommandBits + 1, Len(c)))
    IN  [a \in Addresses |->
            CASE Opcode(c) = 1 /\ a = Address(c)     -> w
              [] Opcode(c) = 3 /\ a = Address(c)     -> AllOnes
              [] Opcode(c) = 0 /\ Extended(c) = 1    -> w
              [] Opcode(c) = 0 /\ Extended(c) = 2    -> AllOnes
              [] OTHER -> words[a]]
EnabledAfter(bits) ==
    LET c == AfterStart(bits) IN
    IF Opcode(c) = 0 /\ Extended(c) \in {0, 3} THEN Extended(c) = 3 ELSE writable

\* The words change only when the last bit of a command arrives, while writing
\* is enabled, and the first command under a chip select does exactly what the
\* whole stream of its bits says, however the game moves the other pins.
FollowsCommands ==
    [][/\ sent' # sent /\ FirstCommandEnds(sent')
            => /\ words' = IF writable THEN Effect(sent') ELSE words
               /\ writable' = EnabledAfter(sent')
       /\ words' # words => writable /\ Len(sent') >= CommandBits + 1]_vars
=============================================================================
