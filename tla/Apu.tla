-------------------------------- MODULE Apu --------------------------------
(***************************************************************************)
(* The sound unit: channels with a length, an envelope and (channel 1) a    *)
(* frequency sweep, wave RAM, the noise register, the frame sequencer and the *)
(* queue of frames.  Channels share only the sequencer, so a behavior plays   *)
(* one of them, or none and listens to the queue, of which frames are         *)
(* numbers.  Levels, routing and the filters are left out; the mix trace's    *)
(* deadline is a multiple of the sample's and never cuts a chunk of its own.  *)
(***************************************************************************)
EXTENDS Integers, Sequences, FiniteSetsExt

CONSTANTS
  Channels,         \* the channels looked at: 1, 2 squares, 3 wave, 4 noise
  LowPitches,       \* pitches told apart by the low register
  HighPitches,      \* pitches told apart by the high bits of the control register
  SweepWrites,      \* values of FF10: [period, negate, shift]
  EnvelopeWrites,   \* values of FF12: [volume, up, period]
  MaxVolume,        \* loudest envelope
  BootPace,         \* pace of the envelopes the boot ROM leaves
  ZeroPace,         \* clocks a pace of zero stands for
  MaxLength,        \* longest note, in length clocks
  Phases,           \* positions of a square's waveform
  Nibbles,          \* positions of the wave, two to a byte of wave RAM
  WaveBytes,        \* what a byte of wave RAM may be
  NoiseBits,        \* width of the noise register
  NarrowBits,       \* its width in narrow mode
  NoiseWrites,      \* values of FF22: [divisor, shift, narrow]
  BootNoise,        \* the one the boot ROM leaves
  FrozenShift,      \* shifts from here on stop the noise
  NoiseWord,        \* divisors are kept below this
  MinNoisePeriod,   \* shortest noise period
  Capacities,       \* sizes of the queue, the largest at first
  MaxFrames,        \* bounds the frames a behavior generates
  SampleCycles,     \* cycles of a stereo frame
  SequencerCycles,  \* cycles of a frame sequencer step
  Oversample,       \* longest chunk
  TickSizes         \* cycles the machine passes at once

PowerOfTwo ==
  LET power[n \in 0 .. 15] == IF n = 0 THEN 1 ELSE 2 * power[n - 1]
  IN [n \in 0 .. 15 |-> power[n]]

MaxPitch == (HighPitches * LowPitches) - 1
Lengths == 0 .. MaxLength
NoiseOnes == PowerOfTwo[NoiseBits] - 1

Sweeps == [period : Nat, negate : BOOLEAN, shift : 0 .. 15]
Envelopes == [volume : 0 .. MaxVolume, up : BOOLEAN, period : Nat]
Noises == [divisor : Nat, shift : 0 .. 15, narrow : BOOLEAN]

(* What the registers hold, and the sizes the hardware has. *)
ApuParameters ==
  /\ Channels \subseteq 1 .. 4
  /\ {LowPitches, HighPitches, ZeroPace, MaxLength, Phases, NoiseWord, MinNoisePeriod,
      SampleCycles, SequencerCycles, Oversample} \subseteq Nat \ {0}
  /\ {MaxVolume, BootPace, MaxFrames} \subseteq Nat
  /\ Nibbles \in Nat /\ \E n \in 1 .. Nibbles : Nibbles = 2 * n
  /\ 0 \in WaveBytes
  /\ NoiseBits \in 3 .. 15 /\ NarrowBits \in 2 .. NoiseBits - 1
  /\ SweepWrites \subseteq Sweeps /\ EnvelopeWrites \subseteq Envelopes
  /\ NoiseWrites \subseteq Noises /\ BootNoise \in Noises
  /\ Capacities \subseteq Nat /\ \E m \in Capacities \ {0} : \A n \in Capacities : n =< m
  /\ TickSizes \subseteq Nat

VARIABLES
  apu,      \* on, channels, sweep, sequencer, wave and queue, as in Apu
  dmg,      \* not a colour machine
  subject,  \* the channel this behavior plays, 0 to listen
  fits      \* history: the sweep's settings are those it was last checked with

vars == <<apu, dmg, subject, fits>>

Silent == [enabled |-> FALSE, bit |-> FALSE, dac |-> FALSE, length |-> 0, volume |-> 0,
           period |-> 0, up |-> FALSE, counter |-> 0, timer |-> 0, phase |-> 0,
           held |-> 0, lfsr |-> NoiseOnes,
           stale |-> TRUE, switched |-> FALSE]  \* history: see SampleIsCurrent, NoiseSounds

NoSweep == [shadow |-> 0, counter |-> 0, used |-> FALSE, period |-> 0, negate |-> FALSE, shift |-> 0]
(* Registers the units read again later, as zeros. *)
ClearRegs == [pitch |-> [c \in Channels |-> 0], lengthOn |-> [c \in Channels |-> FALSE],
              noise |-> [divisor |-> MinNoisePeriod, shift |-> 0, narrow |-> FALSE],
              env |-> [c \in Channels |-> [volume |-> 0, up |-> FALSE, period |-> 0]]]

(* Everything a power-off clears. *)
Cleared(a) == [a EXCEPT !.chan = [c \in Channels |-> Silent], !.sweep = NoSweep, !.regs = ClearRegs,
                        !.cycles = 0, !.step = 0, !.sample = 0, !.pcm.queue = <<>>,
                        !.pcm.cleared = @ + Len(a.pcm.queue)]

(* The registers the boot ROM leaves: its note was high and fading. *)
BootRegs ==
  [pitch |-> [c \in Channels |-> CASE c = 1 -> MaxPitch
                                  [] c = 2 -> MaxPitch - (LowPitches \div 4)
                                  [] c = 3 -> MaxPitch - (LowPitches \div 4)
                                  [] c = 4 -> 0],
   lengthOn |-> [c \in Channels |-> c # 1],
   noise |-> BootNoise,
   env |-> [c \in Channels |-> CASE c = 1 -> [volume |-> MaxVolume, up |-> FALSE, period |-> BootPace]
                                [] c = 2 -> [volume |-> MaxVolume, up |-> TRUE, period |-> BootPace]
                                [] c = 3 -> [volume |-> 0, up |-> FALSE, period |-> 0]
                                [] c = 4 -> [volume |-> MaxVolume, up |-> TRUE, period |-> BootPace]]]

(* After the boot ROM a DMG machine's first channel is on. *)
PostBoot(old) ==
  LET a == Cleared(old)
  IN [a EXCEPT !.on = TRUE, !.regs = BootRegs,
               !.chan = [c \in Channels |->
                           IF c = 1 /\ dmg THEN [Silent EXCEPT !.enabled = TRUE, !.bit = TRUE, !.dac = TRUE]
                           ELSE Silent]]

EmptyQueue == [queue |-> <<>>, capacity |-> Max(Capacities), generated |-> 0, dropped |-> 0,
               taken |-> 0, cleared |-> 0]
SilentWave == [b \in 0 .. (Nibbles \div 2) - 1 |-> 0]

Init ==
  /\ dmg \in BOOLEAN /\ subject \in Channels \union {0}
  /\ apu = PostBoot([on |-> TRUE, chan |-> [c \in Channels |-> Silent], sweep |-> NoSweep,
                     regs |-> ClearRegs, cycles |-> 0, step |-> 0, sample |-> 0,
                     wave |-> SilentWave, pcm |-> EmptyQueue])
  /\ fits = FALSE

---------------------------------------------------------------------------
\* The clock

Reload(p) == IF p = 0 THEN ZeroPace ELSE p
(* A cycle here is the time a pitch of one takes. *)
Period(a, c) ==
  LET n == a.regs.noise
  IN IF c = 4 THEN Max({MinNoisePeriod, (n.divisor * PowerOfTwo[n.shift]) % NoiseWord})
     ELSE MaxPitch + 1 - a.regs.pitch[c]

OffUnseen(ch) == [ch EXCEPT !.enabled = FALSE]

(* Every path that stops a channel clears its bit of FF26. *)
Off(ch) == [ch EXCEPT !.enabled = FALSE, !.bit = FALSE]

(* The noise register, shifted: the two lowest bits, unlike, go in at the top *)
(* and, in narrow mode, also further down.                                   *)
Shifted(lfsr, narrow) ==
  LET in == (lfsr + (lfsr \div 2)) % 2
      wide == (lfsr \div 2) + (in * PowerOfTwo[NoiseBits - 1])
      bit == PowerOfTwo[NarrowBits - 1]
  IN IF narrow THEN wide + ((in - ((wide \div bit) % 2)) * bit) ELSE wide

ShiftedBy(lfsr, narrow, n) ==
  LET after[k \in Nat] == IF k = 0 THEN lfsr ELSE Shifted(after[k - 1], narrow)
  IN after[n]

(* The frequency deadlines a channel meets in a chunk, and what they do: the *)
(* wave reads the byte it has come to, the noise shifts.  Noise with a high   *)
(* shift stands still.                                                       *)
Advanced(a, c, chunk) ==
  LET ch == a.chan[c]
      period == Period(a, c)
      timer == IF ch.timer = 0 THEN period ELSE ch.timer
      late == chunk - timer
      met == 1 + (late \div period)
      on == [ch EXCEPT !.timer = period - (late % period)]
      place == (ch.phase + met) % Nibbles
  IN IF ~ ch.enabled \/ (c = 4 /\ a.regs.noise.shift >= FrozenShift) THEN ch
     ELSE IF late < 0 THEN [ch EXCEPT !.timer = timer - chunk]
     ELSE CASE c \in {1, 2} -> [on EXCEPT !.phase = (@ + met) % Phases]
            [] c = 3 -> [on EXCEPT !.phase = place, !.held = a.wave[place \div 2], !.stale = FALSE]
            [] c = 4 -> [on EXCEPT !.lfsr = ShiftedBy(@, a.regs.noise.narrow, met)]

(* A length clock: a note whose length is on and has run out ends. *)
LengthClocked(a) ==
  [a EXCEPT !.chan = [c \in Channels |->
     LET ch == a.chan[c]
     IN IF ~ ch.enabled \/ ~ a.regs.lengthOn[c] \/ ch.length = 0 THEN ch
        ELSE IF ch.length = 1 THEN Off([ch EXCEPT !.length = 0])
        ELSE [ch EXCEPT !.length = @ - 1]]]

(* An envelope clock moves the volume one step, within its ends. *)
EnvelopeClocked(ch) ==
  LET left == IF ch.counter = 0 THEN 0 ELSE ch.counter - 1
  IN IF ~ ch.enabled \/ ~ ch.dac \/ ch.period = 0 THEN ch
     ELSE IF left > 0 THEN [ch EXCEPT !.counter = left]
     ELSE [ch EXCEPT !.counter = ch.period,
                     !.volume = IF ch.up THEN (IF @ < MaxVolume THEN @ + 1 ELSE @)
                                ELSE (IF @ > 0 THEN @ - 1 ELSE @)]

Swept(pitch, negate, shift) ==
  LET delta == pitch \div PowerOfTwo[shift] IN IF negate THEN pitch - delta ELSE pitch + delta
TooHigh(pitch) == pitch > MaxPitch

SecondTooHigh(next, s) == TooHigh(Swept(next, s.negate, s.shift))

(* A sweep clock: the new pitch is taken, and the one after it checked. *)
SweepClocked(a) ==
  LET s == a.sweep
      left == IF s.counter = 0 THEN 0 ELSE s.counter - 1
      reloaded == [s EXCEPT !.counter = Reload(s.period)]
      next == Swept(s.shadow, s.negate, s.shift)
      used == [reloaded EXCEPT !.used = @ \/ s.negate]
      off == [a.chan EXCEPT ![1] = Off(@)]
  IN IF ~ a.chan[1].enabled \/ ~ a.chan[1].dac \/ (s.period = 0 /\ s.shift = 0) THEN a
     ELSE IF left > 0 THEN [a EXCEPT !.sweep.counter = left]
     ELSE IF s.period = 0 THEN [a EXCEPT !.sweep = reloaded]
     ELSE IF TooHigh(next) THEN [a EXCEPT !.sweep = used, !.chan = off]
     ELSE IF s.shift = 0 THEN [a EXCEPT !.sweep = used]
     ELSE [a EXCEPT !.sweep = [used EXCEPT !.shadow = next], !.regs.pitch[1] = next,
                    !.chan = IF SecondTooHigh(next, s) THEN off ELSE @]

(* A step of the frame sequencer, moved on before its units are clocked. *)
SequencerStep(a) ==
  LET step == (a.step + 1) % 8
      b == [a EXCEPT !.step = step, !.cycles = 0]
      l == IF step % 2 = 0 THEN LengthClocked(b) ELSE b
      s == IF step \in {2, 6} /\ 1 \in Channels THEN SweepClocked(l) ELSE l
  IN IF step = 7 THEN [s EXCEPT !.chan = [c \in Channels |->
                                  IF c = 3 THEN @[c] ELSE EnvelopeClocked(@[c])]]
     ELSE s

(* The longest chunk that passes no deadline. *)
NextChunk(a, remaining) ==
  Min({remaining, SampleCycles - a.sample, SequencerCycles - a.cycles, Oversample})

(* enqueue_pcm_frame: a full queue loses its oldest frames, and counts them. *)
Enqueued(a) ==
  LET q == a.pcm
      lost == Max({0, Len(q.queue) + 1 - q.capacity})
  IN IF subject # 0 THEN a
     ELSE [a EXCEPT !.pcm = [q EXCEPT !.queue = SubSeq(Append(@, q.generated + 1), lost + 1, Len(@) + 1),
                                      !.dropped = @ + lost, !.generated = @ + 1]]

(* Channels first, then the frame, then the sequencer. *)
Processed(a, chunk) ==
  LET b == [a EXCEPT !.chan = [c \in Channels |-> Advanced(a, c, chunk)],
                     !.cycles = @ + chunk, !.sample = @ + chunk]
      f == IF b.sample >= SampleCycles THEN Enqueued([b EXCEPT !.sample = 0]) ELSE b
  IN IF f.cycles >= SequencerCycles THEN SequencerStep(f) ELSE f

(* tick and tick_fast: chunk after chunk. *)
Passed(r) ==
  LET chunk == NextChunk(r.apu, r.left)
  IN IF r.left = 0 THEN r ELSE [apu |-> Processed(r.apu, chunk), left |-> r.left - chunk]

Ticked(a, cycles) ==
  LET after[k \in Nat] == IF k = 0 THEN [apu |-> a, left |-> cycles] ELSE Passed(after[k - 1])
  IN IF a.on THEN after[cycles].apu ELSE a

Tick(cycles) ==
  /\ apu.pcm.generated < MaxFrames
  /\ apu' = Ticked(apu, cycles)
  /\ UNCHANGED <<dmg, subject, fits>>

---------------------------------------------------------------------------
\* The registers

(* A divider at rest is loaded from the new pitch; a running one goes on. *)
Synced(a, c) == [a EXCEPT !.chan[c].timer = IF @ = 0 THEN Period(a, c) ELSE @]

(* FF10: a sweep that was used to go down and may no longer ends the note. *)
WriteSweep(v) ==
  LET s == apu.sweep
      ends == s.negate /\ ~ v.negate /\ s.used /\ apu.chan[1].enabled
      a == [apu EXCEPT !.sweep = [@ EXCEPT !.period = v.period, !.negate = v.negate, !.shift = v.shift]]
  IN /\ apu.on
     /\ apu' = IF ends THEN [a EXCEPT !.chan[1] = Off(@)] ELSE a
     /\ fits' = FALSE
     /\ UNCHANGED <<dmg, subject>>

(* FF11, FF16, FF1B, FF20.  A DMG machine takes a length with the power off. *)
WriteLength(c, n) ==
  /\ apu.on \/ dmg
  /\ n \in 1 .. MaxLength
  /\ apu' = [apu EXCEPT !.chan[c].length = n]
  /\ UNCHANGED <<dmg, subject, fits>>

(* A DAC that goes off takes its channel with it. *)
WithDac(ch, on) == IF on THEN [ch EXCEPT !.dac = TRUE] ELSE Off([ch EXCEPT !.dac = FALSE])

(* FF12, FF17, FF21: settings, one step of a paceless envelope, and the DAC. *)
WriteEnvelope(c, v) ==
  LET ch == apu.chan[c]
      stepped == ch.enabled /\ ch.period = 0 /\ ch.up /\ v.up /\ v.period = 0
      set == [ch EXCEPT !.volume = IF stepped THEN (@ + 1) % (MaxVolume + 1) ELSE v.volume,
                        !.up = v.up, !.period = v.period, !.counter = Reload(v.period)]
  IN /\ apu.on /\ c # 3
     /\ apu' = [apu EXCEPT !.regs.env[c] = v, !.chan[c] = WithDac(set, v.volume > 0 \/ v.up)]
     /\ UNCHANGED <<dmg, subject, fits>>

(* FF1A. *)
WriteWaveDac(on) ==
  /\ apu.on
  /\ apu' = [apu EXCEPT !.chan[3] = WithDac(@, on)]
  /\ UNCHANGED <<dmg, subject, fits>>

(* FF13, FF18, FF1D. *)
WritePitch(c, low) ==
  LET high == apu.regs.pitch[c] \div LowPitches
      a == [apu EXCEPT !.regs.pitch[c] = (high * LowPitches) + low]
  IN /\ apu.on /\ c # 4
     /\ apu' = Synced(a, c)
     /\ UNCHANGED <<dmg, subject, fits>>

(* The first pitch of a sweep is checked as the note starts. *)
SweepStarted(a) ==
  LET s == a.sweep
      pitch == a.regs.pitch[1]
      b == [a EXCEPT !.sweep = [s EXCEPT !.shadow = pitch, !.counter = Reload(s.period),
                                         !.used = s.shift # 0 /\ s.negate]]
  IN IF s.shift # 0 /\ TooHigh(Swept(pitch, s.negate, s.shift))
     THEN [b EXCEPT !.chan[1] = Off(@)] ELSE b

(* The volume a note starts with. *)
EnvelopeStarted(ch, env) ==
  [ch EXCEPT !.volume = env.volume, !.up = env.up, !.period = env.period, !.counter = Reload(env.period)]

LengthStarted(n) == IF n = 0 THEN MaxLength ELSE n

(* A note starts only with its DAC on. *)
Triggered(a, c) ==
  LET ch == a.chan[c]
      on == [ch EXCEPT !.enabled = TRUE, !.bit = TRUE, !.length = LengthStarted(@),
                       !.timer = Period(a, c), !.phase = IF c = 3 THEN 0 ELSE @,
                       !.lfsr = NoiseOnes, !.stale = TRUE, !.switched = FALSE]
      b == [a EXCEPT !.chan[c] = IF c = 3 THEN on ELSE EnvelopeStarted(on, a.regs.env[c])]
  IN IF ~ ch.dac THEN [a EXCEPT !.chan[c] = Off(@)]
     ELSE IF c = 1 THEN SweepStarted(b) ELSE b

(* FF14, FF19, FF1E, FF23. *)
WriteControl(c, high, lengthOn, trigger) ==
  LET low == apu.regs.pitch[c] % LowPitches
      set == [apu EXCEPT !.regs.pitch[c] = (high * LowPitches) + low, !.regs.lengthOn[c] = lengthOn]
      a == IF c = 4 THEN set ELSE Synced(set, c)
  IN /\ apu.on
     /\ apu' = IF trigger THEN Triggered(a, c) ELSE a
     /\ fits' = (fits \/ (trigger /\ c = 1))
     /\ UNCHANGED <<dmg, subject>>

(* FF22. *)
WriteNoise(v) ==
  LET a == [apu EXCEPT !.regs.noise = v,
                       !.chan[4].switched = @ \/ v.narrow # apu.regs.noise.narrow]
  IN /\ apu.on
     /\ apu' = Synced(a, 4)
     /\ UNCHANGED <<dmg, subject, fits>>

(* FF30-FF3F: while the wave plays, a DMG machine refuses, and any other one *)
(* goes to the byte being played, whatever the address.                       *)
Playing == apu.chan[3].enabled /\ apu.chan[3].dac /\ apu.chan[3].bit
PlayedByte == apu.chan[3].phase \div 2
Visible(b) == IF ~ dmg /\ Playing THEN PlayedByte ELSE b
ReadWave(b) == IF dmg /\ Playing THEN 255 ELSE apu.wave[Visible(b)]

WriteWave(b, v) ==
  /\ ~ (dmg /\ Playing)
  /\ apu' = [apu EXCEPT !.wave[Visible(b)] = v,
                        !.chan[3].stale = @ \/ (Visible(b) = PlayedByte /\ v # apu.wave[PlayedByte])]
  /\ UNCHANGED <<dmg, subject, fits>>

(* The host takes frames, or changes the size of the queue; what a smaller   *)
(* one has no room for is lost and not counted.                              *)
Drain(n) ==
  LET taken == Min({n, Len(apu.pcm.queue)})
  IN /\ apu' = [apu EXCEPT !.pcm.queue = SubSeq(@, taken + 1, Len(@)), !.pcm.taken = @ + taken]
     /\ UNCHANGED <<dmg, subject, fits>>
Resize(n) ==
  LET lost == Max({0, Len(apu.pcm.queue) - n})
  IN /\ n # 0
     /\ apu' = [apu EXCEPT !.pcm.capacity = n, !.pcm.cleared = @ + lost,
                           !.pcm.queue = SubSeq(@, lost + 1, Len(@))]
     /\ UNCHANGED <<dmg, subject, fits>>

(* FF26 with the power bit changed. *)
Power ==
  /\ apu' = IF apu.on THEN [Cleared(apu) EXCEPT !.on = FALSE] ELSE [apu EXCEPT !.on = TRUE]
  /\ fits' = (fits /\ ~ apu.on)
  /\ UNCHANGED <<dmg, subject>>

Next ==
  \/ \E n \in TickSizes : Tick(n)
  \/ subject = 1 /\ \E v \in SweepWrites : WriteSweep(v)
  \/ \E c \in {subject} \ {0} :
       \/ \E n \in Lengths : WriteLength(c, n)
       \/ \E v \in EnvelopeWrites : WriteEnvelope(c, v)
       \/ \E low \in 0 .. LowPitches - 1 : WritePitch(c, low)
       \/ \E high \in 0 .. HighPitches - 1, l, t \in BOOLEAN : WriteControl(c, high, l, t)
  \/ subject = 3 /\ \E on \in BOOLEAN : WriteWaveDac(on)
  \/ subject = 3 /\ \E b \in DOMAIN apu.wave, v \in WaveBytes : WriteWave(b, v)
  \/ subject = 4 /\ \E v \in NoiseWrites : WriteNoise(v)
  \/ subject = 0 /\ \E n \in 1 .. MaxFrames : Drain(n)
  \/ subject = 0 /\ \E n \in Capacities : Resize(n)
  \/ Power

Spec == Init /\ [][Next]_vars

---------------------------------------------------------------------------
\* Properties

(* A channel has three switches: its own, its bit in FF26 and its DAC.      *)
(* Every path that stops it (length, sweep, DAC, power) moves them together: *)
(* the bit the program reads is the channel's, and no channel plays on a DAC *)
(* that is off.                                                             *)
SwitchesAgree ==
  \A c \in Channels : LET ch == apu.chan[c] IN
    ch.bit = ch.enabled /\ (ch.enabled => ch.dac /\ apu.on)

(* A sweep never reaches a pitch that does not fit its registers: while its  *)
(* settings are those of its last check, a playing channel 1's next pitch    *)
(* fits.                                                                    *)
SweepFits ==
  1 \in Channels /\ apu.chan[1].enabled /\ fits /\ apu.sweep.shift # 0
    => ~ TooHigh(Swept(apu.sweep.shadow, apu.sweep.negate, apu.sweep.shift))

(* The byte the wave plays is the one it has come to, unless the note has    *)
(* just begun (it begins with the last note's byte) or the byte was changed   *)
(* since; so what a colour machine reads from any address of a playing wave   *)
(* is what is heard.                                                         *)
SampleIsCurrent ==
  3 \in Channels /\ ~ apu.chan[3].stale
    => /\ apu.chan[3].held = apu.wave[PlayedByte]
       /\ ~ dmg /\ Playing => \A b \in DOMAIN apu.wave : ReadWave(b) = apu.chan[3].held

(* The noise register never runs empty, which would be silence for good,     *)
(* unless its width was changed since the note began.                        *)
NoiseSounds == 4 \in Channels /\ ~ apu.chan[4].switched => apu.chan[4].lfsr # 0

(* The queue holds the newest frames, in order and never more than it may;   *)
(* every frame generated is there, was taken by the host, is counted as       *)
(* dropped, or went with the power or a smaller queue.                        *)
QueueIsNewest ==
  LET q == apu.pcm
  IN /\ Len(q.queue) =< q.capacity
     /\ \A i \in DOMAIN q.queue : q.queue[i] = q.generated - Len(q.queue) + i
     /\ q.generated = Len(q.queue) + q.taken + q.dropped + q.cleared

(* The machine passes time to the sound unit in pieces that depend on        *)
(* whether it is observed: two pieces leave what one leaves.  A first piece   *)
(* of one cycle is enough, as a longer one begins with it.                    *)
PiecesAgree ==
  \A n \in 1 .. SequencerCycles : Ticked(Ticked(apu, 1), n) = Ticked(apu, n + 1)

=============================================================================
