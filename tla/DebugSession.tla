---------------------------- MODULE DebugSession ----------------------------
(***************************************************************************)
(* A debugging session over one machine (kokura-debug session.rs, stop.rs):*)
(* runs of frames and single steps, stops with their watch baselines, and  *)
(* replay checkpoints to rewind to.  The machine is deterministic: its     *)
(* state is how far it is (frame, at) and the keys it has seen, one per    *)
(* frame begun.  Hashes are taken to tell states apart.                    *)
(***************************************************************************)
EXTENDS Integers, Sequences, SequencesExt

CONSTANTS
  FrameSteps,     \* steps of a frame
  Keys,           \* what the host may press during a frame
  Bytes(_, _),    \* bytes of a watched window in a state of the machine
  Events(_),      \* of "mmio", "interrupt", "dma": what the step into a state did
  StopSets,       \* stop conditions the host sets: [breaks, watches, events]
  Controls,       \* replay controls: [enabled, interval, max, auto, stop]
  RunLengths,     \* frames of a run
  MaxFrame, MaxGeneration, MaxSettings   \* bounds of the exploration

ASSUME DebugSessionAssumption ==
  /\ FrameSteps \in Nat \ {0} /\ MaxFrame \in Nat /\ RunLengths \subseteq Nat
  /\ \A c \in Controls :
       /\ c.enabled \in BOOLEAN /\ c.interval \in Nat /\ c.max \in Nat /\ c.auto \in Nat
       /\ c.enabled => c.interval > 0 /\ c.max > 0
  /\ \A s \in StopSets : Len(s.watches) \in Nat /\ DOMAIN s.watches = 1 .. Len(s.watches)

VARIABLES
  machine,      \* [frame, at, seen]
  stops, baselines,   \* stop conditions, and the bytes of their watchpoints
  stop,         \* last_stop_reason: [kind, index]
  control,      \* replay_control
  checkpoints,  \* [index, generation, state]
  digests,      \* set of [frame, state, generation]: the first capture of a frame
  generation, lastKey,
  loop,         \* the run in progress: [left, from], left = 0 if there is none
  mixed,        \* history: abandoned futures may be among the checkpoints
  settings      \* how often the host has changed its settings

vars == <<machine, stops, baselines, stop, control, checkpoints, digests, generation, lastKey,
          loop, mixed, settings>>
replay == <<control, checkpoints, digests, generation, lastKey, mixed>>

NoStop == [kind |-> "none", index |-> 0]
NoKey == <<>>
Start == [frame |-> 0, at |-> 0, seen |-> <<>>]
KeyOf(m) == <<m.frame, m.at>>
Idle == loop.left = 0

(* refresh_stop_watchpoint_baselines *)
Sampled(m, windows) == [i \in DOMAIN windows |-> Bytes(m, windows[i])]

Init ==
  /\ machine = Start /\ stops \in StopSets
  /\ baselines = Sampled(Start, stops.watches) /\ stop = NoStop
  /\ control \in Controls /\ checkpoints = <<>> /\ digests = {}
  /\ generation = 0 /\ lastKey = NoKey
  /\ loop = [left |-> 0, from |-> 0] /\ mixed = FALSE /\ settings = 0

-----------------------------------------------------------------------------
(* Step and its stops *)

Stepped(m, key) ==
  LET seen == IF m.at = 0 THEN Append(m.seen, key) ELSE m.seen
  IN IF m.at + 1 = FrameSteps THEN [frame |-> m.frame + 1, at |-> 0, seen |-> seen]
     ELSE [m EXCEPT !.at = @ + 1, !.seen = seen]

Changed(m) == {i \in DOMAIN baselines : baselines[i] # Bytes(m, stops.watches[i])}

(* Mutant of BaselinesAfter. *)
BaselinesOfTheMatchKept(m) ==
  [i \in DOMAIN baselines |->
     IF \A j \in Changed(m) : i < j THEN Bytes(m, stops.watches[i]) ELSE baselines[i]]

(* check_watchpoints_after_step returns at the first change. *)
BaselinesAfter(m) ==
  [i \in DOMAIN baselines |->
     IF \A j \in Changed(m) : i =< j THEN Bytes(m, stops.watches[i]) ELSE baselines[i]]

EventOrder == <<"mmio", "interrupt", "dma">>

(* The first stop of a step: watchpoints, MMIO, interrupts, DMA. *)
StopAfter(m) ==
  LET matched == {k \in DOMAIN EventOrder : EventOrder[k] \in stops.events \cap Events(m)}
  IN IF Changed(m) # {} THEN [kind |-> "watchpoint", index |-> Min(Changed(m))]
     ELSE IF matched # {} THEN [kind |-> EventOrder[Min(matched)], index |-> 0]
     ELSE stop

(* run_debug_step: breakpoints stop before the instruction. *)
DebugStep(key) ==
  IF machine.at \in stops.breaks
  THEN stop' = [kind |-> "breakpoint", index |-> 0] /\ UNCHANGED <<machine, baselines>>
  ELSE LET m == Stepped(machine, key)
       IN machine' = m /\ baselines' = BaselinesAfter(m) /\ stop' = StopAfter(m)

SingleStep(key) ==
  /\ Idle /\ machine.frame < MaxFrame
  /\ DebugStep(key)
  /\ mixed' = (mixed \/ (control.enabled /\ machine'.frame # machine.frame))
  /\ UNCHANGED <<stops, control, checkpoints, digests, generation, lastKey, loop, settings>>

-----------------------------------------------------------------------------
(* Rewind *)

(* Mutant of Newest. *)
Oldest(cs, target) ==
  LET reaching == {i \in DOMAIN cs : cs[i].state.frame =< target}
      frames == {cs[i].state.frame : i \in reaching}
  IN IF reaching = {} THEN 0 ELSE Min({i \in reaching : cs[i].state.frame = Max(frames)})

(* The newest capture at or before the target, 0 if there is none. *)
Newest(cs, target) ==
  LET reaching == {i \in DOMAIN cs : cs[i].state.frame =< target}
  IN IF reaching = {} THEN 0 ELSE Max(reaching)

RewindTo(cs, back) ==
  IF ~ control.enabled \/ back = 0 THEN 0
  ELSE Newest(cs, IF back > machine.frame THEN 0 ELSE machine.frame - back)

(* rewind_frames: the checkpoints, the last key and the stop are kept. *)
Rewound(cs, i) ==
  IF i = 0 THEN UNCHANGED <<machine, baselines, generation>>
  ELSE /\ machine' = cs[i].state
       /\ baselines' = Sampled(cs[i].state, stops.watches)
       /\ generation' = generation + 1

RewindFrames(back) ==
  /\ Idle /\ generation < MaxGeneration
  /\ Rewound(checkpoints, RewindTo(checkpoints, back))
  /\ UNCHANGED <<stops, stop, control, checkpoints, digests, lastKey, loop, mixed, settings>>

-----------------------------------------------------------------------------
(* Runs and checkpoints *)

RunFrames(n) ==
  /\ Idle /\ machine.frame + n =< MaxFrame /\ generation < MaxGeneration
  /\ stop' = NoStop /\ baselines' = Sampled(machine, stops.watches)
  /\ loop' = [left |-> n, from |-> machine.frame]
  /\ UNCHANGED <<machine, stops, replay, settings>>

(* run_single_frame's loop is over. *)
FrameOver == machine.frame # loop.from \/ stop # NoStop

StepInRun(key) ==
  /\ ~ Idle /\ ~ FrameOver
  /\ DebugStep(key)
  /\ UNCHANGED <<stops, replay, loop, settings>>

Due == control.enabled /\ (stop # NoStop \/ machine.frame % control.interval = 0)

Captures == Due /\ lastKey # KeyOf(machine)

Evicted(cs) == IF Len(cs) > control.max THEN SubSeq(cs, Len(cs) - control.max + 1, Len(cs)) ELSE cs

Captured ==
  Evicted(Append(checkpoints,
    [index |-> IF checkpoints = <<>> THEN 0 ELSE Last(checkpoints).index + 1,
     generation |-> generation, state |-> machine]))

(* The frame's first digest is another generation's and another state's. *)
Diverges == \E d \in digests :
  d.frame = machine.frame /\ d.generation # generation /\ d.state # machine

DigestsAfter ==
  IF \E d \in digests : d.frame = machine.frame THEN digests
  ELSE digests \cup {[frame |-> machine.frame, state |-> machine, generation |-> generation]}

StopAtFrameEnd ==
  IF Captures /\ Diverges /\ control.stop /\ stop = NoStop
  THEN [kind |-> "replay_divergence", index |-> 0] ELSE stop

(* The end of a turn of the loop: maybe_record_replay_checkpoint, then the *)
(* automatic rewind of a stop, then the loop's exit.                       *)
EndFrame ==
  LET cs == IF Captures THEN Captured ELSE checkpoints
      stopped == StopAtFrameEnd # NoStop
      back == IF stopped THEN control.auto ELSE 0
      i == RewindTo(cs, back)
  IN
  /\ ~ Idle /\ FrameOver
  /\ checkpoints' = cs
  /\ digests' = IF Captures THEN DigestsAfter ELSE digests
  /\ lastKey' = IF Captures THEN KeyOf(machine) ELSE lastKey
  /\ stop' = StopAtFrameEnd
  /\ Rewound(cs, i)
  /\ loop' = IF stopped THEN [loop EXCEPT !.left = 0]
             ELSE [left |-> loop.left - 1, from |-> machine.frame]
  /\ mixed' = \/ mixed
               \/ (Captures /\ stop # NoStop)
               \/ (Due /\ ~ Captures /\ (cs = <<>> \/ Last(cs).state # machine))
  /\ UNCHANGED <<stops, control, settings>>

-----------------------------------------------------------------------------
(* The host between runs *)

Set == Idle /\ settings < MaxSettings /\ settings' = settings + 1

SetReplayControl(c) ==
  /\ Set
  /\ control' = c /\ lastKey' = NoKey
  /\ mixed' = (mixed \/ c.enabled # control.enabled \/ c.interval # control.interval)
  /\ UNCHANGED <<machine, stops, baselines, stop, checkpoints, digests, generation, loop>>

SetStopConditions(s) ==
  /\ Set
  /\ stops' = s /\ baselines' = Sampled(machine, s.watches) /\ stop' = NoStop
  /\ UNCHANGED <<machine, replay, loop>>

(* load_state of a file saved at the start. *)
LoadState ==
  /\ Idle
  /\ machine' = Start /\ baselines' = Sampled(Start, stops.watches) /\ stop' = NoStop
  /\ checkpoints' = <<>> /\ digests' = {} /\ generation' = 0 /\ lastKey' = NoKey
  /\ mixed' = FALSE
  /\ UNCHANGED <<stops, control, loop, settings>>

Host ==
  \/ \E c \in Controls : SetReplayControl(c)
  \/ \E s \in StopSets : SetStopConditions(s)
  \/ LoadState
  \/ \E n \in RunLengths : RunFrames(n)
  \/ \E back \in 1 .. MaxFrame : RewindFrames(back)
  \/ \E key \in Keys : SingleStep(key)

Next == Host \/ EndFrame \/ \E key \in Keys : StepInRun(key)

Spec == Init /\ [][Next]_vars

-----------------------------------------------------------------------------
(* No change of a watched window is overlooked: a baseline is out of date  *)
(* only behind a stop, a breakpoint or a watchpoint listed before it       *)
(* (session.rs:6012), across steps, rewinds, loads and new conditions.     *)
StaleOnlyBehindStop ==
  \A i \in Changed(machine) :
    \/ stop.kind = "watchpoint" /\ stop.index < i
    \/ stop.kind = "breakpoint"

(* While every due frame has been captured at its end, a rewind goes to a  *)
(* state the machine has itself come through, at or before the frame asked *)
(* for, although futures given up by earlier rewinds stay among the        *)
(* checkpoints (session.rs:2286).                                          *)
RewindsToItsPast ==
  [][generation' > generation /\ ~ mixed' =>
       IsPrefix(machine'.seen, machine.seen) /\ machine'.frame =< machine.frame]_vars

(* Checkpoints are numbered without a gap, and go forward in time except   *)
(* from one generation to the next, whatever is evicted (session.rs:5865). *)
CheckpointsGoForward ==
  \A i \in 1 .. Len(checkpoints) - 1 :
    LET c == checkpoints[i]
        d == checkpoints[i + 1]
    IN /\ d.index = c.index + 1 /\ c.generation =< d.generation
       /\ c.generation = d.generation => IsPrefix(c.state.seen, d.state.seen)

(* Checkpoints are numbered without a gap and in order, and while every    *)
(* due frame was captured a rewind goes to the machine's own past.         *)
CheckpointsServe == []CheckpointsGoForward /\ RewindsToItsPast

(* "capture machine state and hashes unless the same frame/cycle was just  *)
(* captured": what was just captured is the state there is to capture.     *)
SkippedOnlyIfJustCaptured ==
  [][~ Idle /\ FrameOver /\ Due =>
       \E i \in DOMAIN checkpoints' : checkpoints'[i].state = machine]_vars
=============================================================================
