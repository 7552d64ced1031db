--------------------------- MODULE SessionEvents ---------------------------
(***************************************************************************)
(* What a debugging session makes of the traces of its steps: the event    *)
(* log, which only grows, the counters of a run, which a run or a load      *)
(* starts over, bank switches and suspected far calls, changes of the       *)
(* picture, and the reports read off the log.  Stops, checkpoints and       *)
(* rewinds as such are in DebugSession; an event is its kind and a flag.    *)
(***************************************************************************)
EXTENDS Integers, FiniteSets, Sequences, SequencesExt

CONSTANTS
  Programs,   \* what the program does in a behaviour: a subset of its steps
  Happenings, \* the events devices report
  Banks,      \* selectable ROM banks
  Grace,      \* frames a far call may take (120)
  ThrashAt,   \* reversals in a row that are suspicious (4)
  PcWindow,   \* addresses remembered (64)
  MaxCheckpoints, \* checkpoints kept, as the replay controls ask
  MaxSteps    \* bounds a behaviour

VARIABLES
  program,
  frames, bank, vram, picture, pc, iflag, \* the machine
  calls,       \* the thunks the program is in, innermost last
  steps,       \* bounds the behaviour
  log,         \* event_log
  counts,      \* the counters
  baseline,    \* hashes compared with: of the frame begun, last_frame_hash, last_iflag
  changed,     \* screen_changed, vram_changed
  thrash,      \* previous_bank_switch, bank_thrash_streak, bank_thrash_score
  pending,     \* pending_bank_returns
  bank_restored,
  pcs,         \* recent_pcs and the best count so far
  checkpoints, \* what slices need of replay_checkpoints
  samples,     \* executed_instruction_samples
  since        \* history of the run: log at its start, banks and pictures seen, addresses

vars == <<program, frames, bank, vram, picture, pc, iflag, calls, steps, log, counts, baseline,
          changed, thrash, pending, bank_restored, pcs, checkpoints, samples, since>>

-----------------------------------------------------------------------------
(* Kinds of events, by the trace they come in *)

PpuKinds == {"ScanlineAdvance", "StatSignal", "VblankEnter", "ScanlineRender", "PpuModeChange",
             "FrameComplete"}
DmaKinds == {"OamDmaStart", "OamDmaComplete", "GdmaStallEstimate", "HdmaStart", "HdmaBlock",
             "HdmaComplete", "HdmaCancel", "HdmaDeferred", "HdmaWriteIgnored"}
RegisterKinds == {"LcdToggle", "StatWrite", "LycWrite"}
MapperKinds == {"MapperControlWrite", "MapperRomBankChange", "MapperRamBankChange"}
ApuKinds ==
  {"ApuMasterToggle", "ApuChannelTrigger", "ApuChannelLengthExpired", "ApuEnvelopeStep",
   "ApuSweepStep", "ApuChannelDisabled", "ApuDacStateChange", "ApuPopRisk",
   "ApuFrameSequencerStep", "ApuMixerControl", "ApuMixedOutput"}
PcmKinds ==
  {"ApuPcmFramesBuffered", "ApuPcmBufferWrapped", "ApuWaveRamWrite", "ApuWaveRamAccessAliased",
   "ApuCh3TriggerRetainsSample", "ApuNoiseClockFrozen"}
CgbKinds ==
  {"CgbModeSelected", "CgbVramBankSwitch", "CgbWramBankSwitch", "CgbBgPaletteIndexWrite",
   "CgbBgPaletteDataWrite", "CgbObjPaletteIndexWrite", "CgbObjPaletteDataWrite", "CgbKey1Write",
   "CgbSpeedSwitch", "CgbSpeedSwitchFreeze"}
IoKinds ==
  {"DivResetEdge", "TimerControlWrite", "TimerOverflow", "TimerReload", "SerialTransferStart",
   "SerialTransferComplete", "JoypadEdge", "JoypadRead", "JoypadSelectionWrite",
   "JoypadInterrupt"}
InterruptKinds == {"InterruptRequested", "InterruptServiced", "InterruptPendingBlocked"}
IntrinsicKinds == {"WaitVBlank", "Present", "FlushRows"}
TraceKinds == PpuKinds \union DmaKinds \union RegisterKinds \union MapperKinds \union ApuKinds
              \union PcmKinds \union CgbKinds \union IoKinds \union InterruptKinds
              \union IntrinsicKinds

(* Kinds no counter is kept of. *)
Uncounted == {"PpuModeChange", "FrameComplete", "CgbBgPaletteIndexWrite",
              "CgbObjPaletteIndexWrite", "SerialTransferComplete", "JoypadInterrupt",
              "InterruptRequested", "BankThrashSuspected", "BankReturnMissing",
              "ReplayCheckpointSaved", "ReplayRewindApplied"}

(* The counters an event moves: that of its kind, and those of its flag,    *)
(* which stands for a block in HBlank, a blocked write, a flushing helper.  *)
CountersOf(e) ==
  ({e.kind} \ Uncounted)
  \union (IF e.flag /\ e.kind = "HdmaBlock" THEN {"hdma_stall"} ELSE {})
  \union (IF e.flag /\ e.kind \in {"CgbBgPaletteDataWrite", "CgbObjPaletteDataWrite"}
          THEN {"palette_blocked"} ELSE {})
  \union (IF e.kind \in IntrinsicKinds THEN {"intrinsic"} ELSE {})
  \union (IF e.kind \in {"Present", "FlushRows"} THEN {"settile_flush"} ELSE {})

(* Counters that outlive a run: those of the mapper, of sound and of colour *)
(* mode, without the palettes the compiler's helpers write.                 *)
Kept == MapperKinds \union ApuKinds \union PcmKinds \union (CgbKinds \ {"CgbSpeedSwitchFreeze"})
        \union {"palette_blocked"}
KeptByLoad == Kept \union {"CgbSpeedSwitchFreeze"}

Counters == UNION {CountersOf(e) : e \in Happenings}
            \union {"BankSwitch", "FarCallSuspected", "TimerInterrupt", "settile_flush", "intrinsic"}

Counted(c, events) ==
  [k \in Counters |-> c[k] + Cardinality({i \in DOMAIN events : k \in CountersOf(events[i])})]
StartedOver(c, kept) == [k \in Counters |-> IF k \in kept THEN c[k] ELSE 0]

Event(kind) == [kind |-> kind, flag |-> FALSE, from |-> bank, to |-> bank]
Switched(kind, to) == [kind |-> kind, flag |-> FALSE, from |-> bank, to |-> to]

-----------------------------------------------------------------------------
(* Bank switches *)

(* update_bank_thrash: reversals in a row, those of the compiler's thunks    *)
(* apart.                                                                    *)
ThrashAfter(to, thunk) ==
  LET reversed == thrash.last = <<to, bank>>
      streak == IF reversed THEN thrash.streak + 1 ELSE 0
  IN IF thunk THEN [thrash EXCEPT !.last = <<>>, !.streak = 0]
     ELSE [last |-> <<bank, to>>, streak |-> streak,
           score |-> Max({thrash.score, streak})]

(* Mutant of PendingAfter. *)
PendingPopsOutermost(to, target) ==
  IF target = bank
  THEN IF pending # <<>> /\ Head(pending).expected = to THEN Tail(pending) ELSE pending
  ELSE IF target = to
  THEN Append(pending, [expected |-> bank, started |-> frames, reported |-> FALSE])
  ELSE pending

(* The far calls pending after a switch in a thunk for bank target: a return *)
(* takes off the innermost if it leads where that one expects.               *)
PendingAfter(to, target) ==
  IF target = bank
  THEN IF pending # <<>> /\ Last(pending).expected = to THEN Front(pending) ELSE pending
  ELSE IF target = to
  THEN Append(pending, [expected |-> bank, started |-> frames, reported |-> FALSE])
  ELSE pending

BankEvents(to, target, after) ==
  <<Switched("BankSwitch", to)>>
  \o (IF after.streak = ThrashAt /\ target \notin {bank, to} THEN <<Event("BankThrashSuspected")>> ELSE <<>>)
  \o (IF target = to THEN <<Switched("FarCallSuspected", to)>> ELSE <<>>)

-----------------------------------------------------------------------------
(* Steps *)

NoCounts == [k \in Counters |-> 0]

(* 0 is no bank a thunk could be for. *)
EventParameters ==
  /\ 1 \in Banks /\ Banks \subseteq Nat \ {0}
  /\ Happenings \subseteq [kind : TraceKinds, flag : BOOLEAN, from : Nat, to : Nat]
  /\ {ThrashAt, PcWindow} \subseteq Nat \ {0} /\ {Grace, MaxCheckpoints} \subseteq Nat

(* What a run starts over, beside the counters. *)
Fresh ==
  /\ changed' = [screen |-> FALSE, vram |-> FALSE]
  /\ thrash' = [last |-> <<>>, streak |-> 0, score |-> 0]
  /\ pending' = <<>> /\ bank_restored' = TRUE
  /\ pcs' = [recent |-> <<>>, best |-> 0] /\ samples' = 0

Init ==
  /\ program \in Programs
  /\ frames = 0 /\ bank = 1 /\ vram = 0 /\ picture = 0 /\ pc = 0 /\ iflag = FALSE
  /\ calls = <<>> /\ steps = 0 /\ log = <<>> /\ counts = NoCounts
  /\ baseline = [frame |-> -1, picture |-> 0, vram |-> 0, last |-> -1, timer |-> FALSE]
  /\ changed = [screen |-> FALSE, vram |-> FALSE]
  /\ thrash = [last |-> <<>>, streak |-> 0, score |-> 0]
  /\ pending = <<>> /\ bank_restored = TRUE
  /\ pcs = [recent |-> <<>>, best |-> 0] /\ checkpoints = <<>> /\ samples = 0
  /\ since = [log |-> 0, switches |-> <<>>, shown |-> <<0>>, held |-> <<0>>, pcs |-> <<>>,
              calls |-> 0, loaded |-> FALSE, moved |-> FALSE]

(* prepare_frame_tracking_if_needed: once for a frame's number. *)
Prepared ==
  IF baseline.frame = frames THEN baseline
  ELSE [baseline EXCEPT !.frame = frames, !.vram = vram,
                        !.picture = IF baseline.last = -1 THEN picture ELSE baseline.last]

(* record_pc: the most frequent of the addresses remembered. *)
Recorded(at) ==
  LET kept == IF Len(pcs.recent) = PcWindow THEN Tail(pcs.recent) ELSE pcs.recent
      recent == Append(kept, at)
      hits == Cardinality({i \in DOMAIN recent : recent[i] = at})
  IN [recent |-> recent, best |-> Max({pcs.best, hits})]

Machine == <<frames, bank, vram, picture, pc, iflag, calls>>

(* run_debug_step.  The machine's own part names the new value of what it    *)
(* changes, the traces and the thunk it is in.                               *)
Step(m, trace, target) ==
  LET base == Prepared
      raised == m.iflag /\ ~ baseline.timer
      after == ThrashAfter(m.bank, target \in {bank, m.bank})
      events == trace \o (IF raised THEN <<Event("TimerInterrupt")>> ELSE <<>>)
                \o (IF m.bank = bank THEN <<>> ELSE BankEvents(m.bank, target, after))
      ended == m.frames # frames
  IN /\ steps < MaxSteps /\ steps' = steps + 1
     /\ frames' = m.frames /\ bank' = m.bank /\ vram' = m.vram /\ picture' = m.picture
     /\ pc' = m.pc /\ iflag' = m.iflag /\ calls' = m.calls
     /\ pcs' = Recorded(pc) /\ samples' = samples + 1
     /\ log' = log \o events /\ counts' = Counted(counts, events)
     /\ thrash' = IF m.bank = bank THEN thrash ELSE after
     /\ pending' = IF m.bank = bank THEN pending ELSE PendingAfter(m.bank, target)
     /\ changed' = IF ended THEN [screen |-> changed.screen \/ base.picture # m.picture,
                                  vram |-> changed.vram \/ base.vram # m.vram]
                   ELSE changed
     /\ baseline' = IF ended THEN [frame |-> m.frames, picture |-> m.picture, vram |-> m.vram,
                                   last |-> m.picture, timer |-> m.iflag]
                    ELSE [base EXCEPT !.timer = m.iflag]
     /\ since' = [since EXCEPT
          !.switches = IF m.bank = bank THEN @ ELSE Append(@, [from |-> bank, to |-> m.bank, thunk |-> target \in {bank, m.bank}]),
          !.shown = IF ended THEN Append(@, m.picture) ELSE @,
          !.held = IF ended THEN Append(@, m.vram) ELSE @,
          !.pcs = Append(@, pc), !.calls = Min({@, Len(m.calls)})]
     /\ UNCHANGED <<program, bank_restored, checkpoints>>

Here == [frames |-> frames, bank |-> bank, vram |-> vram, picture |-> picture, pc |-> pc,
         iflag |-> iflag, calls |-> calls]

Device == "devices" \in program /\ \E e \in Happenings : e.kind \in TraceKinds /\ Step(Here, <<e>>, 0)
Request == "devices" \in program /\ Step([Here EXCEPT !.iflag = ~ iflag], <<>>, 0)
Draw == "pixels" \in program /\ \E v \in 0 .. 1 : \/ Step([Here EXCEPT !.vram = v], <<>>, 0)
                             \/ Step([Here EXCEPT !.picture = v], <<>>, 0)
EndFrame == Step([Here EXCEPT !.frames = frames + 1], <<>>, 0)
Jump == "loops" \in program /\ \E p \in 0 .. 2 : Step([Here EXCEPT !.pc = p], <<>>, 0)

(* A plain switch; a call through a thunk into another bank, and back. *)
Select == "plain" \in program /\ \E b \in Banks \ {bank} : Step([Here EXCEPT !.bank = b], <<>>, 0)

Call == "far" \in program /\ \E b \in Banks \ {bank} :
          Step([Here EXCEPT !.bank = b, !.calls = Append(@, [back |-> bank, at |-> frames])], <<>>, b)
Return == "far" \in program /\ calls # <<>>
          /\ Step([Here EXCEPT !.bank = Last(calls).back, !.calls = Front(@)], <<>>, bank)

(* The end of a run: a hash of the partial frame if there is none yet, and  *)
(* the first far call that is overdue, reported once.                        *)
EndRun ==
  LET overdue == {i \in DOMAIN pending : frames - pending[i].started > Grace}
      first == Min(overdue)
  IN /\ steps < MaxSteps /\ steps' = steps + 1
     /\ bank_restored' = (overdue = {})
     /\ IF overdue # {} /\ ~ pending[first].reported
        THEN /\ pending' = [pending EXCEPT ![first].reported = TRUE]
             /\ log' = Append(log, Event("BankReturnMissing"))
        ELSE UNCHANGED <<pending, log>>
     /\ baseline' = [baseline EXCEPT !.last = IF @ = -1 THEN picture ELSE @]
     /\ UNCHANGED <<program, Machine, counts, changed, thrash, pcs, checkpoints, samples, since>>

(* run_frames: a new run on the same session. *)
BeginRun ==
  /\ steps < MaxSteps /\ steps' = steps + 1
  /\ counts' = StartedOver(counts, Kept) /\ Fresh
  /\ baseline' = [baseline EXCEPT !.frame = -1, !.timer = iflag]
  /\ since' = [since EXCEPT
       !.log = Len(log), !.switches = <<>>, !.held = <<vram>>, !.pcs = <<>>,
       !.shown = <<IF baseline.last = -1 THEN picture ELSE baseline.last>>,
       !.calls = Len(calls), !.loaded = FALSE]
  /\ UNCHANGED <<program, Machine, log, checkpoints>>

(* load_state: a state of another time, here one with other contents.  The   *)
(* hashes of the frame begun stay behind: they are of before the load.       *)
Load ==
  /\ "load" \in program /\ steps < MaxSteps /\ steps' = steps + 1
  /\ \E v \in 0 .. 1 : vram' = v /\ picture' = v
  /\ frames' = 0 /\ bank' = 1 /\ iflag' = FALSE /\ calls' = <<>>
  /\ counts' = StartedOver(counts, KeptByLoad) /\ Fresh
  /\ baseline' = [frame |-> 0, picture |-> baseline.last, vram |-> baseline.vram, last |-> picture',
                  timer |-> FALSE]
  /\ checkpoints' = <<>>
  /\ since' = [log |-> Len(log), switches |-> <<>>, shown |-> <<picture'>>, held |-> <<vram'>>, pcs |-> <<>>,
               calls |-> 0, loaded |-> TRUE, moved |-> TRUE]
  /\ UNCHANGED <<program, pc, log>>

(* maybe_record_replay_checkpoint: the log's length without the event this   *)
(* adds; the oldest is dropped when there are too many.                      *)
Capture ==
  /\ "capture" \in program /\ steps < MaxSteps /\ steps' = steps + 1
  /\ LET saved == Append(checkpoints, [log |-> Len(log), samples |-> samples, run |-> since.log])
     IN checkpoints' = IF Len(saved) > MaxCheckpoints THEN Tail(saved) ELSE saved
  /\ log' = Append(log, Event("ReplayCheckpointSaved"))
  /\ UNCHANGED <<program, Machine, counts, baseline, changed, thrash, pending, bank_restored, pcs,
                 samples, since>>

Next == Device \/ Request \/ Draw \/ EndFrame \/ Jump \/ Select \/ Call \/ Return
        \/ EndRun \/ BeginRun \/ Load \/ Capture

Spec == Init /\ [][Next]_vars

-----------------------------------------------------------------------------
(* Reports *)

CategoryOf(e) ==
  IF e.kind \in DmaKinds THEN "dma"
  ELSE IF e.kind \in InterruptKinds \union {"TimerInterrupt", "JoypadInterrupt"} THEN "interrupt"
  ELSE IF e.kind \in PpuKinds \union RegisterKinds THEN "render"
  ELSE IF e.kind \in MapperKinds \union {"TimerControlWrite", "DivResetEdge", "JoypadSelectionWrite",
                  "ApuMasterToggle", "ApuChannelTrigger", "ApuMixerControl", "ApuWaveRamWrite"}
                  \union (CgbKinds \ {"CgbModeSelected", "CgbSpeedSwitch", "CgbSpeedSwitchFreeze"})
  THEN "mmio" ELSE "other"

(* build_replay_slices: what was logged from one checkpoint to the next, the *)
(* first from the beginning of the log.                                      *)
Slice(i) ==
  LET from == IF i = 1 THEN 0 ELSE checkpoints[i - 1].log
      before == IF i = 1 THEN 0 ELSE checkpoints[i - 1].samples
      events == SubSeq(log, from + 1, Min({checkpoints[i].log, Len(log)}))
  IN [events |-> Len(events),
      categories |-> [c \in {"dma", "interrupt", "render", "mmio", "other"} |->
                        Cardinality({j \in DOMAIN events : CategoryOf(events[j]) = c})],
      samples |-> Max({checkpoints[i].samples - before, 0})]

(* The switches into and out of a bank, as the profiler counts them. *)
In(b) == Cardinality({i \in DOMAIN log : log[i].kind = "BankSwitch" /\ log[i].to = b})
Out(b) == Cardinality({i \in DOMAIN log : log[i].kind = "BankSwitch" /\ log[i].from = b})

-----------------------------------------------------------------------------
(* A counter of a run is what the log holds of its events since the run     *)
(* began, or since the session began for those kept (session.rs:572).       *)
CountsFollowLog ==
  \A k \in Counters :
    LET from == IF k \in Kept THEN 1 ELSE since.log + 1
        n == Cardinality({i \in from .. Len(log) : k \in CountersOf(log[i])})
    IN k = "CgbSpeedSwitchFreeze" \/ counts[k] = n

(* The score is the longest row of switches that each undo the one before,  *)
(* with no thunk among them, of the run (session.rs:2020).                  *)
Undone(i) ==
  LET s == since.switches
  IN i > 1 /\ ~ s[i].thunk /\ ~ s[i - 1].thunk /\ s[i].from = s[i - 1].to /\ s[i].to = s[i - 1].from
ThrashIsLongestRow ==
  LET rows == {r \in (1 .. Len(since.switches)) \X (1 .. Len(since.switches)) :
                 r[1] =< r[2] /\ \A i \in r[1] .. r[2] : Undone(i)}
  IN thrash.score = Max({0} \union {r[2] - r[1] + 1 : r \in rows})

(* The far calls pending are the thunks the program has entered in this run *)
(* and not left, whatever it switches within them; so a bank is reported as *)
(* not returned only while a call is overdue (session.rs:936, 2057).  *)
PendingIsCallStack ==
  LET open == SubSeq(calls, since.calls + 1, Len(calls))
  IN "plain" \notin program =>
       /\ Len(pending) = Len(open)
       /\ \A i \in DOMAIN open : pending[i].expected = open[i].back /\ pending[i].started = open[i].at

(* The picture changed in a run when two frames shown one after the other   *)
(* differ, the last one before the run among them; video memory likewise    *)
(* from the start of the run.  A load leaves hashes of before it behind.    *)
ChangesAreSeen ==
  LET Differ(s) == \E i \in 2 .. Len(s) : s[i] # s[i - 1]
  IN ~ since.loaded => changed = [screen |-> Differ(since.shown), vram |-> Differ(since.held)]

(* The score of repetition is the most an address occurs among as many      *)
(* addresses in a row as are remembered (session.rs:2084).                  *)
RepetitionIsMostInWindow ==
  LET s == since.pcs
      Hits(i, p) == Cardinality({j \in i .. Min({i + PcWindow - 1, Len(s)}) : s[j] = p})
  IN pcs.best = Max({0} \union {Hits(i, p) : i \in DOMAIN s, p \in 0 .. 2})

(* The slices are all of the log up to the last checkpoint, and in one run  *)
(* their samples are its steps (session.rs:2671).                           *)
Total(f) ==
  LET upto[n \in 0 .. Len(checkpoints)] == IF n = 0 THEN 0 ELSE upto[n - 1] + f[n]
  IN upto[Len(checkpoints)]
SlicesAreTheLog ==
  checkpoints # <<>> =>
    LET end == Last(checkpoints).log
    IN /\ Total([i \in DOMAIN checkpoints |-> Slice(i).events]) = end
       /\ \A c \in {"dma", "interrupt", "render", "mmio"} :
            Total([i \in DOMAIN checkpoints |-> Slice(i).categories[c]])
              = Cardinality({j \in 1 .. end : CategoryOf(log[j]) = c})
       /\ (\A i \in DOMAIN checkpoints : checkpoints[i].run = checkpoints[1].run) =>
            Total([i \in DOMAIN checkpoints |-> Slice(i).samples]) = Last(checkpoints).samples

(* What goes into a bank comes out again, up to the bank selected at the    *)
(* start and now, as long as no load moved the bank (session.rs:2890).      *)
SwitchesBalance ==
  ~ since.moved => \A b \in Banks :
    In(b) - Out(b) = (IF bank = b THEN 1 ELSE 0) - (IF b = 1 THEN 1 ELSE 0)

EventsAreTold ==
  /\ CountsFollowLog /\ ThrashIsLongestRow /\ PendingIsCallStack /\ ChangesAreSeen
  /\ RepetitionIsMostInWindow /\ SlicesAreTheLog /\ SwitchesBalance
=============================================================================
