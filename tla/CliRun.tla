------------------------------- MODULE CliRun -------------------------------
(***************************************************************************)
(* A job of the command line: stages or a sequence of inputs, a run under   *)
(* observation, the frames of a link job, or the comparison of a replay and *)
(* what follows a mismatch.  The machine is its debug steps, FrameSteps to  *)
(* a frame, each of which makes one sample of sound; a stop may cut a frame.*)
(***************************************************************************)
EXTENDS Integers, FiniteSets, Sequences

LOCAL INSTANCE SequencesExt
LOCAL INSTANCE FiniteSetsExt
LOCAL INSTANCE Functions

CONSTANTS
  Jobs,         \* the jobs, as normalised from arguments and job files
  FrameSteps,   \* debug steps of a frame
  WordsIn(_),   \* keywords that occur in the text of a filter
  MaxSteps      \* bounds a behaviour

VARIABLES
  job, phase,
  work,      \* stages or entries: [frames, triggers, save]
  entry, left,  \* the one executed, and its frames still to run
  machine,   \* [steps, frames, at]
  log, cursor,  \* event_log as [step, event], and what has been looked at
  stopped,   \* why the session has stopped: "no", "stop", "halt"
  queue,     \* sound not drained: numbers of steps
  media,     \* executed_frames, recorded_audio, captured_screenshots
  files,     \* path -> [steps, frames, at] of the state it holds
  saved,     \* paths this stage has saved
  rows,      \* the timeline: [basis, of, steps]
  named, mode,  \* named watch baselines (step of capture), and the one compared with
  reports,   \* of stages: [stopped, steps, path]
  programs,  \* input programs of a link job
  past       \* history: frames drained, paths matched, masks, cut frames, the rewind

vars == <<job, phase, work, entry, left, machine, log, cursor, stopped, queue, media, files,
          saved, rows, named, mode, reports, programs, past>>

NoPath == 0

-----------------------------------------------------------------------------
(* Conditions *)

(* event_matches: a filter matches an event if it contains one of the words *)
(* of its kind, or is one of its names.  Words are left out that contain    *)
(* another of the same kind.                                                *)
SoundWords ==
  [ApuMasterToggle |-> {"apu_master", "nr52"}, ApuChannelTrigger |-> {"apu_trigger", "channel_trigger"},
   ApuChannelLengthExpired |-> {"length"}, ApuEnvelopeStep |-> {"apu_env", "envelope"},
   ApuSweepStep |-> {"sweep"}, ApuChannelDisabled |-> {"apu_disable", "apu_off"},
   ApuDacStateChange |-> {"dac"}, ApuPopRisk |-> {"pop"},
   ApuFrameSequencerStep |-> {"apu_frame", "frame_seq"}, ApuMixerControl |-> {"apu_mix_ctrl", "mixer"},
   ApuMixedOutput |-> {"apu_mix", "mix_output"}, ApuPcmFramesBuffered |-> {"pcm", "audio_buffer"},
   ApuPcmBufferWrapped |-> {"apu_drop", "audio_drop", "pcm_drop"},
   ApuWaveRamWrite |-> {"wave_ram", "apu_wave"}, ApuWaveRamAccessAliased |-> {"wave_alias"},
   ApuCh3TriggerRetainsSample |-> {"ch3_hold", "sample_hold"},
   ApuNoiseClockFrozen |-> {"noise_lock", "noise_freeze"}]
OtherWords ==
  [ScanlineAdvance |-> {"scanline"}, PpuModeChange |-> {"mode"}, ScanlineRender |-> {"render"},
   StatSignal |-> {"stat", "coincidence"}, VblankEnter |-> {"vblank"}, FrameComplete |-> {"frame"},
   LcdToggle |-> {"lcd"}, StatWrite |-> {"stat_write", "statcfg"}, LycWrite |-> {"lyc"},
   OamDmaStart |-> {"oam_dma"}, OamDmaComplete |-> {"oam_dma"}, GdmaStallEstimate |-> {"dma_stall"},
   HdmaStart |-> {"hdma_start"}, HdmaBlock |-> {"dma_block"}, HdmaComplete |-> {"dma_complete"},
   HdmaCancel |-> {"dma_cancel"}, HdmaDeferred |-> {"dma_deferred"},
   HdmaWriteIgnored |-> {"hdma_write_ignored", "dma_ignored"},
   MapperControlWrite |-> {"mapper"}, MapperRomBankChange |-> {"mapper"}, MapperRamBankChange |-> {"mapper"},
   CgbModeSelected |-> {"cgb"}, CgbVramBankSwitch |-> {"cgb_vram_bank", "vbk", "cgb_bank"},
   CgbWramBankSwitch |-> {"cgb_wram_bank", "svbk", "cgb_bank"},
   CgbBgPaletteIndexWrite |-> {"bgpi", "cgb_palette"}, CgbBgPaletteDataWrite |-> {"bgpd", "cgb_palette"},
   CgbObjPaletteIndexWrite |-> {"obpi", "cgb_palette"}, CgbObjPaletteDataWrite |-> {"obpd", "cgb_palette"},
   CgbKey1Write |-> {"key1", "speed_arm", "cgb_speed"},
   CgbSpeedSwitch |-> {"speed_switch", "double_speed", "cgb_speed"},
   CgbSpeedSwitchFreeze |-> {"speed_freeze", "stop_freeze", "cgb_speed"},
   BankSwitch |-> {"bank"}, FarCallSuspected |-> {"farcall"}, BankReturnMissing |-> {"returnmissing"},
   BankThrashSuspected |-> {"thrash"}, TimerInterrupt |-> {"timer"}, TimerOverflow |-> {"overflow"},
   TimerReload |-> {"reload"}, TimerControlWrite |-> {"timer_ctrl", "tac"}, DivResetEdge |-> {"div_reset"},
   SerialTransferStart |-> {"serial"}, SerialTransferComplete |-> {"serial"},
   JoypadEdge |-> {"joypad", "input_edge"}, JoypadRead |-> {"joypad", "p1_read"},
   JoypadSelectionWrite |-> {"joypad_select", "p1_write"}, JoypadInterrupt |-> {"joypad_irq", "joypad_interrupt"},
   InterruptRequested |-> {"irq"}, InterruptServiced |-> {"irq_service", "interrupt_service"},
   InterruptPendingBlocked |-> {"irq_blocked", "interrupt_blocked"}, ExecutionStop |-> {"stop"},
   SymbolContextChange |-> {"symbol", "source"}, UnsupportedOpcode |-> {"unsupported", "opcode"},
   ReplayCheckpointSaved |-> {"replay", "checkpoint"}, ReplayRewindApplied |-> {"replay", "rewind"},
   ReplayDivergenceDetected |-> {"replay", "divergence"}]

(* The names an event has besides: flag stands for a block in HBlank, a      *)
(* display switched on.                                                      *)
NamesOf(e) ==
  CASE e.kind \in DOMAIN SoundWords -> {"apu"}
    [] e.kind \in {"OamDmaStart", "OamDmaComplete"} -> {"dma"}
    [] e.kind = "GdmaStallEstimate" -> {"gdma"}
    [] e.kind = "HdmaStart" -> {"hdma", "gdma"}
    [] e.kind \in {"HdmaBlock", "HdmaComplete"} -> {IF e.flag THEN "hdma" ELSE "gdma"}
    [] e.kind = "LcdToggle" -> {IF e.flag THEN "on" ELSE "off"}
    [] e.kind = "StatWrite" -> {"statw"}
    [] e.kind = "DivResetEdge" -> {"div"}
    [] OTHER -> {}

EventMatches(e, filter) ==
  \/ filter \in NamesOf(e)
  \/ WordsIn(filter) \intersect (IF e.kind \in DOMAIN SoundWords THEN SoundWords[e.kind]
                                 ELSE OtherWords[e.kind]) # {}

(* condition_matches: every term, of the machine m as it is and the events   *)
(* supplied.  A frame that ends is counted by those completed, any other     *)
(* moment by the frame being made; "place" stands for LY, PC, bank, symbol.  *)
Matches(condition, basis, m, events) ==
  \A i \in DOMAIN condition :
    LET term == condition[i] IN
      /\ term.on = "frame" => term.n = m.frames + (IF basis = "frame_end" THEN 0 ELSE 1)
      /\ term.on = "place" => term.n = m.at
      /\ term.on = "event" => \E j \in DOMAIN events : EventMatches(events[j].event, term.text)
      /\ term.on = "basis" => term.text = basis

-----------------------------------------------------------------------------
(* The machine and what is recorded of it *)

After(m) == [steps |-> m.steps + 1, at |-> (m.at + 1) % FrameSteps,
             frames |-> m.frames + (IF m.at + 1 = FrameSteps THEN 1 ELSE 0)]

InRange(n, range) == range # <<>> /\ range[1] =< n /\ n =< range[2]

(* A frame in the outputs: all queued sound is taken, and kept in range. *)
MediaAfter(sound) ==
  LET n == media.executed + 1
  IN IF ~ job.media THEN media
     ELSE [executed |-> n,
           audio |-> IF InRange(n, job.wav) THEN media.audio \o sound ELSE media.audio,
           shots |-> IF InRange(n, job.shots) THEN Append(media.shots, n) ELSE media.shots]

Written(fs, path, m) == [p \in DOMAIN fs \union {path} |-> IF p = path THEN m ELSE fs[p]]

Init ==
  /\ job \in Jobs /\ phase = job.kind /\ work = job.entries
  /\ entry = 1 /\ left = 0
  /\ machine = [steps |-> 0, frames |-> job.start, at |-> 0]
  /\ log = <<>> /\ cursor = 0 /\ stopped = "no" /\ queue = <<>>
  /\ media = [executed |-> 0, audio |-> <<>>, shots |-> <<>>]
  /\ files = <<>> /\ saved = <<>> /\ rows = <<>> /\ named = <<>> /\ mode = NoPath
  /\ reports = <<>>
  /\ programs = [i \in DOMAIN job.inputs |->
                   [at |-> 1, rest |-> IF job.inputs[i] = <<>> THEN 0 ELSE job.inputs[i][1].frames]]
  /\ past = [drained |-> <<>>, matched |-> <<>>, masks |-> <<>>, cuts |-> 0, early |-> 0]

(* What a step may report, and whether it ends the run: at a stop asked for, *)
(* which a breakpoint is before the step and a watch behind it, or at an      *)
(* opcode there is not, whose step is not finished.                          *)
Outcomes == {[events |-> es, stop |-> s] : es \in {<<>>} \union {<<e>> : e \in job.happenings},
                                           s \in IF job.stopping THEN {"no", "stop", "halt"} ELSE {"no"}}
Reached(o) == CASE o.stop = "no" -> {After(machine)}
                [] o.stop = "stop" -> {machine, After(machine)}
                [] o.stop = "halt" -> {machine}
Logged(o, step) == log \o [i \in DOMAIN o.events |-> [step |-> step, event |-> o.events[i]]]

-----------------------------------------------------------------------------
(* Stages and sequences *)

(* The next stage or entry: its stop conditions are set, and its frames are  *)
(* one run, or a run each if it has conditional snapshots.                   *)
Begin ==
  /\ phase = "stages" /\ work # <<>>
  /\ phase' = "frames" /\ left' = work[entry].frames
  /\ stopped' = "no" /\ saved' = <<>> /\ cursor' = Len(log)
  /\ UNCHANGED <<job, work, entry, machine, log, queue, media, files, rows, named, mode, reports,
                 programs, past>>

(* The snapshots a frame sets off.  A plain trigger names a frame of the     *)
(* stage, or an event.                                                       *)
Hit(trigger, frame, m, events) ==
  CASE trigger.kind = "frame" -> trigger.n = frame
    [] trigger.kind = "event" -> \E j \in DOMAIN events : EventMatches(events[j].event, trigger.text)
    [] OTHER -> Matches(trigger.condition, "frame_end", m, events)

(* Each path is saved once in a stage. *)
NewPaths(paths) ==
  FoldLeft(LAMBDA new, p : IF p \in Range(saved) \union Range(new) THEN new ELSE Append(new, p),
           <<>>, paths)

(* One frame of a run, up to its end or a stop, which may come before any     *)
(* step is made; the callback counts it either way.  A stop ends the run, but not a stage with snapshots, whose   *)
(* next frame is another run.                                                *)
Frame ==
  /\ phase = "frames" /\ left > 0 /\ machine.steps + FrameSteps =< MaxSteps
  /\ \E o \in Outcomes, n \in 0 .. (FrameSteps - machine.at) :
       LET whole == machine.at + n = FrameSteps
           m == [steps |-> machine.steps + n, at |-> (machine.at + n) % FrameSteps,
                 frames |-> machine.frames + (IF whole THEN 1 ELSE 0)]
           sound == queue \o [i \in 1 .. n |-> machine.steps + i]
           happened == Logged(o, m.steps)
           events == SubSeq(happened, cursor + 1, Len(happened))
           frame == work[entry].frames - left + 1
           hits == SelectSeq(work[entry].triggers, LAMBDA t : Hit(t, frame, m, events))
           paths == [i \in DOMAIN hits |-> hits[i].path]
           conditional == work[entry].triggers # <<>>
       IN /\ IF whole THEN o.stop # "halt" ELSE o.stop # "no"
          /\ machine' = m /\ log' = happened /\ stopped' = o.stop
          /\ queue' = <<>> /\ media' = MediaAfter(sound)
          /\ past' = [past EXCEPT
               !.drained = Append(@, sound),
               !.matched = @ \o [i \in DOMAIN paths |-> [entry |-> entry, path |-> paths[i], m |-> m]],
               !.cuts = @ + (IF whole THEN 0 ELSE 1)]
          /\ left' = IF o.stop = "no" \/ (conditional /\ o.stop = "stop") THEN left - 1 ELSE 0
          /\ cursor' = IF conditional THEN Len(happened) ELSE cursor
          /\ saved' = saved \o NewPaths(paths)
          /\ files' = FoldLeft(LAMBDA fs, p : Written(fs, p, m), files, NewPaths(paths))
  /\ UNCHANGED <<job, phase, work, entry, rows, named, mode, reports, programs>>

(* The end of a stage or entry: its state is saved under its own name, or    *)
(* over the last conditional snapshot, or under a generated name.            *)
SavePath ==
  IF job.kind = "compare" THEN NoPath
  ELSE IF work[entry].save # NoPath THEN work[entry].save
  ELSE IF saved # <<>> THEN Last(saved)
  ELSE IF job.autosave THEN 100 + entry ELSE NoPath

End ==
  /\ phase = "frames" /\ left = 0
  /\ files' = IF SavePath = NoPath THEN files ELSE Written(files, SavePath, machine)
  /\ reports' = Append(reports, [stopped |-> stopped, m |-> machine, path |-> SavePath])
  /\ entry' = entry + 1
  /\ phase' = IF stopped # "no" \/ entry = Len(work) THEN "done" ELSE "stages"
  /\ UNCHANGED <<job, work, left, machine, log, cursor, stopped, queue, media, saved, rows, named,
                 mode, programs, past>>

-----------------------------------------------------------------------------
(* A run under observation *)

MatchesOn(condition, bases, m, events) == \E b \in bases : Matches(condition, b, m, events)
HitsOf(requests, bases, m, events) ==
  SelectSeq([i \in DOMAIN requests |-> i],
            LAMBDA i : MatchesOn(requests[i].condition, bases, m, events))
RowsOf(basis, hits, m) == [i \in DOMAIN hits |-> [basis |-> basis, of |-> hits[i], step |-> m.steps]]

(* Watch baselines are captured again at every match, and the one asked for  *)
(* is compared with as soon as it exists.                                    *)
CapturedAt(ns, hits, m) ==
  FoldLeft(LAMBDA f, i : Written(f, job.baselines[i].path, m), ns, hits)
StatesAt(fs, hits, m) == FoldLeft(LAMBDA f, i : Written(f, job.snaps[i].path, m), fs, hits)
MatchedAt(hits, m) == [i \in DOMAIN hits |-> [entry |-> 1, path |-> job.snaps[hits[i]].path, m |-> m]]

(* One turn of run_observation_session: every request is held against the    *)
(* machine before the step, after it, and at the end of a frame; the run     *)
(* ends at a stop, where asked, or when its frames are done, which is looked *)
(* at after the step.                                                        *)
Observe ==
  /\ phase = "observe" /\ machine.steps < MaxSteps
  /\ LET Before(requests) == HitsOf(requests, {"frame_start"}, machine, <<>>)
         snapsBefore == Before(job.snaps)
         rowsBefore == RowsOf("snapshot@start", snapsBefore, machine)
                       \o RowsOf("trace@start", Before(job.traces), machine)
         namedBefore == CapturedAt(named, Before(job.baselines), machine)
         filesBefore == StatesAt(files, snapsBefore, machine)
         ModeOf(ns) == IF job.tag \in DOMAIN ns THEN job.tag ELSE mode
     IN IF \E i \in DOMAIN job.until : MatchesOn(job.until[i], {"frame_start"}, machine, <<>>)
        THEN /\ phase' = "done" /\ rows' = rows \o rowsBefore
             /\ named' = namedBefore /\ mode' = ModeOf(namedBefore) /\ files' = filesBefore
             /\ past' = [past EXCEPT !.matched = @ \o MatchedAt(snapsBefore, machine)]
             /\ UNCHANGED <<machine, log, cursor, stopped, queue, media>>
        ELSE \E o \in Outcomes : \E m \in Reached(o) :
          LET ended == m.frames # machine.frames
              happened == Logged(o, m.steps)
              events == SubSeq(happened, cursor + 1, Len(happened))
              atEnd == IF ended THEN {"frame_end"} ELSE {}
              Now(requests) == HitsOf(requests, {"step", "event"}, m, events)
              AtEnd(requests) == HitsOf(requests, atEnd, m, events)
              snapsNow == Now(job.snaps)
              snapsEnd == AtEnd(job.snaps)
              sound == IF m = machine THEN queue ELSE Append(queue, m.steps)
          IN /\ machine' = m /\ log' = happened /\ cursor' = Len(happened) /\ stopped' = o.stop
             /\ named' = CapturedAt(CapturedAt(namedBefore, Now(job.baselines), m),
                                    AtEnd(job.baselines), m)
             /\ mode' = ModeOf(named')
             /\ files' = StatesAt(StatesAt(filesBefore, snapsNow, m), snapsEnd, m)
             /\ rows' = rows \o rowsBefore
                  \o RowsOf("trace", Now(job.traces), m) \o RowsOf("snapshot", snapsNow, m)
                  \o RowsOf("trace@end", AtEnd(job.traces), m) \o RowsOf("snapshot@end", snapsEnd, m)
                  \o (IF ended THEN RowsOf("frame_end", <<0>>, m) ELSE <<>>)
                  \o (IF o.stop # "no" THEN RowsOf("stop", <<0>>, m) ELSE <<>>)
             /\ media' = IF ended THEN MediaAfter(sound) ELSE media
             /\ queue' = IF ended /\ job.media THEN <<>> ELSE sound
             /\ past' = [past EXCEPT
                  !.drained = IF ended /\ job.media THEN Append(@, sound) ELSE @,
                  !.matched = @ \o MatchedAt(snapsBefore, machine) \o MatchedAt(snapsNow, m)
                                \o MatchedAt(snapsEnd, m)]
             /\ phase' = IF \/ o.stop # "no"
                            \/ \E i \in DOMAIN job.until :
                                 MatchesOn(job.until[i], {"step", "event"} \union atEnd, m, events)
                            \/ m.frames >= job.start + job.frames
                         THEN "done" ELSE "observe"
  /\ UNCHANGED <<job, work, entry, left, saved, reports, programs>>

-----------------------------------------------------------------------------
(* The input programs of a link job *)

(* next_mask: an entry lasts its frames, at least one; then the fallback. *)
MaskOf(i) ==
  IF programs[i].at =< Len(job.inputs[i]) THEN job.inputs[i][programs[i].at].mask ELSE 0
Advanced(i) ==
  LET p == programs[i]
      rest == IF p.rest > 0 THEN p.rest - 1 ELSE 0
      next == p.at + 1
  IN IF p.at > Len(job.inputs[i]) THEN p
     ELSE IF rest > 0 THEN [p EXCEPT !.rest = rest]
     ELSE [at |-> next, rest |-> IF next =< Len(job.inputs[i]) THEN job.inputs[i][next].frames ELSE 0]

(* execute_loaded_link_job, one frame of every session at a time. *)
LinkFrame ==
  /\ phase = "link" /\ machine.frames < job.frames
  /\ past' = [past EXCEPT !.masks = Append(@, [i \in DOMAIN programs |-> MaskOf(i)])]
  /\ programs' = [i \in DOMAIN programs |-> Advanced(i)]
  /\ machine' = [machine EXCEPT !.frames = @ + 1]
  /\ stopped' \in (IF job.stopping THEN {"no", "stop"} ELSE {"no"})
  /\ phase' = IF stopped' = "stop" \/ machine'.frames = job.frames THEN "done" ELSE "link"
  /\ UNCHANGED <<job, work, entry, left, log, cursor, queue, media, files, saved, rows, named, mode,
                 reports>>

-----------------------------------------------------------------------------
(* The comparison of a replay, and what follows a mismatch *)

(* compare_replay_reports: the first position at which two reports differ in *)
(* what is compared; watch digests of zero are not.                          *)
CheckpointsDiffer(a, b) ==
  \/ a.frame # b.frame
  \/ ~ job.watchOnly /\ (a.digest # b.digest \/ a.hash # b.hash)
  \/ a.watch # 0 /\ b.watch # 0 /\ a.watch # b.watch

NoMismatch == [kind |-> "none", frame |-> -1, index |-> 0]
Mismatch(reference, actual) ==
  LET both == 1 .. Min({Len(reference.checkpoints), Len(actual.checkpoints)})
      differ == {i \in both : CheckpointsDiffer(reference.checkpoints[i], actual.checkpoints[i])}
      slices == 1 .. Min({Len(reference.slices), Len(actual.slices)})
      apart == {i \in slices : reference.slices[i].digest # actual.slices[i].digest}
  IN IF differ # {}
     THEN [kind |-> "checkpoint", frame |-> actual.checkpoints[Min(differ)].frame, index |-> Min(differ)]
     ELSE IF Len(reference.checkpoints) # Len(actual.checkpoints)
     THEN [kind |-> "checkpoint_count", frame |-> -1, index |-> 0]
     ELSE IF job.watchOnly \/ reference.slices = <<>> \/ actual.slices = <<>> THEN NoMismatch
     ELSE IF apart # {}
     THEN [kind |-> "slice", frame |-> actual.slices[Min(apart)].end, index |-> Min(apart)]
     ELSE IF Len(reference.slices) # Len(actual.slices)
     THEN [kind |-> "slice_count", frame |-> -1, index |-> Len(slices) + 1]
     ELSE NoMismatch

(* build_divergence_focus: from the beginning of the slice before the one    *)
(* that differs to the end of the one after it.                              *)
FirstOf(choices, default) ==
  LET there == SelectSeq(choices, LAMBDA c : c # -1) IN IF there = <<>> THEN default ELSE Head(there)
StartOf(slices, i) == IF i \in DOMAIN slices THEN slices[i].start ELSE -1
EndOf(slices, i) == IF i \in DOMAIN slices THEN slices[i].end ELSE -1
Window(reference, actual, mismatch) ==
  LET i == mismatch.index
      a == actual.slices
      r == reference.slices
  IN IF i = 0 THEN <<FirstOf(<<mismatch.frame>>, 0), FirstOf(<<mismatch.frame>>, 0)>>
     ELSE <<FirstOf(<<StartOf(a, i - 1), StartOf(r, i - 1), StartOf(a, i), StartOf(r, i)>>,
                    FirstOf(<<mismatch.frame>>, 0)),
            FirstOf(<<EndOf(a, i + 1), EndOf(r, i + 1), EndOf(a, i), EndOf(r, i)>>,
                    FirstOf(<<mismatch.frame>>, 0))>>

(* build_replay_mismatch_snapshot_plan: the frames of the window to save,    *)
(* counted from its beginning, and the events to save a state at.  The name  *)
(* of a state is the frame it is for.                                        *)
Planned(window, mismatch) ==
  {1, window[2] - window[1] + 1}
  \union (IF mismatch.frame \in window[1] .. window[2] THEN {mismatch.frame - window[1] + 1} ELSE {})

EventPaths == [dma |-> [text |-> "oam_dma", path |-> 201], interrupt |-> [text |-> "irq_service", path |-> 202],
               render |-> [text |-> "vblank", path |-> 203]]
OnEvents(slices, i) ==
  LET there == IF i \in DOMAIN slices THEN slices[i].has ELSE {}
      shown == SelectSeq(<<"dma", "interrupt", "render">>, LAMBDA c : c \in there)
  IN [k \in DOMAIN shown |->
        [kind |-> "event", n |-> 0, text |-> EventPaths[shown[k]].text, condition |-> <<>>,
         path |-> EventPaths[shown[k]].path]]

(* Mutant of OnFrames. *)
OnFramesOfWholeWindow(planned, window, skipped) ==
  [i \in DOMAIN planned |->
     [kind |-> "frame", n |-> planned[i], text |-> "", condition |-> <<>>,
      path |-> window[1] + planned[i] - 1]]

(* What is left of them when frames at the beginning are not to be had. *)
OnFrames(planned, window, skipped) ==
  LET kept == SelectSeq(planned, LAMBDA f : f > skipped)
  IN [i \in DOMAIN kept |->
        [kind |-> "frame", n |-> kept[i] - skipped, text |-> "", condition |-> <<>>,
         path |-> window[1] + kept[i] - 1]]

(* run_replay_mismatch_snapshot_followup: back to the last checkpoint at or  *)
(* before the window, cut off at the oldest, and on through it with the      *)
(* snapshots planned.  A window ahead of the machine is run from where it is. *)
Compare ==
  /\ phase = "compare"
  /\ LET mismatch == Mismatch(job.reference, job.actual)
         window == Window(job.reference, job.actual, mismatch)
         frames == {job.actual.checkpoints[i].frame : i \in DOMAIN job.actual.checkpoints}
         start == IF frames # {} /\ window[1] < Min(frames) THEN Min(frames) ELSE window[1]
         back == start < machine.frames
         before == {f \in frames : f =< start}
     IN IF mismatch = NoMismatch \/ (back /\ before = {})
        THEN phase' = "done" /\ UNCHANGED <<machine, work, past>>
        ELSE /\ machine' = IF back THEN [machine EXCEPT !.frames = Max(before), !.at = 0] ELSE machine
             /\ past' = [past EXCEPT !.early = start - machine'.frames]
             /\ work' = <<[frames |-> Max({window[2] - start + 1, 1}), save |-> NoPath,
                           triggers |-> OnFrames(SetToSortSeq(Planned(window, mismatch), <), window,
                                                 start - window[1])
                                        \o OnEvents(IF mismatch.index \in DOMAIN job.actual.slices
                                                    THEN job.actual.slices ELSE job.reference.slices,
                                                    mismatch.index)]>>
             /\ phase' = "stages"
  /\ UNCHANGED <<job, entry, left, log, cursor, stopped, queue, media, files, saved, rows, named,
                 mode, reports, programs>>

Next == Begin \/ Frame \/ End \/ Observe \/ LinkFrame \/ Compare
Spec == Init /\ [][Next]_vars

-----------------------------------------------------------------------------
Flat(ss) == FoldLeft(LAMBDA all, s : all \o s, <<>>, ss)

(* Every sample of sound is drained once and in order; a recording is those  *)
(* of its frames, which are numbered one by one, and run ahead of the        *)
(* machine's only by the frames a stop has cut (run.rs:4002, 4374).          *)
SoundIsOnce ==
  LET d == past.drained
      inRange == SelectSeq([i \in DOMAIN d |-> i], LAMBDA i : InRange(i, job.wav))
  IN job.kind \in {"stages", "observe"} =>
       /\ Flat(d) \o queue = [i \in 1 .. machine.steps |-> i]
       /\ job.media =>
            /\ media.audio = Flat([i \in DOMAIN inRange |-> d[inRange[i]]])
            /\ media.executed = (machine.frames - job.start) + past.cuts
            /\ media.shots = SelectSeq([i \in DOMAIN d |-> i], LAMBDA i : InRange(i, job.shots))

(* A trace point on the event basis marks each step that logs such an event, *)
(* once and when it is logged (run.rs:4200).                                 *)
EventsAreMarkedOnce ==
  job.kind = "observe" => \A t \in DOMAIN job.traces :
    LET c == job.traces[t].condition
        texts == {c[i].text : i \in {j \in DOMAIN c : c[j].on = "event"}}
        pure == /\ \E i \in DOMAIN c : c[i].on = "basis" /\ c[i].text = "event"
                /\ \A i \in DOMAIN c : c[i].on \in {"basis", "event"}
        marks == SelectSeq(rows, LAMBDA r : r.basis = "trace" /\ r.of = t)
        events == SelectSeq(log, LAMBDA e : \A x \in texts : EventMatches(e.event, x))
    IN pure => [i \in DOMAIN marks |-> marks[i].step] = [i \in DOMAIN events |-> events[i].step]

(* Under observation a path holds the state of its last match.  In stages it *)
(* holds the end of the last stage that names it its own, or the first match *)
(* of the last that saves it otherwise (run.rs:2150, 4484).                  *)
FilesHoldTheirMoment ==
  LET Matching(p) == SelectSeq(past.matched, LAMBDA h : h.path = p)
      LastEntry(p) == Last(Matching(p)).entry
      First(p) == SelectSeq(Matching(p), LAMBDA h : h.entry = LastEntry(p))[1].m
      Own(p) == {i \in DOMAIN reports : reports[i].path = p}
  IN /\ job.kind = "observe" => /\ DOMAIN files = {past.matched[i].path : i \in DOMAIN past.matched}
                                /\ \A p \in DOMAIN files : files[p] = Last(Matching(p)).m
     /\ job.kind = "stages" => \A p \in DOMAIN files :
          files[p] = IF Own(p) # {} /\ (Matching(p) = <<>> \/ LastEntry(p) =< Max(Own(p)))
                     THEN reports[Max(Own(p))].m ELSE First(p)

(* The run under observation goes on exactly while no stop, no frame budget  *)
(* and no condition ends it, but makes one step in any case (run.rs:4360);   *)
(* a stage that ends on a stop is the last.                                  *)
RunsEndWhereAsked ==
  LET over == machine.frames >= job.start + job.frames /\ machine.steps > 0
  IN /\ job.kind = "observe" => /\ phase = "observe" => stopped = "no" /\ ~ over
                                /\ phase = "done" => stopped # "no" \/ over \/ job.until # <<>>
                                /\ machine.frames =< job.start + Max({job.frames, 1})
     /\ \A i \in DOMAIN reports : reports[i].stopped # "no" => i = Len(reports) /\ phase = "done"

(* The baseline compared with is the one asked for, once it has been         *)
(* captured, at the last moment it matched (run.rs:4184).                    *)
BaselineIsTheOneNamed ==
  job.kind = "observe" => mode = IF job.tag \in DOMAIN named THEN job.tag ELSE NoPath

(* A session's masks are its entries, each for its frames and at least once, *)
(* whatever the other sessions' (run.rs:1523).                               *)
Expanded(input) ==
  Flat([i \in DOMAIN input |-> [k \in 1 .. Max({input[i].frames, 1}) |-> input[i].mask]])
MasksFollowPrograms ==
  \A k \in DOMAIN past.masks, i \in DOMAIN job.inputs :
    past.masks[k][i] = IF k =< Len(Expanded(job.inputs[i])) THEN Expanded(job.inputs[i])[k] ELSE 0

(* A comparison matches exactly if nothing compared differs, and what        *)
(* differs first is inside the window (run.rs:5712, 5572).                   *)
ComparisonFindsTheFirst ==
  job.kind = "compare" =>
    LET r == job.reference
        a == job.actual
        mismatch == Mismatch(r, a)
        Seen(c) == IF job.watchOnly THEN [frame |-> c.frame, watch |-> c.watch] ELSE c
        Shown(cs) == [i \in DOMAIN cs |-> Seen(cs[i])]
        Digests(ss) == [i \in DOMAIN ss |-> ss[i].digest]
    IN /\ mismatch = NoMismatch <=>
            /\ Shown(r.checkpoints) = Shown(a.checkpoints)
            /\ job.watchOnly \/ r.slices = <<>> \/ a.slices = <<>>
               \/ Digests(r.slices) = Digests(a.slices)
       /\ mismatch.kind = "checkpoint" =>
            /\ Shown(SubSeq(r.checkpoints, 1, mismatch.index - 1))
                 = Shown(SubSeq(a.checkpoints, 1, mismatch.index - 1))
            /\ mismatch.frame \in Window(r, a, mismatch)[1] .. Window(r, a, mismatch)[2]

(* What follows starts at the window's first frame to be had, and a state    *)
(* named for a frame is the one reached by running it, as long as no stop    *)
(* cut the way there (run.rs:4656).                                          *)
FollowUpIsWhereNamed ==
  job.kind = "compare" =>
    /\ past.early = 0
    /\ past.cuts = 0 => \A p \in {q \in DOMAIN files : q < 200} : files[p].frames = p + 1

JobsDoAsAsked ==
  /\ SoundIsOnce /\ EventsAreMarkedOnce /\ FilesHoldTheirMoment /\ RunsEndWhereAsked
  /\ BaselineIsTheOneNamed /\ MasksFollowPrograms /\ ComparisonFindsTheFirst /\ FollowUpIsWhereNamed
=============================================================================
