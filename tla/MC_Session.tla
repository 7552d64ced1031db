------------------------------ MODULE MC_Session ------------------------------
(* The session's stops, checkpoints and rewinds (DebugSession); where part   *)
(* is "events", its event log and counters; and where it is "job", a job of  *)
(* the command line.                                                         *)
EXTENDS DebugSession

CONSTANTS Parts,
          Programs, Happenings, Banks, Grace, ThrashAt, PcWindow, MaxCheckpoints, MaxEvents
VARIABLES part,
          program, frames, bank, vram, picture, pc, iflag, calls, steps, log, counts, baseline,
          changed, thrash, pending, bank_restored, pcs, captured, samples, since,
          job, phase, work, entry, left, emulated, logged, cursor, stopped, queue, media, files,
          saved, rows, named, mode, reports, programs, past

jobVars == <<job, phase, work, entry, left, emulated, logged, cursor, stopped, queue, media, files,
             saved, rows, named, mode, reports, programs, past>>
events == <<program, frames, bank, vram, picture, pc, iflag, calls, steps, log, counts, baseline,
            changed, thrash, pending, bank_restored, pcs, captured, samples, since>>

(* Window 1 shows the last key, window 2 a byte set by key 1 at mid-frame. *)
MCBytes(m, window) ==
  LET key == IF m.seen = <<>> THEN 0 ELSE m.seen[Len(m.seen)]
  IN IF window = 1 THEN key ELSE key * m.at
MCEvents(m) == IF m.at = 0 THEN {"interrupt", "mmio"} ELSE {"dma"}

MCStopSets ==
  {[breaks |-> {}, watches |-> <<>>, events |-> {}],
   [breaks |-> {}, watches |-> <<1, 2>>, events |-> {}],
   [breaks |-> {1}, watches |-> <<2>>, events |-> {"dma", "interrupt"}]}
MCControls ==
  {[enabled |-> FALSE, interval |-> 1, max |-> 16, auto |-> 0, stop |-> FALSE],
   [enabled |-> TRUE, interval |-> 1, max |-> 4, auto |-> 0, stop |-> FALSE],
   [enabled |-> TRUE, interval |-> 2, max |-> 2, auto |-> 2, stop |-> TRUE]}

MCNoStops == {[breaks |-> {}, watches |-> <<>>, events |-> {}]}
MCEveryFrame == {[enabled |-> TRUE, interval |-> 1, max |-> 4, auto |-> 0, stop |-> FALSE]}

(* One event of each way of counting, and what six programs do. *)
Happening(kind, flag) == [kind |-> kind, flag |-> flag, from |-> 1, to |-> 1]
MCHappenings ==
  {Happening("HdmaBlock", TRUE), Happening("CgbObjPaletteDataWrite", TRUE),
   Happening("CgbSpeedSwitchFreeze", FALSE), Happening("ScanlineAdvance", FALSE),
   Happening("Present", TRUE)}
MCPrograms ==
  {{"devices", "load", "capture"}, {"far"}, {"plain", "capture"}, {"plain", "far"},
   {"pixels", "load"}, {"loops"}}

Log == INSTANCE SessionEvents WITH checkpoints <- captured, MaxSteps <- MaxEvents
ASSUME EventsAssumption == Log!EventParameters

-----------------------------------------------------------------------------
(* Jobs *)

Event(kind, flag) == [kind |-> kind, flag |-> flag]
Dma == Event("OamDmaStart", FALSE)
Irq == Event("InterruptRequested", FALSE)
Block == Event("HdmaBlock", TRUE)
MCWords(filter) ==
  CASE filter = "irq_service" -> {"irq", "irq_service"}
    [] filter = "oam_dma" -> {"oam_dma"}
    [] OTHER -> {}

FrameIs(n) == [on |-> "frame", n |-> n, text |-> ""]
PlaceIs(n) == [on |-> "place", n |-> n, text |-> ""]
Has(filter) == [on |-> "event", n |-> 0, text |-> filter]
Basis(basis) == [on |-> "basis", n |-> 0, text |-> basis]
Trigger == [kind |-> "frame", n |-> 0, text |-> "", condition |-> <<>>, path |-> 0]
OnFrame(n, path) == [Trigger EXCEPT !.n = n, !.path = path]
OnEvent(filter, path) == [Trigger EXCEPT !.kind = "event", !.text = filter, !.path = path]
When(condition, path) == [Trigger EXCEPT !.kind = "when", !.condition = condition, !.path = path]
Entry(n, triggers, save) == [frames |-> n, triggers |-> triggers, save |-> save]
At(condition, path) == [condition |-> condition, path |-> path]

NoReport == [checkpoints |-> <<>>, slices |-> <<>>]
Blank ==
  [kind |-> "stages", start |-> 0, frames |-> 2, entries |-> <<>>, happenings |-> {Dma},
   stopping |-> FALSE, media |-> TRUE, wav |-> <<1, 100>>, shots |-> <<2, 3>>, autosave |-> FALSE,
   snaps |-> <<>>, traces |-> <<>>, baselines |-> <<>>, until |-> <<>>, tag |-> 0,
   inputs |-> <<>>, watchOnly |-> FALSE, reference |-> NoReport, actual |-> NoReport]

(* Stages: cut off by stops, sharing paths, saving at events. *)
StageJobs ==
  {[Blank EXCEPT !.stopping = TRUE, !.autosave = TRUE,
                 !.entries = <<Entry(2, <<>>, 0), Entry(0, <<>>, 0), Entry(1, <<>>, 0)>>],
   [Blank EXCEPT !.stopping = TRUE, !.wav = <<2, 2>>,
                 !.entries = <<Entry(3, <<OnEvent("oam_dma", 1), OnFrame(2, 2)>>, 0),
                               Entry(1, <<When(<<FrameIs(3)>>, 1)>>, 2)>>],
   [Blank EXCEPT !.happenings = {Irq, Block}, !.media = FALSE,
                 !.entries = <<Entry(3, <<OnEvent("irq_service", 1), OnEvent("hdma", 2),
                                          OnEvent("hdma", 1)>>, 0)>>]}

(* Runs under observation; one asks for no frame. *)
DmaEvent == <<Basis("event"), Has("oam_dma")>>
ObserveJobs ==
  {[Blank EXCEPT !.kind = "observe", !.stopping = TRUE,
                 !.snaps = <<At(<<Has("oam_dma")>>, 1), At(<<FrameIs(2), PlaceIs(1)>>, 2)>>,
                 !.traces = <<At(DmaEvent, 0), At(<<Basis("frame_end")>>, 0)>>,
                 !.baselines = <<At(<<FrameIs(1), Basis("frame_end")>>, 5)>>, !.tag = 5],
   [Blank EXCEPT !.kind = "observe", !.frames = 0, !.media = FALSE],
   [Blank EXCEPT !.kind = "observe", !.frames = 3, !.until = <<<<FrameIs(2)>>, DmaEvent>>,
                 !.baselines = <<At(<<PlaceIs(1)>>, 5), At(<<PlaceIs(1)>>, 6)>>, !.tag = 6,
                 !.traces = <<At(DmaEvent, 0)>>]}

Input(mask, n) == [mask |-> mask, frames |-> n]
LinkJobs ==
  {[Blank EXCEPT !.kind = "link", !.frames = 5, !.stopping = TRUE,
                 !.inputs = <<<<Input(1, 2), Input(2, 0), Input(3, 1)>>, <<>>, <<Input(4, 0)>>>>]}

(* A recording of n frames that goes apart in something at a frame. *)
Report(n, interval, max, from, what) ==
  LET due == SelectSeq([i \in 1 .. n |-> i], LAMBDA i : i % interval = 0)
      kept == SubSeq(due, Max({1, Len(due) - max + 1}), Len(due))
      Value(of, frame) == IF frame >= from /\ what \in of THEN 2 ELSE 1
  IN [checkpoints |-> [i \in DOMAIN kept |->
        [frame |-> kept[i], digest |-> Value({"state", "watch"}, kept[i]),
         hash |-> Value({"state"}, kept[i]), watch |-> Value({"watch"}, kept[i])]],
      slices |-> [i \in DOMAIN kept |->
        [start |-> IF i = 1 THEN 0 ELSE kept[i - 1], end |-> kept[i], has |-> {"dma", "interrupt"},
         digest |-> Value({"slice", "state", "watch"}, kept[i])]]]
CompareJobs ==
  {[Blank EXCEPT !.kind = "compare", !.start = n, !.frames = n, !.happenings = {Irq},
                 !.stopping = TRUE, !.media = FALSE, !.watchOnly = w,
                 !.reference = Report(4, i, max, 9, "none"), !.actual = Report(n, i, max, from, what)] :
     n \in {3, 4}, i \in {1, 2}, max \in {2, 4}, from \in 1 .. 4,
     what \in {"state", "watch", "slice"}, w \in BOOLEAN}

Job == INSTANCE CliRun WITH
  machine <- emulated, log <- logged, FrameSteps <- 2, WordsIn <- MCWords, MaxSteps <- 12,
  Jobs <- StageJobs \union ObserveJobs \union LinkJobs \union CompareJobs

-----------------------------------------------------------------------------
MCInit ==
  /\ part \in Parts
  /\ Log!Init /\ (part # "events" => program = {"far"})
  /\ Job!Init /\ (part # "job" => job.kind = "link")
  /\ Init
  /\ part # "session" => /\ stops = (CHOOSE s \in StopSets : TRUE)
                         /\ control = (CHOOSE c \in Controls : TRUE)
MCNext ==
  \/ part = "session" /\ Next /\ UNCHANGED <<part, events, jobVars>>
  \/ part = "events" /\ Log!Next /\ UNCHANGED <<part, vars, jobVars>>
  \/ part = "job" /\ Job!Next /\ UNCHANGED <<part, vars, events>>
  \/ part = "events" /\ steps = MaxEvents /\ UNCHANGED <<part, vars, events, jobVars>>
  \/ part = "job" /\ phase = "done" /\ UNCHANGED <<part, vars, events, jobVars>>
MCSpec == MCInit /\ [][MCNext]_<<part, vars, events, jobVars>>

(* SessionEvents: the reports tell what happened. *)
EventsAreTold == part = "events" => Log!EventsAreTold

(* CliRun: a job's outputs hold what was asked for, and it ends where asked. *)
JobsDoAsAsked == part = "job" => Job!JobsDoAsAsked
===============================================================================
