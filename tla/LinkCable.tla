----------------------------- MODULE LinkCable ------------------------------
(***************************************************************************)
(* The link runner with a two-ended cable: the pair topology, and the      *)
(* topology whose host session chooses its peer through variables in its   *)
(* own memory (kokura-debug/src/link.rs, link4_selected_peer_session in    *)
(* session.rs).  Which session steps next is left open here and fixed by   *)
(* module LinkSchedule, and a call may end after any step: the order and   *)
(* the length the runner chooses are among those allowed.                  *)
(***************************************************************************)
EXTENDS SerialPort, Sequences

CONSTANTS
  SessionCount,     \* sessions the runner is called with
  Topologies,       \* records [kind, host, peer]
  Data,             \* bytes the games send
  Modes, Peers,     \* values the host's Link4_ModeState, Link4_SelectedPeer take
  SlotCounts,       \* values of its Link4_SlotCount
  Debugged,         \* sessions with stop conditions set
  MaxExchanges      \* bound on the exchanges of one behaviour

Sessions == 0 .. SessionCount - 1

(* validate_session_count *)
ValidTopology(t) ==
  \/ t.kind = "Pair" /\ SessionCount = 2 /\ t.host = 0 /\ t.peer = 1
  \/ /\ t.kind = "FourPlayerAdapter" /\ SessionCount \in 2 .. 4
     /\ t.host \in Sessions /\ t.peer \in Sessions /\ t.host # t.peer

(* What the constants stand for: sessions, bytes and small memory values. *)
CableParameters ==
  /\ \A t \in Topologies : ValidTopology(t)
  /\ SessionCount \in Nat /\ AccumLimit \in Nat /\ Data \subseteq Byte
  /\ Modes \subseteq Nat /\ Peers \subseteq Nat /\ SlotCounts \subseteq Nat

VARIABLES
  topology,
  ports,        \* serial port of each session
  requested,    \* sessions with the serial bit of IF set
  stopped,      \* sessions the debugger has stopped
  selection,    \* the Link4 variables of the host's memory: [known, mode, peer, slots]
  running,      \* inside a runner call
  active_pair,  \* summary.active_pair: the pair as refreshed before the last step
  transcript    \* history: the exchanges so far, [ends, bytes, clocks]

vars == <<topology, ports, requested, stopped, selection, running, active_pair,
          transcript>>

-----------------------------------------------------------------------------
(* The peer the host's variables name, if they do: the game has such       *)
(* variables, is in the right mode, and the slot is in bounds.             *)
PeerNamed ==
  /\ selection.known /\ selection.mode = 1
  /\ selection.peer # 0
  /\ selection.peer < selection.slots /\ selection.peer < SessionCount

(* resolve_active_pair *)
SelectedPair ==
  IF topology.kind = "FourPlayerAdapter" /\ PeerNamed
  THEN <<topology.host, selection.peer>>
  ELSE <<topology.host, topology.peer>>

Init ==
  /\ topology \in Topologies
  /\ ports = [i \in Sessions |-> ResetPort]
  /\ requested = {} /\ stopped = {}
  /\ selection \in [known : BOOLEAN, mode : Modes, peer : Peers, slots : SlotCounts]
  /\ running = FALSE
  /\ active_pair = <<topology.host, topology.peer>>
  /\ transcript = << >>

(* A call to run_frames, pump_instructions or run_pair_machine_frames.     *)
(* From the first one on every session is attached to the cable, so no     *)
(* port completes a byte by itself.  The pair in the call's fresh summary  *)
(* is refreshed before anything reads it.                                  *)
BeginCall ==
  /\ ~ running /\ running' = TRUE
  /\ UNCHANGED <<topology, ports, requested, stopped, selection, active_pair,
                 transcript>>

(* The targets are reached, the budget is used up or nobody may step. *)
EndCall ==
  /\ running /\ running' = FALSE
  /\ UNCHANGED <<topology, ports, requested, stopped, selection, active_pair,
                 transcript>>

(* The host clears the stop reason of a session. *)
Resume(i) ==
  /\ ~ running /\ i \in stopped
  /\ stopped' = stopped \ {i}
  /\ UNCHANGED <<topology, ports, requested, selection, running, active_pair,
                 transcript>>

-----------------------------------------------------------------------------
(* What one instruction can do to the link: leave it alone, write SB or    *)
(* SC, store to one of the host's variables.                               *)
PortAfter(p) ==
  {p} \cup {WriteSb(p, v) : v \in Data} \cup {WriteSc(p, s, c) : s, c \in BOOLEAN}

SelectionAfter(i) ==
  IF i = topology.host
  THEN {selection} \cup {[selection EXCEPT !.mode = m] : m \in Modes}
         \cup {[selection EXCEPT !.peer = q] : q \in Peers}
  ELSE {selection}

(* try_exchange_pair *)
CanExchange(ps, l, r) == l # r /\ Matched(ps[l], ps[r])

(* Mutant of Swapped. *)
SwappedInTurn(ps, l, r) ==
  LET once == [ps EXCEPT ![l] = Received(@, ps[r].sb)]
  IN [once EXCEPT ![r] = Received(@, once[l].sb)]

Swapped(ps, l, r) ==
  [ps EXCEPT ![l] = Received(@, ps[r].sb), ![r] = Received(@, ps[l].sb)]

(* One iteration of the loop: the pair is refreshed, a session steps, and  *)
(* the pair as it was refreshed exchanges if it now can.  A stop of the    *)
(* session takes effect, and ends the call, after the exchange.            *)
StepSession(i, port, sel, irqs, stop) ==
  LET ps == [ports EXCEPT ![i] = port]
      l  == SelectedPair[1]
      r  == SelectedPair[2]
  IN
  /\ running /\ i \notin stopped
  /\ selection' = sel
  /\ active_pair' = SelectedPair
  /\ IF CanExchange(ps, l, r)
       THEN /\ ports' = Swapped(ps, l, r)
            /\ requested' = irqs \cup {l, r}
            /\ transcript' = Append(transcript,
                 [ends |-> {l, r}, sent |-> [e \in {l, r} |-> ps[e].sb],
                  internal |-> {e \in {l, r} : ps[e].internal}])
       ELSE ports' = ps /\ requested' = irqs /\ UNCHANGED transcript
  /\ stopped' = IF stop THEN stopped \cup {i} ELSE stopped
  /\ running' = ~ stop
  /\ UNCHANGED topology

Step(i) ==
  /\ Len(transcript) < MaxExchanges
  /\ \E port \in PortAfter(ports[i]), sel \in SelectionAfter(i),
        irqs \in {requested, requested \ {i}}, stop \in BOOLEAN :
       /\ port = ports[i] \/ sel = selection
       /\ stop => i \in Debugged
       /\ StepSession(i, port, sel, irqs, stop)

Next ==
  \/ BeginCall \/ EndCall
  \/ \E i \in Sessions : Resume(i) \/ Step(i)

Spec == Init /\ [][Next]_vars

-----------------------------------------------------------------------------
(* Nothing is left waiting that the cable could have served: two opposite  *)
(* ends stay armed only if the host switched to that pair in the very last *)
(* step, after the pair had been read (link.rs refreshes before it steps). *)
ServedUnlessSwitched ==
  CanExchange(ports, SelectedPair[1], SelectedPair[2]) => SelectedPair # active_pair

(* ... and then the next step serves it, unless that step itself rewrote   *)
(* one of the two ports.                                                   *)
SwitchedPairServedNext ==
  [][\A i \in Sessions :
       (/\ CanExchange(ports, SelectedPair[1], SelectedPair[2])
        /\ Step(i) /\ i \notin {SelectedPair[1], SelectedPair[2]}) =>
         transcript' # transcript]_vars

(* An armed byte ends only by its own game's write or by an exchange with  *)
(* an end on the opposite clock that ends in the same step; both ends get  *)
(* the other's byte and an interrupt.  One of them is the host, so two     *)
(* guests never talk; sessions outside the pair keep their byte.           *)
RendezvousOnly ==
  [][LET x == transcript'[Len(transcript')]
         ended == {i \in Sessions : ports[i].active /\ ~ ports'[i].active}
     IN IF transcript' = transcript
        THEN \A i, j \in ended : i = j
        ELSE /\ Len(transcript') = Len(transcript) + 1
             /\ \E l, r \in x.ends :
                  /\ l # r /\ x.ends = {l, r} /\ x.internal = {l}
                  /\ topology.host \in x.ends
                  /\ \A i, j \in ended \ {l, r} : i = j
                  /\ ended \cap {l, r} # {}
                  /\ ports'[l].sb = x.sent[r] /\ ports'[r].sb = x.sent[l]
                  /\ {l, r} \subseteq requested'
                  /\ ~ ports'[l].active /\ ~ ports'[r].active]_vars

(* The comment on link4_selected_peer_session (session.rs:2141) says it    *)
(* selects a non-host session.                                             *)
SelectedPeerIsNotHost == running => SelectedPair[2] # topology.host
=============================================================================
