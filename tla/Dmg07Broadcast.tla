--------------------------- MODULE Dmg07Broadcast ---------------------------
(***************************************************************************)
(* What the four-player adapter promises, without bytes on a wire: players *)
(* gather, player 1 starts the game, and from then on the game proceeds in *)
(* rounds.  The members of a game and the size of a contribution are fixed *)
(* when it starts; only members' data is ever broadcast; only a game with  *)
(* a member can be stopped, and stopping it sends everybody back to        *)
(* gathering with nobody connected.                                        *)
(***************************************************************************)
EXTENDS Integers

VARIABLES
  count,     \* number of participants, 0 until the first one calls
  stage,
  members,
  size,      \* bytes each player contributes to a round
  packet     \* what is being broadcast in this round

vars == <<count, stage, members, size, packet>>

Participants == {p \in 0 .. 3 : p < count}
Silence(n)   == [i \in 0 .. 4 * n - 1 |-> 0]

Init ==
  /\ count = 0
  /\ stage = "Ping"
  /\ members = {}
  /\ size = 1
  /\ packet = Silence(1)

Gather ==      \* participants come and go, the parameters are negotiated
  /\ stage = "Ping"
  /\ count' = count \/ (count = 0 /\ count' \in 2 .. 4)
  /\ members' \subseteq Participants
  /\ size' \in 1 .. 4
  /\ packet' = Silence(size')
  /\ UNCHANGED stage

StartGame ==   \* starting does not make player 1 a member
  /\ stage = "Ping"
  /\ stage' = "Confirm"
  /\ members' \subseteq Participants
  /\ 0 \in members' => 0 \in members
  /\ UNCHANGED <<count, size, packet>>

FirstRound ==
  /\ stage = "Confirm"
  /\ stage' = "Transmission"
  /\ UNCHANGED <<count, members, size, packet>>

NextRound ==
  /\ stage = "Transmission"
  /\ packet' \in [0 .. 4 * size - 1 -> 0 .. 255]
  /\ \A i \in DOMAIN packet' : packet'[i] # 0 => (i \div size) \in members
  /\ UNCHANGED <<count, stage, members, size>>

StopGame ==
  /\ stage = "Transmission"
  /\ members # {}
  /\ stage' = "Restart"
  /\ packet' = Silence(size)
  /\ UNCHANGED <<count, members, size>>

Regather ==
  /\ stage = "Restart"
  /\ stage' = "Ping"
  /\ members' = {}
  /\ UNCHANGED <<count, size, packet>>

Next == Gather \/ StartGame \/ FirstRound \/ NextRound \/ StopGame \/ Regather

Spec == Init /\ [][Next]_vars
=============================================================================
