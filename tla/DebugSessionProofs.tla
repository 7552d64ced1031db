-------------------------- MODULE DebugSessionProofs --------------------------
(***************************************************************************)
(* Proofs about a session.  DebugSession: no change of a watched window is *)
(* overlooked, checkpoints go forward, and a rewind goes to the past of    *)
(* the machine that rewinds, for any length of a frame, any stops, any     *)
(* replay controls and any number of checkpoints.  SessionEvents: counters,*)
(* scores, pending calls, changes, slices and bank profiles tell what was  *)
(* logged and what the program did, for any program and any number of runs,*)
(* loads and checkpoints.                                                  *)
(***************************************************************************)
EXTENDS MC_Session, Iteration, FiniteSetTheorems, SequenceTheorems, TLAPS

-----------------------------------------------------------------------------
(* Min and Max, which are CHOOSEs, choose it. *)
LEMMA MinIsLeast ==
  ASSUME NEW S, S \subseteq Nat, S # {}
  PROVE  Min(S) \in S /\ \A y \in S : Min(S) =< y
<1>1. \E x \in S : \A y \in S : x =< y
  BY LeastNumber
<1>2. QED BY <1>1 DEF Min

LEMMA MaxIsGreatest ==
  ASSUME NEW n \in Nat, NEW S, S \subseteq 1 .. n, S # {}
  PROVE  Max(S) \in S /\ \A y \in S : Max(S) >= y
<1> DEFINE T == {n - x : x \in S}
<1>1. T \subseteq Nat
  <2>1. \A x \in S : n - x \in Nat  OBVIOUS
  <2>2. QED BY <2>1
<1>0. T # {}
  OBVIOUS
<1> HIDE DEF T
<1>2. PICK z \in T : \A y \in T : z =< y
  BY <1>1, <1>0, LeastNumber
<1>3. PICK x \in S : z = n - x
  BY <1>2 DEF T
<1>4. \A y \in S : x >= y
  <2> TAKE y \in S
  <2>1. z =< n - y  BY <1>2 DEF T
  <2>2. x \in Nat /\ y \in Nat  OBVIOUS
  <2>4. QED BY <2>1, <2>2, <1>3
<1>5. QED BY <1>4 DEF Max

(* A prefix agrees entry by entry. *)
LEMMA PrefixMeans ==
  ASSUME NEW K, NEW s \in Seq(K), NEW t \in Seq(K)
  PROVE  IsPrefix(s, t) <=> Len(s) =< Len(t) /\ \A j \in 1 .. Len(s) : s[j] = t[j]
<1> DEFINE S == SubSeq(s, 1, Len(s))
           T == SubSeq(t, 1, Len(s))
<1>1. Len(s) \in Nat /\ Len(t) \in Nat
  BY LenProperties
<1>2. S = s
  BY SubSeqFull
<1>3. ASSUME Len(s) =< Len(t)
      PROVE  T \in Seq(K) /\ Len(T) = Len(s) /\ \A j \in 1 .. Len(s) : T[j] = t[j]
  <2>1. \A j \in 1 .. Len(s) : t[j] \in K
    BY <1>1, <1>3, ElementOfSeq
  <2>2. QED BY <2>1, <1>1, SubSeqProperties, Z3
<1> HIDE DEF S, T
<1>4. ASSUME IsPrefix(s, t)
      PROVE  Len(s) =< Len(t) /\ \A j \in 1 .. Len(s) : s[j] = t[j]
  <2>1. Len(s) =< Len(t) /\ S = T  BY <1>4 DEF IsPrefix, S, T
  <2>2. QED BY <2>1, <1>2, <1>3
<1>5. ASSUME Len(s) =< Len(t), \A j \in 1 .. Len(s) : s[j] = t[j]
      PROVE  IsPrefix(s, t)
  <2>1. T = s
    BY <1>3, <1>5, SeqEqual
  <2>2. QED BY <2>1, <1>2, <1>5 DEF IsPrefix, S, T
<1>6. QED BY <1>4, <1>5

-----------------------------------------------------------------------------
(* A machine has seen a key for every frame it has begun. *)
Machines ==
  {m \in [frame : Nat, at : 0 .. FrameSteps - 1, seen : Seq(Keys)] :
     Len(m.seen) = m.frame + IF m.at = 0 THEN 0 ELSE 1}

Checkpoints == [index : Nat, generation : Nat, state : Machines]

SessionTypes ==
  /\ machine \in Machines
  /\ stops \in StopSets /\ DOMAIN baselines = DOMAIN stops.watches
  /\ control \in Controls
  /\ checkpoints \in Seq(Checkpoints)
  /\ generation \in Nat
  /\ loop \in [left : Nat, from : Nat]
  /\ mixed \in BOOLEAN

(* A run stops its loop at the frame behind the one it is in. *)
LoopInFrame ==
  ~ Idle => \/ machine.frame = loop.from
            \/ machine.frame = loop.from + 1 /\ machine.at = 0

(* Checkpoints go forward, and a machine m of generation g goes on from    *)
(* the last of them if it is of its generation.                            *)
GoesOnFrom(cs, g, m) ==
  /\ \A i \in 1 .. Len(cs) - 1 :
       /\ cs[i + 1].index = cs[i].index + 1 /\ cs[i].generation =< cs[i + 1].generation
       /\ cs[i].generation = cs[i + 1].generation =>
            IsPrefix(cs[i].state.seen, cs[i + 1].state.seen)
  /\ \A i \in DOMAIN cs : cs[i].generation =< g
  /\ cs # <<>> /\ Last(cs).generation = g => IsPrefix(Last(cs).state.seen, m.seen)

GoesOn == GoesOnFrom(checkpoints, generation, machine)

(* The newest capture at or before any frame up to n is of the past of m:  *)
(* those of a given up future are behind a newer capture of their frame,   *)
(* or later than n.                                                        *)
Superseded(cs, i) == \E j \in i + 1 .. Len(cs) : cs[j].state.frame =< cs[i].state.frame

PastUpTo(cs, m, n) ==
  \A i \in DOMAIN cs :
    cs[i].state.frame =< n => Superseded(cs, i) \/ IsPrefix(cs[i].state.seen, m.seen)

(* All captures are of the ends of due frames. *)
AllDue(cs) ==
  /\ control.enabled \/ cs = <<>>
  /\ \A i \in DOMAIN cs : cs[i].state.at = 0 /\ cs[i].state.frame % control.interval = 0

(* During a frame of a run its end has not yet been captured. *)
Settled == IF Idle THEN machine.frame ELSE loop.from

OnItsPast == ~ mixed => AllDue(checkpoints) /\ PastUpTo(checkpoints, machine, Settled)

IInv == SessionTypes /\ LoopInFrame /\ GoesOn /\ OnItsPast

-----------------------------------------------------------------------------
(* The machine and its past *)

LEMMA MachineTypes ==
  ASSUME NEW m \in Machines
  PROVE  /\ m.frame \in Nat /\ m.at \in 0 .. FrameSteps - 1 /\ m.seen \in Seq(Keys)
         /\ m = [frame |-> m.frame, at |-> m.at, seen |-> m.seen]
         /\ Len(m.seen) = m.frame + IF m.at = 0 THEN 0 ELSE 1
BY DEF Machines

LEMMA StartIsAMachine == Start \in Machines
<1>1. Start \in [frame : Nat, at : 0 .. FrameSteps - 1, seen : Seq(Keys)]
  BY DebugSessionAssumption, EmptySeq DEF Start
<1>2. Len(Start.seen) = Start.frame + IF Start.at = 0 THEN 0 ELSE 1
  BY DEF Start
<1>3. QED BY <1>1, <1>2 DEF Machines

LEMMA PrefixIsReflexive ==
  ASSUME NEW s \in Seq(Keys)
  PROVE  IsPrefix(s, s)
BY PrefixMeans, LenProperties

LEMMA PrefixIsTransitive ==
  ASSUME NEW r \in Seq(Keys), NEW s \in Seq(Keys), NEW t \in Seq(Keys),
         IsPrefix(r, s), IsPrefix(s, t)
  PROVE  IsPrefix(r, t)
<1>1. Len(r) \in Nat /\ Len(s) \in Nat /\ Len(t) \in Nat
  BY LenProperties
<1>2. Len(r) =< Len(s) /\ \A j \in 1 .. Len(r) : r[j] = s[j]
  BY PrefixMeans
<1>3. Len(s) =< Len(t) /\ \A j \in 1 .. Len(s) : s[j] = t[j]
  BY PrefixMeans
<1>4. Len(r) =< Len(t) /\ \A j \in 1 .. Len(r) : r[j] = t[j]
  BY <1>1, <1>2, <1>3
<1>5. QED BY <1>4, PrefixMeans

(* Of two prefixes of one sequence the shorter is a prefix of the other. *)
LEMMA PrefixesAreComparable ==
  ASSUME NEW r \in Seq(Keys), NEW s \in Seq(Keys), NEW t \in Seq(Keys),
         IsPrefix(r, t), IsPrefix(s, t), Len(r) =< Len(s)
  PROVE  IsPrefix(r, s)
<1>1. Len(r) \in Nat /\ Len(s) \in Nat /\ Len(t) \in Nat
  BY LenProperties
<1>2. \A j \in 1 .. Len(r) : r[j] = t[j]
  BY PrefixMeans
<1>3. \A j \in 1 .. Len(s) : s[j] = t[j]
  BY PrefixMeans
<1>4. \A j \in 1 .. Len(r) : r[j] = s[j]
  BY <1>1, <1>2, <1>3
<1>5. QED BY <1>4, PrefixMeans

(* A step goes on from what the machine has seen, to the end of the frame  *)
(* or not.                                                                 *)
LEMMA StepGoesOn ==
  ASSUME NEW m \in Machines, NEW key \in Keys
  PROVE  /\ Stepped(m, key) \in Machines
         /\ IsPrefix(m.seen, Stepped(m, key).seen)
         /\ \/ Stepped(m, key).frame = m.frame
            \/ Stepped(m, key).frame = m.frame + 1 /\ Stepped(m, key).at = 0
<1> DEFINE seen == IF m.at = 0 THEN Append(m.seen, key) ELSE m.seen
<1>1. /\ m.frame \in Nat /\ m.at \in 0 .. FrameSteps - 1 /\ m.seen \in Seq(Keys)
      /\ m = [frame |-> m.frame, at |-> m.at, seen |-> m.seen]
      /\ Len(m.seen) = m.frame + IF m.at = 0 THEN 0 ELSE 1
  BY MachineTypes
<1>2. seen \in Seq(Keys) /\ Len(seen) = m.frame + 1 /\ IsPrefix(m.seen, seen)
  <2>1. CASE m.at = 0
    <3>1. /\ seen \in Seq(Keys) /\ Len(seen) = Len(m.seen) + 1
          /\ \A j \in 1 .. Len(m.seen) : seen[j] = m.seen[j]
      BY <1>1, <2>1, AppendProperties
    <3>2. Len(m.seen) \in Nat
      BY <1>1, LenProperties
    <3> HIDE DEF seen
    <3>3. IsPrefix(m.seen, seen)
      BY <1>1, <3>1, <3>2, PrefixMeans
    <3>4. QED BY <1>1, <2>1, <3>1, <3>3
  <2>2. CASE m.at # 0
    BY <1>1, <2>2, PrefixIsReflexive
  <2>3. QED BY <2>1, <2>2
<1>3. Stepped(m, key) = IF m.at + 1 = FrameSteps
                        THEN [frame |-> m.frame + 1, at |-> 0, seen |-> seen]
                        ELSE [m EXCEPT !.at = @ + 1, !.seen = seen]
  BY DEF Stepped
<1> HIDE DEF seen
<1>4. CASE m.at + 1 = FrameSteps
  BY <1>1, <1>2, <1>3, <1>4, DebugSessionAssumption, SMTT(90) DEF Machines
<1>5. CASE m.at + 1 # FrameSteps
  <2>1. Stepped(m, key) = [frame |-> m.frame, at |-> m.at + 1, seen |-> seen]
    BY <1>1, <1>3, <1>5
  <2>2. m.at + 1 \in 0 .. FrameSteps - 1 /\ m.at + 1 # 0
    BY <1>1, <1>5, DebugSessionAssumption
  <2>3. QED BY <1>1, <1>2, <2>1, <2>2 DEF Machines
<1>6. QED BY <1>4, <1>5

-----------------------------------------------------------------------------
(* Checkpoints *)

LEMMA CheckpointTypes ==
  ASSUME NEW cs \in Seq(Checkpoints)
  PROVE  /\ Len(cs) \in Nat /\ DOMAIN cs = 1 .. Len(cs)
         /\ \A i \in 1 .. Len(cs) :
              /\ cs[i] \in Checkpoints /\ cs[i].state \in Machines
              /\ cs[i].index \in Nat /\ cs[i].generation \in Nat
              /\ cs[i].state.frame \in Nat /\ cs[i].state.seen \in Seq(Keys)
<1>1. Len(cs) \in Nat /\ DOMAIN cs = 1 .. Len(cs)
  BY LenProperties
<1>2. ASSUME NEW i \in 1 .. Len(cs)
      PROVE  /\ cs[i] \in Checkpoints /\ cs[i].state \in Machines
             /\ cs[i].index \in Nat /\ cs[i].generation \in Nat
             /\ cs[i].state.frame \in Nat /\ cs[i].state.seen \in Seq(Keys)
  <2>1. cs[i] \in Checkpoints
    BY ElementOfSeq
  <2>2. cs[i].state \in Machines /\ cs[i].index \in Nat /\ cs[i].generation \in Nat
    BY <2>1 DEF Checkpoints
  <2>3. cs[i].state.frame \in Nat /\ cs[i].state.seen \in Seq(Keys)
    BY <2>2, MachineTypes
  <2>4. QED BY <2>1, <2>2, <2>3
<1>3. QED BY <1>1, <1>2

(* What a rewind finds: a capture at or before the target, with none so    *)
(* early behind it.                                                        *)
LEMMA NewestIsLast ==
  ASSUME NEW cs \in Seq(Checkpoints), NEW target \in Nat, Newest(cs, target) # 0
  PROVE  /\ Newest(cs, target) \in 1 .. Len(cs)
         /\ cs[Newest(cs, target)].state.frame =< target
         /\ \A j \in Newest(cs, target) + 1 .. Len(cs) : cs[j].state.frame > target
<1> DEFINE reaching == {i \in DOMAIN cs : cs[i].state.frame =< target}
<1>1. Len(cs) \in Nat /\ DOMAIN cs = 1 .. Len(cs)
      /\ \A i \in 1 .. Len(cs) : cs[i].state.frame \in Nat
  BY CheckpointTypes
<1>2. reaching # {} /\ Newest(cs, target) = Max(reaching)
  BY DEF Newest
<1>3. reaching \subseteq 1 .. Len(cs)
  BY <1>1
<1>4. \A j \in 1 .. Len(cs) : j \in reaching <=> cs[j].state.frame =< target
  BY <1>1
<1> HIDE DEF reaching
<1>5. Max(reaching) \in reaching /\ \A y \in reaching : Max(reaching) >= y
  BY <1>1, <1>2, <1>3, MaxIsGreatest
<1> DEFINE i == Newest(cs, target)
<1>6. i \in 1 .. Len(cs) /\ cs[i].state.frame =< target
  BY <1>2, <1>3, <1>4, <1>5
<1>7. ASSUME NEW j \in i + 1 .. Len(cs) PROVE cs[j].state.frame > target
  <2>1. j \in 1 .. Len(cs) /\ j > i
    BY <1>1, <1>6
  <2>2. j \notin reaching
    BY <2>1, <1>2, <1>5, <1>6, <1>1
  <2>3. QED BY <2>1, <2>2, <1>4, <1>1
<1>8. QED BY <1>6, <1>7

(* A rewind goes to the machine's past, and what was its past up to there  *)
(* is so still.                                                            *)
LEMMA RewindStaysInThePast ==
  ASSUME NEW cs \in Seq(Checkpoints), NEW m \in Machines, NEW target \in 0 .. m.frame,
         PastUpTo(cs, m, m.frame), Newest(cs, target) # 0,
         \A k \in DOMAIN cs : cs[k].state.at = 0
  PROVE  LET chosen == cs[Newest(cs, target)].state
         IN /\ IsPrefix(chosen.seen, m.seen) /\ chosen.frame =< m.frame
            /\ PastUpTo(cs, chosen, chosen.frame)
<1> DEFINE i == Newest(cs, target)
           chosen == cs[i].state
<1>1. /\ Len(cs) \in Nat /\ DOMAIN cs = 1 .. Len(cs)
      /\ \A k \in 1 .. Len(cs) :
           cs[k].state \in Machines /\ cs[k].state.frame \in Nat /\ cs[k].state.seen \in Seq(Keys)
  BY CheckpointTypes
<1>2. m.frame \in Nat /\ m.seen \in Seq(Keys)
  BY MachineTypes
<1>3. i \in 1 .. Len(cs) /\ chosen.frame =< target
      /\ \A j \in i + 1 .. Len(cs) : cs[j].state.frame > target
  BY NewestIsLast, <1>2
<1>4. chosen.frame \in Nat /\ chosen.seen \in Seq(Keys) /\ chosen.frame =< m.frame
  BY <1>1, <1>2, <1>3
<1> HIDE DEF i
<1>5. ~ Superseded(cs, i)
  BY <1>1, <1>2, <1>3, SMTT(90) DEF Superseded
<1>6. IsPrefix(chosen.seen, m.seen)
  BY <1>1, <1>3, <1>4, <1>5 DEF PastUpTo
<1>7. ASSUME NEW k \in 1 .. Len(cs), cs[k].state.frame =< chosen.frame, ~ Superseded(cs, k)
      PROVE  IsPrefix(cs[k].state.seen, chosen.seen)
  <2>1. IsPrefix(cs[k].state.seen, m.seen)
    BY <1>1, <1>2, <1>4, <1>7, SMTT(90), SMTT(90) DEF PastUpTo
  <2>2. Len(cs[k].state.seen) = cs[k].state.frame /\ Len(chosen.seen) = chosen.frame
    <3>1. \A l \in 1 .. Len(cs) : Len(cs[l].state.seen) = cs[l].state.frame
      BY <1>1, MachineTypes
    <3>2. QED BY <1>3, <3>1
  <2>3. QED BY <1>1, <1>2, <1>4, <1>6, <1>7, <2>1, <2>2, PrefixesAreComparable
<1>8. PastUpTo(cs, chosen, chosen.frame)
  BY <1>1, <1>7 DEF PastUpTo
<1>9. QED BY <1>4, <1>6, <1>8 DEF i

(* A capture goes behind what is left of the others, and is not evicted    *)
(* itself.                                                                 *)
LEMMA CaptureIsBehind ==
  ASSUME SessionTypes, control.enabled
  PROVE  /\ Captured \in Seq(Checkpoints)
         /\ Captured # <<>>
         /\ Captured[Len(Captured)] =
              [index |-> IF checkpoints = <<>> THEN 0 ELSE Last(checkpoints).index + 1,
               generation |-> generation, state |-> machine]
         /\ \E d \in 0 .. Len(checkpoints) :
              /\ Len(Captured) = Len(checkpoints) + 1 - d
              /\ \A k \in 1 .. Len(Captured) - 1 : Captured[k] = checkpoints[k + d]
<1> DEFINE n == Len(checkpoints)
           c == [index |-> IF checkpoints = <<>> THEN 0 ELSE Last(checkpoints).index + 1,
                 generation |-> generation, state |-> machine]
           all == Append(checkpoints, c)
<1>1. /\ checkpoints \in Seq(Checkpoints) /\ n \in Nat /\ DOMAIN checkpoints = 1 .. n
      /\ \A i \in 1 .. n : checkpoints[i].index \in Nat
  BY CheckpointTypes DEF SessionTypes
<1>2. c \in Checkpoints
  <2>1. machine \in Machines /\ generation \in Nat
    BY DEF SessionTypes
  <2>2. checkpoints # <<>> => Last(checkpoints).index \in Nat
    <3> HAVE checkpoints # <<>>
    <3>1. n \in Nat \ {0}
      BY <1>1, EmptySeq
    <3>2. n \in 1 .. n
      BY <3>1
    <3>3. QED BY <1>1, <3>2 DEF Last
  <2>3. QED BY <2>1, <2>2 DEF Checkpoints
<1>3. /\ all \in Seq(Checkpoints) /\ Len(all) = n + 1
      /\ \A i \in 1 .. n : all[i] = checkpoints[i]
      /\ all[n + 1] = c
  BY <1>1, <1>2, AppendProperties
<1>4. control.max \in Nat \ {0}
  BY DebugSessionAssumption DEF SessionTypes
<1>5. Captured = Evicted(all)
  BY DEF Captured
<1> HIDE DEF c, all, n
<1>6. CASE n + 1 =< control.max
  <2>1. Captured = all
    BY <1>1, <1>3, <1>4, <1>5, <1>6 DEF Evicted
  <2>2. 0 \in 0 .. n /\ Len(Captured) = n + 1 - 0 /\ Captured # <<>>
        /\ \A k \in 1 .. Len(Captured) - 1 : Captured[k] = checkpoints[k + 0]
    BY <1>1, <1>3, <2>1, EmptySeq
  <2>3. QED BY <1>1, <1>3, <2>1, <2>2 DEF c, n
<1>7. CASE n + 1 > control.max
  <2> DEFINE d == n + 1 - control.max
  <2>1. d \in 0 .. n /\ d + 1 \in Int /\ d + 1 =< n + 1
    BY <1>1, <1>4, <1>7
  <2>2. Captured = SubSeq(all, d + 1, n + 1)
    <3>1. Len(all) > control.max /\ Len(all) - control.max + 1 = d + 1
      BY <1>1, <1>3, <1>4, <1>7
    <3>2. Evicted(all) = SubSeq(all, d + 1, Len(all))
      BY <3>1 DEF Evicted
    <3> QED
      BY <1>3, <1>5, <3>2
  <2>3. \A i \in d + 1 .. n + 1 : all[i] \in Checkpoints
    BY <1>1, <1>3, <2>1, ElementOfSeq
  <2> HIDE DEF d
  <2>4. /\ Captured \in Seq(Checkpoints) /\ Len(Captured) = n + 1 - d
        /\ \A i \in 1 .. n + 1 - d : Captured[i] = all[d + 1 + i - 1]
    <3>1. /\ Len(Captured) = IF d + 1 =< n + 1 THEN n + 1 - (d + 1) + 1 ELSE 0
          /\ \A i \in 1 .. n + 1 - (d + 1) + 1 : Captured[i] = all[d + 1 + i - 1]
          /\ Captured \in Seq(Checkpoints)
      BY <1>1, <2>1, <2>2, <2>3, SubSeqProperties, SMTT(90)
    <3>2. QED BY <1>1, <2>1, <3>1
  <2>5. \A k \in 1 .. Len(Captured) - 1 : Captured[k] = checkpoints[k + d]
    <3> TAKE k \in 1 .. Len(Captured) - 1
    <3>1. k \in 1 .. n + 1 - d /\ k + d \in 1 .. n /\ d + 1 + k - 1 = k + d
      BY <1>1, <2>1, <2>4
    <3>2. QED BY <1>3, <2>4, <3>1
  <2>6. Captured[Len(Captured)] = c /\ Captured # <<>>
    <3>1. n + 1 - d \in 1 .. n + 1 - d /\ d + 1 + (n + 1 - d) - 1 = n + 1
      BY <1>1, <2>1
    <3>2. Captured[Len(Captured)] = c
      BY <1>3, <2>4, <3>1
    <3>3. QED BY <2>4, <3>1, <3>2, EmptySeq, <2>1, <1>1
  <2>7. QED BY <2>1, <2>4, <2>5, <2>6 DEF c, n
<1>8. QED BY <1>1, <1>4, <1>6, <1>7

-----------------------------------------------------------------------------
(* Types *)

LEMMA InitTypes == Init => SessionTypes
<1> SUFFICES ASSUME Init PROVE SessionTypes
  OBVIOUS
<1>1. machine \in Machines
  BY StartIsAMachine DEF Init
<1>2. DOMAIN baselines = DOMAIN stops.watches
  BY DEF Init, Sampled
<1>3. checkpoints \in Seq(Checkpoints)
  BY EmptySeq DEF Init
<1>4. QED BY <1>1, <1>2, <1>3 DEF Init, SessionTypes

(* What a step under the debugger does to the machine, stopped or not. *)
LEMMA DebugStepGoesOn ==
  ASSUME SessionTypes, NEW key \in Keys, DebugStep(key)
  PROVE  /\ machine' \in Machines /\ DOMAIN baselines' = DOMAIN baselines
         /\ IsPrefix(machine.seen, machine'.seen)
         /\ \/ machine'.frame = machine.frame
            \/ machine'.frame = machine.frame + 1 /\ machine'.at = 0
<1>1. machine \in Machines /\ machine.seen \in Seq(Keys)
  BY MachineTypes DEF SessionTypes
<1>2. CASE machine \in Machines /\ machine' = machine /\ baselines' = baselines
  BY <1>1, <1>2, PrefixIsReflexive
<1>3. CASE machine' = Stepped(machine, key) /\ baselines' = BaselinesAfter(Stepped(machine, key))
  <2>1. DOMAIN baselines' = DOMAIN baselines
    BY <1>3 DEF BaselinesAfter
  <2>2. QED BY <1>1, <1>3, <2>1, StepGoesOn
<1>4. QED BY <1>1, <1>2, <1>3 DEF DebugStep

(* A rewind lands on a captured state, or does nothing. *)
LEMMA RewoundTypes ==
  ASSUME SessionTypes, NEW cs \in Seq(Checkpoints), NEW back \in Nat,
         Rewound(cs, RewindTo(cs, back))
  PROVE  /\ machine' \in Machines /\ DOMAIN baselines' = DOMAIN stops.watches
         /\ generation' \in Nat
<1>1. machine \in Machines /\ machine.frame \in Nat /\ generation \in Nat
  BY MachineTypes DEF SessionTypes
<1> DEFINE i == RewindTo(cs, back)
           target == IF back > machine.frame THEN 0 ELSE machine.frame - back
<1>2. target \in Nat
  BY <1>1
<1>3. CASE i = 0
  BY <1>1, <1>3 DEF Rewound, SessionTypes
<1>4. CASE i # 0
  <2>1. i = Newest(cs, target)
    BY <1>4 DEF RewindTo
  <2>2. i \in 1 .. Len(cs)
    BY <1>2, <1>4, <2>1, NewestIsLast
  <2>3. /\ machine' = cs[i].state /\ baselines' = Sampled(cs[i].state, stops.watches)
        /\ generation' = generation + 1
    BY <1>4 DEF Rewound
  <2>4. cs[i].state \in Machines
    BY <2>2, CheckpointTypes
  <2>5. QED BY <1>1, <2>3, <2>4 DEF Sampled
<1>5. QED BY <1>3, <1>4

-----------------------------------------------------------------------------
(* Going on, rewinding and capturing *)

LEMMA InitHolds == Init => IInv
<1> SUFFICES ASSUME Init PROVE IInv
  OBVIOUS
<1>1. SessionTypes
  BY InitTypes
<1>2. LoopInFrame
  BY DEF Init, LoopInFrame, Idle
<1>3. GoesOn
  BY EmptySeq DEF Init, GoesOn, GoesOnFrom
<1>4. OnItsPast
  BY EmptySeq DEF Init, OnItsPast, AllDue, PastUpTo
<1>5. QED BY <1>1, <1>2, <1>3, <1>4 DEF IInv

LEMMA Len0 ==
  ASSUME Len(checkpoints) # 0
  PROVE  checkpoints # <<>>
BY EmptySeq

LEMMA LastIsAnEntry ==
  ASSUME NEW cs \in Seq(Checkpoints), cs # <<>>
  PROVE  Len(cs) \in 1 .. Len(cs) /\ Last(cs) = cs[Len(cs)]
<1>1. Len(cs) \in Nat \ {0}
  BY EmptySeq
<1>2. QED BY <1>1 DEF Last

(* A machine that goes on goes on from the same checkpoints. *)
LEMMA GoingOnKeepsGoing ==
  ASSUME NEW cs \in Seq(Checkpoints), NEW g, NEW m \in Machines, NEW n \in Machines,
         GoesOnFrom(cs, g, m), IsPrefix(m.seen, n.seen)
  PROVE  GoesOnFrom(cs, g, n)
<1>1. m.seen \in Seq(Keys) /\ n.seen \in Seq(Keys)
  BY MachineTypes
<1>2. ASSUME cs # <<>>, Last(cs).generation = g
      PROVE  IsPrefix(Last(cs).state.seen, n.seen)
  <2>1. Last(cs).state.seen \in Seq(Keys)
    BY <1>2, LastIsAnEntry, CheckpointTypes
  <2>2. IsPrefix(Last(cs).state.seen, m.seen)
    BY <1>2 DEF GoesOnFrom
  <2>3. QED BY <1>1, <2>1, <2>2, PrefixIsTransitive
<1>3. QED BY <1>2 DEF GoesOnFrom

LEMMA GoingOnKeepsThePast ==
  ASSUME NEW cs \in Seq(Checkpoints), NEW m \in Machines, NEW n \in Machines, NEW f,
         PastUpTo(cs, m, f), IsPrefix(m.seen, n.seen)
  PROVE  PastUpTo(cs, n, f)
<1>1. m.seen \in Seq(Keys) /\ n.seen \in Seq(Keys)
  BY MachineTypes
<1>2. ASSUME NEW i \in DOMAIN cs, IsPrefix(cs[i].state.seen, m.seen)
      PROVE  IsPrefix(cs[i].state.seen, n.seen)
  <2>1. cs[i].state.seen \in Seq(Keys)
    BY CheckpointTypes
  <2>2. QED BY <1>1, <1>2, <2>1, PrefixIsTransitive
<1>3. QED BY <1>2 DEF PastUpTo

(* A rewind begins a generation in which nothing is captured yet. *)
LEMMA RewindGoesOn ==
  ASSUME SessionTypes, NEW cs \in Seq(Checkpoints), NEW i,
         GoesOnFrom(cs, generation, machine), Rewound(cs, i)
  PROVE  GoesOnFrom(cs, generation', machine')
<1>1. CASE i = 0
  BY <1>1 DEF Rewound
<1>2. CASE i # 0
  <2>1. generation' = generation + 1 /\ generation \in Nat
    BY <1>2 DEF Rewound, SessionTypes
  <2>2. \A k \in DOMAIN cs : cs[k].generation \in Nat /\ cs[k].generation =< generation
    BY CheckpointTypes DEF GoesOnFrom
  <2>3. cs # <<>> => Last(cs).generation # generation'
    BY <2>1, <2>2, LastIsAnEntry, CheckpointTypes
  <2>4. \A k \in DOMAIN cs : cs[k].generation =< generation'
    BY <2>1, <2>2
  <2>5. QED BY <2>3, <2>4 DEF GoesOnFrom
<1>3. QED BY <1>1, <1>2

LEMMA RewindKeepsThePast ==
  ASSUME SessionTypes, NEW cs \in Seq(Checkpoints), NEW back \in Nat,
         AllDue(cs), PastUpTo(cs, machine, machine.frame), Rewound(cs, RewindTo(cs, back))
  PROVE  /\ PastUpTo(cs, machine', machine'.frame)
         /\ generation' > generation =>
              IsPrefix(machine'.seen, machine.seen) /\ machine'.frame =< machine.frame
<1> DEFINE i == RewindTo(cs, back)
           target == IF back > machine.frame THEN 0 ELSE machine.frame - back
<1>1. machine \in Machines /\ machine.frame \in Nat /\ generation \in Nat
  BY MachineTypes DEF SessionTypes
<1>2. CASE i = 0
  BY <1>1, <1>2 DEF Rewound
<1>3. CASE i # 0
  <2>1. i = Newest(cs, target)
    BY <1>3 DEF RewindTo
  <2>2. target \in 0 .. machine.frame
    BY <1>1
  <2>3. machine' = cs[i].state
    BY <1>3 DEF Rewound
  <2>4. \A k \in DOMAIN cs : cs[k].state.at = 0
    BY DEF AllDue
  <2> HIDE DEF i, target
  <2>5. QED BY <1>1, <1>3, <2>1, <2>2, <2>3, <2>4, RewindStaysInThePast
<1>4. QED BY <1>2, <1>3

(* A capture of the machine as it is goes on from the last one. *)
LEMMA CaptureGoesOn ==
  ASSUME SessionTypes, GoesOn, control.enabled
  PROVE  GoesOnFrom(Captured, generation, machine)
<1> DEFINE n == Len(checkpoints)
           m == Len(Captured)
<1>1. /\ checkpoints \in Seq(Checkpoints) /\ n \in Nat /\ DOMAIN checkpoints = 1 .. n
      /\ \A i \in 1 .. n : checkpoints[i].generation \in Nat
  BY CheckpointTypes DEF SessionTypes
<1>2. PICK d \in 0 .. n : /\ m = n + 1 - d
                          /\ \A k \in 1 .. m - 1 : Captured[k] = checkpoints[k + d]
  BY CaptureIsBehind
<1>3. /\ Captured \in Seq(Checkpoints) /\ Captured # <<>> /\ m \in 1 .. m
      /\ DOMAIN Captured = 1 .. m /\ Last(Captured) = Captured[m]
  BY CaptureIsBehind, LastIsAnEntry, CheckpointTypes
<1>4. /\ Captured[m].index = IF checkpoints = <<>> THEN 0 ELSE Last(checkpoints).index + 1
      /\ Captured[m].generation = generation /\ Captured[m].state = machine
  BY CaptureIsBehind
<1>5. generation \in Nat /\ machine \in Machines /\ machine.seen \in Seq(Keys)
  BY MachineTypes DEF SessionTypes
<1>6. /\ \A i \in 1 .. n - 1 :
           /\ checkpoints[i + 1].index = checkpoints[i].index + 1
           /\ checkpoints[i].generation =< checkpoints[i + 1].generation
           /\ checkpoints[i].generation = checkpoints[i + 1].generation =>
                IsPrefix(checkpoints[i].state.seen, checkpoints[i + 1].state.seen)
      /\ \A i \in 1 .. n : checkpoints[i].generation =< generation
      /\ checkpoints # <<>> /\ Last(checkpoints).generation = generation =>
           IsPrefix(Last(checkpoints).state.seen, machine.seen)
  BY <1>1 DEF GoesOn, GoesOnFrom
<1> HIDE DEF m, n
<1>7. ASSUME NEW i \in 1 .. m - 1
      PROVE  /\ Captured[i + 1].index = Captured[i].index + 1
             /\ Captured[i].generation =< Captured[i + 1].generation
             /\ Captured[i].generation = Captured[i + 1].generation =>
                  IsPrefix(Captured[i].state.seen, Captured[i + 1].state.seen)
  <2>1. Captured[i] = checkpoints[i + d] /\ i + d \in 1 .. n
    BY <1>1, <1>2, SMTT(90)
  <2>2. CASE i + 1 < m
    <3>1. Captured[i + 1] = checkpoints[i + d + 1] /\ i + d \in 1 .. n - 1
      BY <1>1, <1>2, <2>2
    <3>2. QED BY <1>6, <2>1, <3>1
  <2>3. CASE i + 1 = m
    <3>0. i + d = n /\ n # 0
      BY <1>1, <1>2, <2>1, <2>3
    <3>1. i + d = n /\ checkpoints # <<>>
      BY <3>0, Zenon, Len0 DEF n
    <3>2. Last(checkpoints) = checkpoints[n]
      BY <1>1, <3>1, LastIsAnEntry DEF n
    <3>3. QED BY <1>4, <1>6, <2>1, <2>3, <3>1, <3>2
  <2>4. QED BY <1>1, <1>2, <2>2, <2>3
<1>8. ASSUME NEW i \in 1 .. m
      PROVE  Captured[i].generation =< generation
  <2>1. CASE i < m
    <3>1. Captured[i] = checkpoints[i + d] /\ i + d \in 1 .. n
      BY <1>1, <1>2, <2>1
    <3>2. QED BY <1>6, <3>1
  <2>2. CASE i = m
    BY <1>4, <1>5, <2>2
  <2>3. QED BY <1>1, <1>2, <2>1, <2>2
<1>9. IsPrefix(Captured[m].state.seen, machine.seen)
  BY <1>4, <1>5, PrefixIsReflexive
<1>10. QED BY <1>3, <1>7, <1>8, <1>9 DEF GoesOnFrom, m

(* The checkpoints at the end of a turn. *)
Kept == IF Captures THEN Captured ELSE checkpoints

LEMMA KeptGoesOn ==
  ASSUME SessionTypes, GoesOn
  PROVE  Kept \in Seq(Checkpoints) /\ GoesOnFrom(Kept, generation, machine)
<1>1. CASE Captures
  <2>1. control.enabled
    BY <1>1 DEF Captures, Due
  <2>2. QED BY <1>1, <2>1, CaptureGoesOn, CaptureIsBehind DEF Kept
<1>2. CASE ~ Captures
  BY <1>2 DEF Kept, GoesOn, SessionTypes
<1>3. QED BY <1>1, <1>2

(* The frame whose end it is has ended without a stop, or it is stopped    *)
(* where it was just captured: then all up to it is the machine's past.    *)
LEMMA KeptIsThePast ==
  ASSUME IInv, ~ Idle, FrameOver, ~ mixed, ~ (Captures /\ stop # NoStop),
         ~ (Due /\ ~ Captures /\ (Kept = <<>> \/ Last(Kept).state # machine))
  PROVE  AllDue(Kept) /\ PastUpTo(Kept, machine, machine.frame)
<1>1. /\ SessionTypes /\ LoopInFrame /\ AllDue(checkpoints)
      /\ PastUpTo(checkpoints, machine, loop.from)
  BY DEF IInv, OnItsPast, Settled
<1>2. /\ checkpoints \in Seq(Checkpoints) /\ Len(checkpoints) \in Nat
      /\ DOMAIN checkpoints = 1 .. Len(checkpoints)
      /\ \A i \in 1 .. Len(checkpoints) : checkpoints[i].state.frame \in Nat
  BY <1>1, CheckpointTypes DEF SessionTypes
<1>3. /\ machine \in Machines /\ machine.frame \in Nat /\ machine.seen \in Seq(Keys)
      /\ loop.from \in Nat /\ IsPrefix(machine.seen, machine.seen)
  BY <1>1, MachineTypes, PrefixIsReflexive DEF SessionTypes
<1>4. \/ machine.frame = loop.from
      \/ machine.frame = loop.from + 1 /\ machine.at = 0
  BY <1>1 DEF LoopInFrame
<1>5. stop = NoStop => machine.frame = loop.from + 1 /\ machine.at = 0
  BY <1>3, <1>4 DEF FrameOver
<1>6. CASE Captures
  <2> DEFINE m == Len(Captured)
             n == Len(checkpoints)
  <2>1. control.enabled /\ stop = NoStop /\ machine.frame % control.interval = 0
    BY <1>6 DEF Captures, Due
  <2>2. PICK d \in 0 .. n : /\ m = n + 1 - d
                            /\ \A k \in 1 .. m - 1 : Captured[k] = checkpoints[k + d]
    BY <1>1, <2>1, CaptureIsBehind
  <2>3. /\ Captured \in Seq(Checkpoints) /\ m \in 1 .. m
        /\ DOMAIN Captured = 1 .. m /\ Captured[m].state = machine
    BY <1>1, <2>1, CaptureIsBehind, LastIsAnEntry, CheckpointTypes
  <2>4. n \in Nat
    BY <1>2
  <2> HIDE DEF m, n
  <2>5. \A k \in 1 .. m - 1 : k + d \in 1 .. n /\ Captured[k] = checkpoints[k + d]
    BY <2>2, <2>4
  <2>6. AllDue(Captured)
    <3>1. \A k \in 1 .. m - 1 :
            Captured[k].state.at = 0 /\ Captured[k].state.frame % control.interval = 0
      BY <1>1, <1>2, <2>5 DEF AllDue, n
    <3>2. \A k \in 1 .. m : k \in 1 .. m - 1 \/ k = m
      BY <2>2, <2>4
    <3>3. QED BY <1>5, <2>1, <2>3, <3>1, <3>2 DEF AllDue
  <2>7. ASSUME NEW k \in 1 .. m - 1, Captured[k].state.frame =< machine.frame
        PROVE  Superseded(Captured, k) \/ IsPrefix(Captured[k].state.seen, machine.seen)
    <3>1. Captured[k] = checkpoints[k + d] /\ k + d \in 1 .. n
          /\ checkpoints[k + d].state.frame \in Nat
      BY <1>2, <2>5 DEF n
    <3>2. CASE Captured[k].state.frame = machine.frame
      <4>1. m \in k + 1 .. m
        BY <2>2, <2>4
      <4>2. Captured[m].state.frame =< Captured[k].state.frame
        BY <1>3, <2>3, <3>2
      <4>3. QED BY <4>1, <4>2 DEF Superseded, m
    <3>3. CASE Captured[k].state.frame # machine.frame
      <4>1. checkpoints[k + d].state.frame =< loop.from
        BY <1>3, <1>5, <2>1, <2>7, <3>1, <3>3, SMTT(90)
      <4>2. CASE IsPrefix(checkpoints[k + d].state.seen, machine.seen)
        BY <3>1, <4>2
      <4>3. CASE Superseded(checkpoints, k + d)
        <5>1. PICK j \in k + d + 1 .. n :
                checkpoints[j].state.frame =< checkpoints[k + d].state.frame
          BY <4>3 DEF Superseded, n
        <5>2. j - d \in k + 1 .. m /\ j - d \in 1 .. m - 1 /\ j - d + d = j
          BY <2>2, <2>4, <5>1
        <5>3. Captured[j - d] = checkpoints[j]
          BY <2>5, <5>2
        <5>4. QED BY <3>1, <5>1, <5>2, <5>3 DEF Superseded, m
      <4>4. QED BY <1>1, <1>2, <3>1, <4>1, <4>2, <4>3 DEF PastUpTo, n
    <3>4. QED BY <3>2, <3>3
  <2>8. PastUpTo(Captured, machine, machine.frame)
    <3>1. \A k \in 1 .. m : k \in 1 .. m - 1 \/ k = m
      BY <2>2, <2>4
    <3>2. QED BY <1>3, <2>3, <2>7, <3>1 DEF PastUpTo
  <2>9. QED BY <1>6, <2>6, <2>8 DEF Kept
<1>7. CASE ~ Captures
  <2>1. Kept = checkpoints
    BY <1>7 DEF Kept
  <2> DEFINE n == Len(checkpoints)
  <2>2. CASE Due
    <3>1. checkpoints # <<>> /\ Last(checkpoints).state = machine
      BY <1>7, <2>1, <2>2
    <3>2. n \in 1 .. n /\ checkpoints[n].state = machine
      BY <1>2, <3>1, LastIsAnEntry
    <3>3. ASSUME NEW k \in 1 .. n, checkpoints[k].state.frame =< machine.frame
          PROVE  Superseded(checkpoints, k) \/ IsPrefix(checkpoints[k].state.seen, machine.seen)
      <4>1. CASE k = n
        BY <1>3, <3>2, <4>1
      <4>2. CASE k # n /\ checkpoints[k].state.frame = machine.frame
        <5>0. n \in Nat /\ k \in 1 .. n
          BY <1>2
        <5>1. n \in k + 1 .. n
          <6> HIDE DEF n
          <6>1. QED BY <4>2, <5>0
        <5>2. checkpoints[n].state.frame =< checkpoints[k].state.frame
          BY <1>3, <3>2, <4>2
        <5>3. QED BY <5>1, <5>2 DEF Superseded
      <4>3. CASE checkpoints[k].state.frame # machine.frame
        <5>1. checkpoints[k].state.frame =< loop.from
          BY <1>2, <1>3, <1>4, <3>3, <4>3
        <5>2. QED BY <1>1, <1>2, <5>1 DEF PastUpTo
      <4>4. QED BY <4>1, <4>2, <4>3
    <3>4. QED BY <1>1, <1>2, <2>1, <3>3 DEF PastUpTo
  <2>3. CASE ~ Due /\ control.enabled
    <3>1. stop = NoStop /\ machine.frame % control.interval # 0
      BY <2>3 DEF Due
    <3>2. ASSUME NEW k \in 1 .. n, checkpoints[k].state.frame =< machine.frame
          PROVE  checkpoints[k].state.frame =< loop.from
      <4>1. checkpoints[k].state.frame % control.interval = 0
        BY <1>1, <1>2 DEF AllDue
      <4>2. checkpoints[k].state.frame # machine.frame
        BY <3>1, <4>1
      <4>3. QED BY <1>2, <1>3, <1>5, <3>1, <3>2, <4>2
    <3>3. QED BY <1>1, <1>2, <2>1, <3>2 DEF PastUpTo
  <2>4. CASE ~ control.enabled
    <3>1. checkpoints = <<>>
      BY <1>1, <2>4 DEF AllDue
    <3>2. QED BY <1>1, <2>1, <3>1 DEF PastUpTo
  <2>5. QED BY <2>2, <2>3, <2>4
<1>8. QED BY <1>6, <1>7

-----------------------------------------------------------------------------
(* Each action keeps the invariant. *)

LEMMA HostSettingsKeep ==
  ASSUME IInv, UNCHANGED <<machine, checkpoints, generation, loop>>,
         DOMAIN baselines' = DOMAIN stops'.watches, stops' \in StopSets,
         \/ UNCHANGED <<control, mixed>>
         \/ \E c \in Controls :
              /\ control' = c
              /\ mixed' = (mixed \/ c.enabled # control.enabled \/ c.interval # control.interval)
  PROVE  IInv'
<1>1. SessionTypes'
  BY DEF IInv, SessionTypes
<1>2. LoopInFrame' /\ GoesOn'
  BY DEF IInv, LoopInFrame, Idle, GoesOn, GoesOnFrom
<1>3. Settled' = Settled
  BY DEF Settled, Idle
<1>4. ASSUME ~ mixed'
      PROVE  ~ mixed /\ control'.enabled = control.enabled /\ control'.interval = control.interval
  <2>1. CASE UNCHANGED <<control, mixed>>
    BY <1>4, <2>1
  <2>2. ASSUME NEW c \in Controls, control' = c,
               mixed' = (mixed \/ c.enabled # control.enabled \/ c.interval # control.interval)
        PROVE  ~ mixed /\ control'.enabled = control.enabled /\ control'.interval = control.interval
    <3>1. ~ (mixed \/ c.enabled # control.enabled \/ c.interval # control.interval)
      BY <1>4, <2>2, Zenon
    <3>2. QED BY <2>2, <3>1, Zenon
  <2>3. QED BY <2>1, <2>2
<1>5. OnItsPast'
  <2> SUFFICES ASSUME ~ mixed' PROVE (AllDue(checkpoints) /\ PastUpTo(checkpoints, machine, Settled))'
    BY DEF OnItsPast
  <2>1. AllDue(checkpoints) /\ PastUpTo(checkpoints, machine, Settled)
    BY <1>4 DEF IInv, OnItsPast
  <2>2. AllDue(checkpoints)'
    BY <2>1, <1>4 DEF AllDue
  <2>3. PastUpTo(checkpoints, machine, Settled)'
    BY <2>1, <1>3 DEF PastUpTo, Superseded
  <2>4. QED BY <2>2, <2>3
<1>6. QED BY <1>1, <1>2, <1>5 DEF IInv

LEMMA SetReplayControlKeeps ==
  ASSUME IInv, NEW c \in Controls, SetReplayControl(c)
  PROVE  IInv'
<1>1. /\ UNCHANGED <<machine, stops, baselines, checkpoints, generation, loop>> /\ control' = c
      /\ mixed' = (mixed \/ c.enabled # control.enabled \/ c.interval # control.interval)
  BY DEF SetReplayControl
<1>2. DOMAIN baselines' = DOMAIN stops'.watches /\ stops' \in StopSets
  BY <1>1 DEF IInv, SessionTypes
<1>3. QED BY <1>1, <1>2, HostSettingsKeep

LEMMA SetStopConditionsKeeps ==
  ASSUME IInv, NEW s \in StopSets, SetStopConditions(s)
  PROVE  IInv'
<1>1. /\ UNCHANGED <<machine, checkpoints, generation, loop, control, mixed>>
      /\ stops' = s /\ baselines' = Sampled(machine, s.watches)
  BY DEF SetStopConditions, replay
<1>2. DOMAIN baselines' = DOMAIN stops'.watches
  BY <1>1 DEF Sampled
<1>3. QED BY <1>1, <1>2, HostSettingsKeep

LEMMA LoadStateKeeps ==
  ASSUME IInv, LoadState
  PROVE  IInv'
<1>1. /\ machine' = Start /\ baselines' = Sampled(Start, stops.watches)
      /\ checkpoints' = <<>> /\ generation' = 0 /\ mixed' = FALSE
      /\ UNCHANGED <<stops, control, loop>> /\ Idle
  BY DEF LoadState
<1>2. SessionTypes'
  <2>1. machine' \in Machines /\ generation' \in Nat
    BY <1>1, StartIsAMachine
  <2>2. DOMAIN baselines' = DOMAIN stops'.watches
    BY <1>1 DEF Sampled
  <2>3. checkpoints' \in Seq(Checkpoints)
    BY <1>1, EmptySeq
  <2>4. QED BY <1>1, <2>1, <2>2, <2>3 DEF IInv, SessionTypes
<1>3. LoopInFrame'
  BY <1>1 DEF LoopInFrame, Idle
<1>4. GoesOn'
  BY <1>1, EmptySeq DEF GoesOn, GoesOnFrom
<1>5. OnItsPast'
  BY <1>1, EmptySeq DEF OnItsPast, AllDue, PastUpTo
<1>6. QED BY <1>2, <1>3, <1>4, <1>5 DEF IInv

(* The run begins in the frame the machine is in. *)
LEMMA RunFramesKeeps ==
  ASSUME IInv, NEW n \in RunLengths, RunFrames(n)
  PROVE  IInv'
<1>1. /\ baselines' = Sampled(machine, stops.watches) /\ Idle
      /\ loop' = [left |-> n, from |-> machine.frame]
      /\ UNCHANGED <<machine, stops, control, checkpoints, generation, mixed>>
  BY DEF RunFrames, replay
<1>2. machine.frame \in Nat /\ n \in Nat
  BY MachineTypes, DebugSessionAssumption DEF IInv, SessionTypes
<1>3. SessionTypes'
  <2>1. DOMAIN baselines' = DOMAIN stops'.watches
    BY <1>1 DEF Sampled
  <2>2. QED BY <1>1, <1>2, <2>1 DEF IInv, SessionTypes
<1>4. LoopInFrame' /\ GoesOn'
  BY <1>1, ZenonT(120) DEF IInv, LoopInFrame, Idle, GoesOn, GoesOnFrom
<1>5. Settled' = Settled
  BY <1>1 DEF Settled, Idle
<1>6. OnItsPast'
  BY <1>1, <1>5 DEF IInv, OnItsPast, AllDue, PastUpTo, Superseded
<1>7. QED BY <1>3, <1>4, <1>6 DEF IInv

(* A rewind between runs goes to the machine's past, unless futures given  *)
(* up may be taken for it.                                                 *)
LEMMA RewindFramesKeeps ==
  ASSUME IInv, NEW back \in 1 .. MaxFrame, RewindFrames(back)
  PROVE  /\ IInv'
         /\ generation' > generation /\ ~ mixed' =>
              IsPrefix(machine'.seen, machine.seen) /\ machine'.frame =< machine.frame
<1>1. /\ Rewound(checkpoints, RewindTo(checkpoints, back)) /\ Idle
      /\ UNCHANGED <<stops, control, checkpoints, loop, mixed>>
  BY DEF RewindFrames
<1>2. SessionTypes /\ checkpoints \in Seq(Checkpoints) /\ back \in Nat
      /\ GoesOnFrom(checkpoints, generation, machine)
  BY DebugSessionAssumption DEF IInv, SessionTypes, GoesOn
<1>3. SessionTypes'
  <2>1. /\ machine' \in Machines /\ DOMAIN baselines' = DOMAIN stops.watches
        /\ generation' \in Nat
    BY <1>1, <1>2, RewoundTypes
  <2>2. QED BY <1>1, <1>2, <2>1 DEF SessionTypes
<1>4. LoopInFrame'
  BY <1>1 DEF LoopInFrame, Idle
<1>5. GoesOn'
  <2>1. GoesOnFrom(checkpoints, generation', machine')
    BY <1>1, <1>2, RewindGoesOn
  <2>2. QED BY <1>1, <2>1 DEF GoesOn, GoesOnFrom
<1>6. ASSUME ~ mixed
      PROVE  /\ AllDue(checkpoints) /\ PastUpTo(checkpoints, machine', machine'.frame)
             /\ generation' > generation =>
                  IsPrefix(machine'.seen, machine.seen) /\ machine'.frame =< machine.frame
  <2>1. AllDue(checkpoints) /\ PastUpTo(checkpoints, machine, machine.frame)
    BY <1>1, <1>6 DEF IInv, OnItsPast, Settled
  <2>2. QED BY <1>1, <1>2, <2>1, RewindKeepsThePast
<1>7. OnItsPast'
  <2>1. Settled' = machine'.frame
    BY <1>1 DEF Settled, Idle
  <2>2. AllDue(checkpoints)' <=> AllDue(checkpoints)
    BY <1>1 DEF AllDue
  <2>3. QED BY <1>1, <1>6, <2>1, <2>2 DEF OnItsPast, PastUpTo, Superseded
<1>8. QED BY <1>1, <1>3, <1>4, <1>5, <1>6, <1>7 DEF IInv

(* A step, of the host or of a run, leaves the checkpoints as they are. *)
LEMMA SteppingKeeps ==
  ASSUME IInv, NEW key \in Keys, DebugStep(key),
         UNCHANGED <<stops, control, checkpoints, generation, loop>>, mixed' \in BOOLEAN,
         mixed => mixed', LoopInFrame', ~ mixed' => Settled' = Settled \/ checkpoints = <<>>
  PROVE  IInv'
<1>1. /\ machine' \in Machines /\ DOMAIN baselines' = DOMAIN baselines
      /\ IsPrefix(machine.seen, machine'.seen)
  BY DebugStepGoesOn DEF IInv
<1>2. machine \in Machines /\ checkpoints \in Seq(Checkpoints)
  BY DEF IInv, SessionTypes
<1>3. SessionTypes'
  BY <1>1 DEF IInv, SessionTypes
<1>4. GoesOn'
  <2>1. GoesOnFrom(checkpoints, generation, machine')
    BY <1>1, <1>2, GoingOnKeepsGoing DEF IInv, GoesOn
  <2>2. QED BY <2>1 DEF GoesOn, GoesOnFrom
<1>5. OnItsPast'
  <2> SUFFICES ASSUME ~ mixed' PROVE (AllDue(checkpoints) /\ PastUpTo(checkpoints, machine, Settled))'
    BY DEF OnItsPast
  <2>1. AllDue(checkpoints) /\ PastUpTo(checkpoints, machine, Settled)
    BY DEF IInv, OnItsPast
  <2>2. AllDue(checkpoints)'
    BY <2>1 DEF AllDue
  <2>3. PastUpTo(checkpoints, machine', Settled)
    BY <1>1, <1>2, <2>1, GoingOnKeepsThePast
  <2>4. PastUpTo(checkpoints, machine, Settled)'
    BY <2>3, EmptySeq DEF PastUpTo, Superseded
  <2>5. QED BY <2>2, <2>4
<1>6. QED BY <1>3, <1>4, <1>5 DEF IInv

LEMMA SingleStepKeeps ==
  ASSUME IInv, NEW key \in Keys, SingleStep(key)
  PROVE  IInv'
<1>1. /\ DebugStep(key) /\ Idle
      /\ UNCHANGED <<stops, control, checkpoints, generation, loop>>
      /\ mixed' = (mixed \/ (control.enabled /\ machine'.frame # machine.frame))
  BY DEF SingleStep
<1>2. mixed' \in BOOLEAN /\ (mixed => mixed') /\ LoopInFrame'
  BY <1>1 DEF IInv, SessionTypes, LoopInFrame, Idle
<1>3. ASSUME ~ mixed'
      PROVE  Settled' = Settled \/ checkpoints = <<>>
  <2>1. ~ (mixed \/ (control.enabled /\ machine'.frame # machine.frame))
    BY <1>1, <1>3, Zenon
  <2>2. Settled = machine.frame /\ Settled' = machine'.frame
    BY <1>1 DEF Settled, Idle
  <2>3. CASE ~ control.enabled
    BY <2>1, <2>3 DEF IInv, OnItsPast, AllDue
  <2>4. QED BY <2>1, <2>2, <2>3, Zenon
<1>4. QED BY <1>1, <1>2, <1>3, SteppingKeeps

LEMMA StepInRunKeeps ==
  ASSUME IInv, NEW key \in Keys, StepInRun(key)
  PROVE  IInv'
<1>1. /\ DebugStep(key) /\ ~ Idle /\ ~ FrameOver
      /\ UNCHANGED <<stops, control, checkpoints, generation, loop, mixed>>
  BY DEF StepInRun, replay
<1>2. machine.frame = loop.from
  BY <1>1 DEF FrameOver
<1>3. \/ machine'.frame = machine.frame
      \/ machine'.frame = machine.frame + 1 /\ machine'.at = 0
  BY <1>1, DebugStepGoesOn DEF IInv
<1>4. LoopInFrame'
  BY <1>1, <1>2, <1>3 DEF LoopInFrame
<1>5. Settled' = Settled /\ mixed' \in BOOLEAN /\ (mixed => mixed')
  BY <1>1 DEF Settled, Idle, IInv, SessionTypes
<1>6. QED BY <1>1, <1>4, <1>5, SteppingKeeps

(* The end of a turn: what it captures, and where it rewinds to. *)
LEMMA EndFrameKeeps ==
  ASSUME IInv, EndFrame
  PROVE  /\ IInv'
         /\ generation' > generation /\ ~ mixed' =>
              IsPrefix(machine'.seen, machine.seen) /\ machine'.frame =< machine.frame
<1> DEFINE halts == StopAtFrameEnd # NoStop
           back == IF halts THEN control.auto ELSE 0
<1>1. /\ ~ Idle /\ FrameOver
      /\ checkpoints' = Kept
      /\ Rewound(Kept, RewindTo(Kept, back))
      /\ loop' = IF halts THEN [loop EXCEPT !.left = 0]
                 ELSE [left |-> loop.left - 1, from |-> machine.frame]
      /\ mixed' = \/ mixed
                  \/ (Captures /\ stop # NoStop)
                  \/ (Due /\ ~ Captures /\ (Kept = <<>> \/ Last(Kept).state # machine))
      /\ UNCHANGED <<stops, control>>
  BY DEF EndFrame, Kept
<1>2. SessionTypes /\ Kept \in Seq(Checkpoints) /\ GoesOnFrom(Kept, generation, machine)
  BY KeptGoesOn DEF IInv
<1>3. back \in Nat /\ loop.left \in Nat \ {0} /\ loop.from \in Nat
  BY <1>1, <1>2, DebugSessionAssumption DEF SessionTypes, Idle
<1>4. machine \in Machines /\ machine.frame \in Nat
  BY <1>2, MachineTypes DEF SessionTypes
<1>5. ~ halts => machine' = machine
  BY <1>1 DEF RewindTo, Rewound
<1> HIDE DEF back
<1>6. SessionTypes'
  <2>1. /\ machine' \in Machines /\ DOMAIN baselines' = DOMAIN stops.watches
        /\ generation' \in Nat
    BY <1>1, <1>2, <1>3, RewoundTypes
  <2>2. loop' \in [left : Nat, from : Nat]
    <3>1. loop \in [left : Nat, from : Nat]
      BY <1>2 DEF SessionTypes
    <3> HIDE DEF halts
    <3>2. QED BY <1>1, <1>3, <1>4, <3>1
  <2>3. mixed' \in BOOLEAN
    BY <1>1
  <2>4. QED BY <1>1, <1>2, <2>1, <2>2, <2>3 DEF SessionTypes
<1>7. LoopInFrame'
  <2>1. CASE halts
    <3>1. loop'.left = 0
      BY <1>1, <1>2, <2>1 DEF SessionTypes
    <3>2. QED BY <3>1 DEF LoopInFrame, Idle
  <2>2. CASE ~ halts
    <3>1. loop'.from = machine'.frame
      BY <1>1, <1>5, <2>2
    <3>2. QED BY <3>1 DEF LoopInFrame
  <2>3. QED BY <2>1, <2>2
<1>8. GoesOn'
  <2>1. GoesOnFrom(Kept, generation', machine')
    BY <1>1, <1>2, RewindGoesOn
  <2> DEFINE cs == Kept
  <2>2. GoesOnFrom(cs, generation', machine')
    BY <2>1
  <2> HIDE DEF cs
  <2>3. checkpoints' = cs
    BY <1>1 DEF cs
  <2>4. QED BY <2>2, <2>3 DEF GoesOn, GoesOnFrom
<1>9. ASSUME ~ mixed'
      PROVE  /\ AllDue(Kept) /\ PastUpTo(Kept, machine', machine'.frame)
             /\ generation' > generation =>
                  IsPrefix(machine'.seen, machine.seen) /\ machine'.frame =< machine.frame
  <2>1. /\ ~ mixed /\ ~ (Captures /\ stop # NoStop)
        /\ ~ (Due /\ ~ Captures /\ (Kept = <<>> \/ Last(Kept).state # machine))
    BY <1>1, <1>9, Zenon
  <2>2. AllDue(Kept) /\ PastUpTo(Kept, machine, machine.frame)
    BY <1>1, <2>1, KeptIsThePast
  <2>3. QED BY <1>1, <1>2, <1>3, <2>2, RewindKeepsThePast
<1>10. OnItsPast'
  <2> DEFINE cs == Kept
  <2>1. Settled' = machine'.frame
    <3>1. CASE halts
      <4>1. loop'.left = 0
        BY <1>1, <1>2, <3>1 DEF SessionTypes
      <4>2. QED BY <4>1 DEF Settled, Idle
    <3>2. CASE ~ halts
      <4>1. loop'.from = machine'.frame
        BY <1>1, <1>5, <3>2
      <4>2. QED BY <4>1 DEF Settled, Idle
    <3>3. QED BY <3>1, <3>2
  <2>2. ~ mixed' => AllDue(cs) /\ PastUpTo(cs, machine', machine'.frame)
    BY <1>9
  <2>3. checkpoints' = cs
    BY <1>1
  <2> HIDE DEF cs
  <2>4. control' = control
    BY <1>1
  <2>5. QED BY <2>1, <2>2, <2>3, <2>4 DEF OnItsPast, AllDue, PastUpTo, Superseded
<1>11. QED BY <1>6, <1>7, <1>8, <1>9, <1>10 DEF IInv

LEMMA StutterKeeps ==
  ASSUME IInv, UNCHANGED vars
  PROVE  IInv'
BY DEF IInv, vars, SessionTypes, LoopInFrame, Idle, GoesOn, GoesOnFrom, OnItsPast, Settled,
       AllDue, PastUpTo, Superseded

(* Every step keeps the invariant, and one that begins a generation goes   *)
(* to the machine's past.                                                  *)
LEMMA NextKeeps ==
  ASSUME IInv, [Next]_vars
  PROVE  /\ IInv'
         /\ generation' > generation /\ ~ mixed' =>
              IsPrefix(machine'.seen, machine.seen) /\ machine'.frame =< machine.frame
<1>0. generation \in Nat
  BY DEF IInv, SessionTypes
<1>1. ASSUME NEW c \in Controls, SetReplayControl(c) PROVE IInv' /\ generation' = generation
  BY <1>1, SetReplayControlKeeps DEF SetReplayControl
<1>2. ASSUME NEW s \in StopSets, SetStopConditions(s) PROVE IInv' /\ generation' = generation
  BY <1>2, SetStopConditionsKeeps DEF SetStopConditions, replay
<1>3. ASSUME LoadState PROVE IInv' /\ generation' = 0
  BY <1>3, LoadStateKeeps DEF LoadState
<1>4. ASSUME NEW n \in RunLengths, RunFrames(n) PROVE IInv' /\ generation' = generation
  BY <1>4, RunFramesKeeps DEF RunFrames, replay
<1>5. ASSUME NEW key \in Keys, SingleStep(key) PROVE IInv' /\ generation' = generation
  BY <1>5, SingleStepKeeps DEF SingleStep
<1>6. ASSUME NEW key \in Keys, StepInRun(key) PROVE IInv' /\ generation' = generation
  BY <1>6, StepInRunKeeps DEF StepInRun, replay
<1>7. ASSUME UNCHANGED vars PROVE IInv' /\ generation' = generation
  BY <1>7, StutterKeeps DEF vars
<1>8. QED BY <1>0, <1>1, <1>2, <1>3, <1>4, <1>5, <1>6, <1>7, RewindFramesKeeps, EndFrameKeeps
          DEF Next, Host

-----------------------------------------------------------------------------
(* The number and the kind of what is kept of the machine's past are right *)
(* whatever the host does (session.rs, maybe_record_replay_checkpoint,     *)
(* rewind_frames): the invariant of the lemmas above holds always.         *)
THEOREM SessionKeepsItsPast == Spec => []IInv
<1>1. IInv /\ [Next]_vars => IInv'
  BY NextKeeps
<1>2. QED BY InitHolds, <1>1, PTL DEF Spec

(* Checkpoints stay numbered without a gap and in order, whatever is       *)
(* evicted, and every rewind, by hand or at a stop, goes to the machine's  *)
(* own past while every due frame was captured (session.rs, rewind_frames).*)
THEOREM RewindsServe == Spec => CheckpointsServe
<1>1. IInv => CheckpointsGoForward
  BY DEF IInv, GoesOn, GoesOnFrom, CheckpointsGoForward
<1>2. IInv /\ [Next]_vars =>
        [generation' > generation /\ ~ mixed' =>
           IsPrefix(machine'.seen, machine.seen) /\ machine'.frame =< machine.frame]_vars
  BY NextKeeps
<1>3. QED BY SessionKeepsItsPast, <1>1, <1>2, PTL
          DEF Spec, CheckpointsServe, RewindsToItsPast

-----------------------------------------------------------------------------
(* Baselines that were just taken are not out of date. *)
LEMMA SampledIsFresh ==
  ASSUME baselines' = Sampled(machine', stops'.watches)
  PROVE  StaleOnlyBehindStop'
BY DEF StaleOnlyBehindStop, Changed, Sampled

LEMMA SameStopSameStale ==
  ASSUME StaleOnlyBehindStop, UNCHANGED <<machine, stops, baselines>>,
         stop = NoStop \/ stop' = stop
  PROVE  StaleOnlyBehindStop'
BY DEF StaleOnlyBehindStop, Changed, NoStop

(* The windows behind the first change keep their baselines, and the stop  *)
(* tells which it was.                                                     *)
LEMMA StepLeavesStaleBehind ==
  ASSUME SessionTypes, StaleOnlyBehindStop, NEW key \in Keys, DebugStep(key), stops' = stops
  PROVE  StaleOnlyBehindStop'
<1>1. CASE stop'.kind = "breakpoint"
  BY <1>1 DEF StaleOnlyBehindStop
<1>2. ASSUME NEW m, machine' = m, baselines' = BaselinesAfter(m), stop' = StopAfter(m)
      PROVE  StaleOnlyBehindStop'
  <2>1. Changed(m) \subseteq Nat
    <3>1. DOMAIN baselines = 1 .. Len(stops.watches) /\ Len(stops.watches) \in Nat
      BY DebugSessionAssumption DEF SessionTypes
    <3>2. QED BY <3>1 DEF Changed
  <2>2. ASSUME NEW i \in Changed(machine)'
        PROVE  stop'.kind = "watchpoint" /\ stop'.index < i
    <3>1. /\ i \in DOMAIN baselines
          /\ BaselinesAfter(m)[i] # Bytes(m, stops.watches[i])
      BY <1>2, <2>2 DEF Changed, BaselinesAfter
    <3>2. ~ \A j \in Changed(m) : i =< j
      BY <3>1 DEF BaselinesAfter
    <3>3. PICK j \in Changed(m) : ~ (i =< j)
      BY <3>2
    <3>4. Min(Changed(m)) \in Nat /\ Min(Changed(m)) =< j
      BY <2>1, <3>3, MinIsLeast
    <3>5. stop' = [kind |-> "watchpoint", index |-> Min(Changed(m))]
      BY <1>2, <3>3 DEF StopAfter
    <3>6. i \in Nat /\ j \in Nat
      BY <2>1, <3>1, <3>3, DebugSessionAssumption DEF SessionTypes
    <3>7. Min(Changed(m)) < i
      BY <3>3, <3>4, <3>6
    <3>8. QED BY <3>5, <3>7
  <2>3. QED BY <2>2 DEF StaleOnlyBehindStop
<1>3. QED BY <1>1, <1>2 DEF DebugStep

LEMMA RewoundIsFresh ==
  ASSUME StaleOnlyBehindStop, NEW cs, NEW i, Rewound(cs, i), stops' = stops,
         stop = NoStop \/ stop' = stop
  PROVE  StaleOnlyBehindStop'
<1>1. CASE i = 0
  BY <1>1, SameStopSameStale DEF Rewound
<1>2. CASE i # 0
  BY <1>2, SampledIsFresh DEF Rewound
<1>3. QED BY <1>1, <1>2

LEMMA NextLeavesStaleBehind ==
  ASSUME IInv, StaleOnlyBehindStop, [Next]_vars
  PROVE  StaleOnlyBehindStop'
<1>0. SessionTypes
  BY DEF IInv
<1>1. ASSUME NEW c \in Controls, SetReplayControl(c) PROVE StaleOnlyBehindStop'
  BY <1>1, SameStopSameStale DEF SetReplayControl
<1>2. ASSUME NEW s \in StopSets, SetStopConditions(s) PROVE StaleOnlyBehindStop'
  BY <1>2, SampledIsFresh DEF SetStopConditions
<1>3. ASSUME LoadState PROVE StaleOnlyBehindStop'
  BY <1>3, SampledIsFresh DEF LoadState
<1>4. ASSUME NEW n \in RunLengths, RunFrames(n) PROVE StaleOnlyBehindStop'
  BY <1>4, SampledIsFresh DEF RunFrames
<1>5. ASSUME NEW back \in 1 .. MaxFrame, RewindFrames(back) PROVE StaleOnlyBehindStop'
  BY <1>5, RewoundIsFresh DEF RewindFrames
<1>6. ASSUME NEW key \in Keys, SingleStep(key) PROVE StaleOnlyBehindStop'
  BY <1>0, <1>6, StepLeavesStaleBehind DEF SingleStep
<1>7. ASSUME NEW key \in Keys, StepInRun(key) PROVE StaleOnlyBehindStop'
  BY <1>0, <1>7, StepLeavesStaleBehind DEF StepInRun
<1>8. ASSUME EndFrame PROVE StaleOnlyBehindStop'
  <2>1. PICK cs, i : Rewound(cs, i) /\ stop' = StopAtFrameEnd /\ stops' = stops
    BY <1>8 DEF EndFrame
  <2>2. stop = NoStop \/ stop' = stop
    BY <2>1 DEF StopAtFrameEnd
  <2>3. QED BY <2>1, <2>2, RewoundIsFresh
<1>9. CASE UNCHANGED vars
  BY <1>9, SameStopSameStale DEF vars
<1>10. QED BY <1>1, <1>2, <1>3, <1>4, <1>5, <1>6, <1>7, <1>8, <1>9 DEF Next, Host

(* No change of a watched window is overlooked: wherever a baseline is out *)
(* of date the session stands at a breakpoint or at a watchpoint listed    *)
(* before it (stop.rs, check_watchpoints_after_step and                    *)
(* refresh_stop_watchpoint_baselines).                                     *)
THEOREM NoChangeOverlooked == Spec => []StaleOnlyBehindStop
<1>1. Init => StaleOnlyBehindStop
  BY DEF Init, StaleOnlyBehindStop, Changed, Sampled
<1>2. QED BY <1>1, SessionKeepsItsPast, NextLeavesStaleBehind, PTL DEF Spec

-----------------------------------------------------------------------------
(* Counting in a sequence                                                    *)

(* Where from a to b the members are in E, and how often. *)
Where(s, a, b, E) == {i \in a .. b : s[i] \in E}
Told(s, a, b, E) == Cardinality(Where(s, a, b, E))

(* What is counted is finite, and a number. *)
LEMMA ToldType ==
  ASSUME NEW s, NEW a \in Int, NEW b \in Int, NEW E
  PROVE  IsFiniteSet(Where(s, a, b, E)) /\ Told(s, a, b, E) \in Nat
<1>1. IsFiniteSet(Where(s, a, b, E))
  <2>1. IsFiniteSet(a .. b)
    BY FS_Interval
  <2> QED
    BY <2>1, FS_Subset DEF Where
<1> QED
  BY <1>1, FS_CardinalityType DEF Told

(* A part counts no more than the whole. *)
LEMMA ToldMore ==
  ASSUME NEW s, NEW a \in Int, NEW b \in Int, NEW E, NEW x \in Int, NEW y \in Int, a =< x, y =< b
  PROVE  Told(s, x, y, E) =< Told(s, a, b, E)
<1>1. Where(s, x, y, E) \in SUBSET Where(s, a, b, E)
  BY DEF Where
<1>2. IsFiniteSet(Where(s, a, b, E))
  BY ToldType
<1> QED
  BY <1>1, <1>2, FS_Subset DEF Told

(* The counts of two parts are added. *)
LEMMA ToldSplit ==
  ASSUME NEW s, NEW a \in Int, NEW m \in Int, NEW b \in Int, NEW E, a =< m + 1, m =< b
  PROVE  Told(s, a, b, E) = Told(s, a, m, E) + Told(s, m + 1, b, E)
<1> DEFINE S == Where(s, a, m, E)
           T == Where(s, m + 1, b, E)
<1>1. IsFiniteSet(S) /\ IsFiniteSet(T) /\ Cardinality(S) \in Nat /\ Cardinality(T) \in Nat
  <2>1. m + 1 \in Int
    OBVIOUS
  <2> QED
    BY <2>1, ToldType, Zenon DEF Told
<1>2. S \cap T = {} /\ S \cup T = Where(s, a, b, E)
  BY DEF Where
<1>3. Told(s, a, m, E) = Cardinality(S) /\ Told(s, m + 1, b, E) = Cardinality(T)
      /\ Told(s, a, b, E) = Cardinality(S \cup T)
  BY <1>2 DEF Told
<1> HIDE DEF S, T
<1>4. Cardinality(S \cup T) = Cardinality(S) + Cardinality(T) - Cardinality(S \cap T)
  BY <1>1, FS_Union
<1>5. Cardinality(S \cap T) = 0
  BY <1>2, FS_EmptySet
<1> QED
  BY <1>1, <1>3, <1>4, <1>5

(* Nothing, and one. *)
LEMMA ToldNone ==
  ASSUME NEW s, NEW a \in Int, NEW b \in Int, NEW E, b < a
  PROVE  Told(s, a, b, E) = 0
<1>1. Where(s, a, b, E) = {}
  BY DEF Where
<1> QED
  BY <1>1, FS_EmptySet DEF Told

(* One member is counted once or not. *)
LEMMA ToldOne ==
  ASSUME NEW s, NEW a \in Int, NEW E
  PROVE  Told(s, a, a, E) = IF s[a] \in E THEN 1 ELSE 0
<1>1. CASE s[a] \in E
  <2>1. Where(s, a, a, E) = {a}
    BY <1>1 DEF Where
  <2> QED
    BY <1>1, <2>1, FS_Singleton DEF Told
<1>2. CASE s[a] \notin E
  <2>1. Where(s, a, a, E) = {}
    BY <1>2 DEF Where
  <2> QED
    BY <1>2, <2>1, FS_EmptySet DEF Told
<1> QED
  BY <1>1, <1>2

(* The same members elsewhere. *)
LEMMA ToldShift ==
  ASSUME NEW s, NEW t, NEW a \in Int, NEW b \in Int, NEW x \in Int, NEW y \in Int, NEW E,
         y - x = b - a, \A p \in x .. y, q \in a .. b : p - x = q - a => t[p] = s[q]
  PROVE  Told(t, x, y, E) = Told(s, a, b, E)
<1> DEFINE d == x - a
           S == Where(s, a, b, E)
           T == Where(t, x, y, E)
           f == [i \in S |-> i + d]
<1>0. \A i \in a .. b : i + d \in x .. y /\ t[i + d] = s[i]
  <2> TAKE i \in a .. b
  <2>1. i + d \in x .. y /\ (i + d) - x = i - a
    OBVIOUS
  <2> QED
    BY <2>1
<1>1. f \in [S -> T]
  BY <1>0 DEF Where
<1>2. \A p, q \in S : f[p] = f[q] => p = q
  BY DEF Where
<1>3. \A q \in T : \E p \in S : f[p] = q
  <2> TAKE q \in T
  <2>1. q - d \in a .. b /\ (q - d) + d = q
    BY DEF Where
  <2>2. q - d \in S
    BY <1>0, <2>1 DEF Where
  <2> QED
    BY <2>1, <2>2
<1>4. IsFiniteSet(S)
  BY ToldType
<1> HIDE DEF S, T, f
<1>5. f \in Bijection(S, T)
  BY <1>1, <1>2, <1>3 DEF Bijection, Injection, Surjection, IsInjective
<1>6. Cardinality(T) = Cardinality(S)
  BY <1>4, <1>5, FS_Bijection DEF ExistsBijection
<1> QED
  BY <1>6 DEF Told, S, T

(* What is counted where two sequences agree. *)
LEMMA ToldSame ==
  ASSUME NEW s, NEW t, NEW a \in Int, NEW b \in Int, NEW E, \A i \in a .. b : t[i] = s[i]
  PROVE  Told(t, a, b, E) = Told(s, a, b, E)
<1>1. Where(t, a, b, E) = Where(s, a, b, E)
  BY DEF Where
<1> QED
  BY <1>1 DEF Told

(* What is counted of a sequence with more behind it. *)
LEMMA ToldJoined ==
  ASSUME NEW S, NEW s \in Seq(S), NEW t \in Seq(S), NEW E, NEW a \in 1 .. Len(s) + 1
  PROVE  Told(s \o t, a, Len(s \o t), E) = Told(s, a, Len(s), E) + Told(t, 1, Len(t), E)
<1> DEFINE j == Len(s)
           k == Len(t)
           u == s \o t
<1>1. j \in Nat /\ k \in Nat
  BY LenProperties
<1>2. /\ Len(u) = j + k
      /\ \A i \in 1 .. j + k : u[i] = IF i =< j THEN s[i] ELSE t[i - j]
  BY ConcatProperties
<1> HIDE DEF u
<1>3. a \in Nat /\ 1 =< a /\ a =< j + 1
  OBVIOUS
<1> HIDE DEF j, k
<1>4. \A i \in a .. j : u[i] = s[i]
  BY <1>1, <1>2, <1>3
<1>5. ASSUME NEW p \in j + 1 .. j + k, NEW q \in 1 .. k, p - (j + 1) = q - 1
      PROVE  u[p] = t[q]
  <2>1. p \in 1 .. j + k /\ ~ p =< j /\ p - j = q
    BY <1>1, <1>5
  <2> QED
    BY <1>2, <2>1
<1>6. Told(u, a, j, E) = Told(s, a, j, E)
  BY <1>1, <1>3, <1>4, ToldSame
<1>7. PICK x \in Int, y \in Int : x = j + 1 /\ y = j + k
  BY <1>1
<1>8. Told(u, x, y, E) = Told(t, 1, k, E)
  <2>1. \A p \in x .. y, q \in 1 .. k : p - x = q - 1 => u[p] = t[q]
    BY <1>5, <1>7
  <2>2. 1 \in Int /\ k \in Int /\ y - x = k - 1
    BY <1>1, <1>7
  <2> QED
    BY <2>1, <2>2, ToldShift
<1>9. Told(u, a, y, E) = Told(u, a, j, E) + Told(u, j + 1, y, E)
  <2>1. a \in Int /\ j \in Int /\ a =< j + 1 /\ j =< y
    BY <1>1, <1>3, <1>7
  <2> QED
    BY <2>1, ToldSplit
<1> QED
  BY <1>2, <1>6, <1>7, <1>8, <1>9 DEF j, k, u

(* The kinds of events the session adds to the traces. *)
OwnKinds == {"BankSwitch", "FarCallSuspected", "BankThrashSuspected", "TimerInterrupt",
             "BankReturnMissing", "ReplayCheckpointSaved"}

Entries == [kind : Log!TraceKinds \union OwnKinds, flag : BOOLEAN, from : Nat, to : Nat]
Thunks == [back : Banks, at : Nat]
Pixels == 0 .. 1

Baselines == [frame : Int, picture : -1 .. 1, vram : Pixels, last : -1 .. 1, timer : BOOLEAN]

(* The types of the log and of what is kept beside it. *)
EventTypes ==
  /\ frames \in Nat /\ bank \in Banks /\ vram \in Pixels /\ picture \in Pixels /\ pc \in 0 .. 2
  /\ iflag \in BOOLEAN /\ calls \in Seq(Thunks) /\ log \in Seq(Entries)
  /\ counts \in [Log!Counters -> Nat]
  /\ baseline \in Baselines
  /\ changed \in [screen : BOOLEAN, vram : BOOLEAN]
  /\ thrash \in [last : Seq(Banks), streak : Nat, score : Nat]
  /\ pending \in Seq([expected : Banks, started : Nat, reported : BOOLEAN])
  /\ pcs \in [recent : Seq(0 .. 2), best : Nat]
  /\ captured \in Seq([log : Nat, samples : Nat, run : Nat]) /\ samples \in Nat
  /\ since \in [log : Nat, switches : Seq([from : Banks, to : Banks, thunk : BOOLEAN]),
                shown : Seq(Pixels), held : Seq(Pixels), pcs : Seq(0 .. 2), calls : Nat,
                loaded : BOOLEAN, moved : BOOLEAN]
  /\ since.log =< Len(log) /\ since.calls =< Len(calls) /\ since.shown # <<>> /\ since.held # <<>>

(* A step of the program: the machine after it, what it traced, and the      *)
(* bank of the thunk it is in, if any.                                       *)
ProgramStates == [frames : Nat, bank : Banks, vram : Pixels, picture : Pixels, pc : 0 .. 2,
             iflag : BOOLEAN, calls : Seq(Thunks)]
Moves(m, trace, target) ==
  /\ m \in ProgramStates /\ trace \in Seq(Entries)
  /\ \A i \in 1 .. Len(trace) : trace[i].kind \in Log!TraceKinds
  /\ \/ m.bank = bank /\ m.calls = calls /\ target = 0
     \/ m.bank \in Banks \ {bank} /\ m.calls = calls /\ target = 0 /\ "plain" \in program
     \/ m.bank \in Banks \ {bank} /\ m.calls = Append(calls, [back |-> bank, at |-> frames]) /\ target = m.bank
     \/ calls # <<>> /\ m.bank = calls[Len(calls)].back /\ target = bank
        /\ m.calls = SubSeq(calls, 1, Len(calls) - 1)

(* The parameters, as the configuration is asked for. *)
LEMMA BanksAreNumbers == 1 \in Banks /\ Banks \subseteq Nat \ {0} /\ ThrashAt \in Nat \ {0}
                         /\ PcWindow \in Nat \ {0} /\ Grace \in Nat /\ MaxCheckpoints \in Nat
  BY EventsAssumption DEF Log!EventParameters

(* The kinds of the traces are none of the log's own. *)
LEMMA TraceKindsAreTraces == Log!TraceKinds \cap OwnKinds = {}
<1> DEFINE Foreign(K) == \A k \in K : k \notin OwnKinds
<1>1. Foreign(Log!PpuKinds)
  BY DEF Log!PpuKinds, OwnKinds
<1>2. Foreign(Log!DmaKinds)
  BY DEF Log!DmaKinds, OwnKinds
<1>3. Foreign(Log!RegisterKinds)
  BY DEF Log!RegisterKinds, OwnKinds
<1>4. Foreign(Log!MapperKinds)
  BY DEF Log!MapperKinds, OwnKinds
<1>5. Foreign(Log!ApuKinds)
  BY DEF Log!ApuKinds, OwnKinds
<1>6. Foreign(Log!PcmKinds)
  BY DEF Log!PcmKinds, OwnKinds
<1>7. Foreign(Log!CgbKinds)
  BY DEF Log!CgbKinds, OwnKinds
<1>8. Foreign(Log!IoKinds)
  BY DEF Log!IoKinds, OwnKinds
<1>9. Foreign(Log!InterruptKinds)
  BY DEF Log!InterruptKinds, OwnKinds
<1>10. Foreign(Log!IntrinsicKinds)
  BY DEF Log!IntrinsicKinds, OwnKinds
<1> HIDE DEF OwnKinds
<1> QED
  BY <1>1, <1>2, <1>3, <1>4, <1>5, <1>6, <1>7, <1>8, <1>9, <1>10 DEF Log!TraceKinds

(* A sequence without its last member. *)
LEMMA FrontOfCalls ==
  ASSUME NEW S, NEW s \in Seq(S), s # <<>>
  PROVE  /\ SubSeq(s, 1, Len(s) - 1) \in Seq(S)
         /\ Len(SubSeq(s, 1, Len(s) - 1)) = Len(s) - 1
         /\ \A i \in 1 .. Len(s) - 1 : SubSeq(s, 1, Len(s) - 1)[i] = s[i]
         /\ Len(s) \in Nat \ {0} /\ s[Len(s)] \in S
<1>1. Len(s) \in Nat \ {0} /\ s[Len(s)] \in S /\ \A i \in 1 .. Len(s) - 1 : s[i] \in S
  OBVIOUS
<1>2. PICK n \in Nat : n = Len(s) - 1
  BY <1>1
<1>3. /\ SubSeq(s, 1, n) \in Seq(S)
      /\ Len(SubSeq(s, 1, n)) = IF 1 =< n THEN n - 1 + 1 ELSE 0
      /\ \A i \in 1 .. n - 1 + 1 : SubSeq(s, 1, n)[i] = s[1 + i - 1]
  <2>1. 1 \in Int /\ n \in Int /\ \A i \in 1 .. n : s[i] \in S
    BY <1>1, <1>2
  <2> QED
    BY <2>1, SubSeqProperties
<1>4. \A i \in 1 .. n : SubSeq(s, 1, n)[i] = s[i]
  BY <1>2, <1>3
<1>5. Len(SubSeq(s, 1, n)) = n
  BY <1>2, <1>3
<1> QED
  BY <1>1, <1>2, <1>3, <1>4, <1>5

(* Every step is one of the program, the end or the beginning of a run, a    *)
(* load, or a checkpoint.                                                    *)
LEMMA EventStepIsOne ==
  ASSUME EventTypes, Log!Next
  PROVE  \/ \E m, trace, target : Moves(m, trace, target) /\ Log!Step(m, trace, target)
         \/ Log!EndRun \/ Log!BeginRun \/ Log!Load \/ Log!Capture
<1> DEFINE Is(m, trace, target) == Moves(m, trace, target) /\ Log!Step(m, trace, target)
           here == Log!Here
<1>1. /\ here \in ProgramStates /\ here.bank = bank /\ here.calls = calls /\ here.frames = frames
      /\ here.iflag = iflag
  BY DEF EventTypes, Log!Here, ProgramStates
<1>2. <<>> \in Seq(Entries) /\ \A i \in 1 .. Len(<<>>) : <<>>[i].kind \in Log!TraceKinds
  OBVIOUS
<1>3. CASE Log!Device
  <2>1. PICK e \in Happenings : e.kind \in Log!TraceKinds /\ Log!Step(here, <<e>>, 0)
    BY <1>3 DEF Log!Device
  <2>2. e \in Entries
    BY EventsAssumption, TraceKindsAreTraces DEF Log!EventParameters, Entries
  <2>3. Moves(here, <<e>>, 0)
    BY <1>1, <2>1, <2>2 DEF Moves
  <2> QED
    BY <2>1, <2>3
<1>4. CASE Log!Request
  <2> DEFINE m == [here EXCEPT !.iflag = ~ iflag]
  <2>1. m \in ProgramStates /\ m.bank = bank /\ m.calls = calls
    BY <1>1 DEF ProgramStates, EventTypes
  <2>2. Moves(m, <<>>, 0)
    BY <1>2, <2>1 DEF Moves
  <2>3. Log!Step(m, <<>>, 0)
    BY <1>4 DEF Log!Request
  <2> QED
    BY <2>2, <2>3
<1>5. CASE Log!Draw
  <2>1. PICK v \in Pixels : \E m \in {[here EXCEPT !.vram = v], [here EXCEPT !.picture = v]} : Log!Step(m, <<>>, 0)
    BY <1>5 DEF Log!Draw, Pixels
  <2> PICK m \in {[here EXCEPT !.vram = v], [here EXCEPT !.picture = v]} : Log!Step(m, <<>>, 0)
    BY <2>1
  <2>2. m \in ProgramStates /\ m.bank = bank /\ m.calls = calls
    BY <1>1, <2>1 DEF ProgramStates
  <2>3. Moves(m, <<>>, 0)
    BY <1>2, <2>2 DEF Moves
  <2> QED
    BY <2>1, <2>3
<1>6. CASE Log!EndFrame
  <2> DEFINE m == [here EXCEPT !.frames = frames + 1]
  <2>0. frames + 1 \in Nat
    BY DEF EventTypes
  <2>1. m \in ProgramStates /\ m.bank = bank /\ m.calls = calls
    BY <1>1, <2>0 DEF ProgramStates
  <2>2. Moves(m, <<>>, 0)
    BY <1>2, <2>1 DEF Moves
  <2>3. Log!Step(m, <<>>, 0)
    BY <1>6 DEF Log!EndFrame
  <2> QED
    BY <2>2, <2>3
<1>7. CASE Log!Jump
  <2>1. PICK p \in 0 .. 2 : Log!Step([here EXCEPT !.pc = p], <<>>, 0)
    BY <1>7 DEF Log!Jump
  <2> DEFINE m == [here EXCEPT !.pc = p]
  <2>2. m \in ProgramStates /\ m.bank = bank /\ m.calls = calls
    BY <1>1 DEF ProgramStates
  <2>3. Moves(m, <<>>, 0)
    BY <1>2, <2>2 DEF Moves
  <2> QED
    BY <2>1, <2>3
<1>8. CASE Log!Select
  <2>1. PICK b \in Banks \ {bank} : Log!Step([here EXCEPT !.bank = b], <<>>, 0)
    BY <1>8 DEF Log!Select
  <2> DEFINE m == [here EXCEPT !.bank = b]
  <2>2. m \in ProgramStates /\ m.bank = b /\ m.calls = calls /\ "plain" \in program
    BY <1>1, <1>8 DEF ProgramStates, Log!Select
  <2>3. Moves(m, <<>>, 0)
    BY <1>2, <2>2 DEF Moves
  <2> QED
    BY <2>1, <2>3
<1>9. CASE Log!Call
  <2>1. PICK b \in Banks \ {bank} :
          Log!Step([here EXCEPT !.bank = b, !.calls = Append(@, [back |-> bank, at |-> frames])], <<>>, b)
    BY <1>9, ZenonT(120) DEF Log!Call
  <2> DEFINE m == [here EXCEPT !.bank = b, !.calls = Append(@, [back |-> bank, at |-> frames])]
  <2>2. Append(calls, [back |-> bank, at |-> frames]) \in Seq(Thunks)
    BY DEF EventTypes, Thunks
  <2>3. m \in ProgramStates /\ m.bank = b /\ m.calls = Append(calls, [back |-> bank, at |-> frames])
    BY <1>1, <2>2 DEF ProgramStates
  <2>4. Moves(m, <<>>, b)
    BY <1>2, <2>3 DEF Moves
  <2> QED
    BY <2>1, <2>4
<1>10. CASE Log!Return
  <2>1. calls # <<>> /\ Log!Step([here EXCEPT !.bank = calls[Len(calls)].back,
                                            !.calls = SubSeq(@, 1, Len(@) - 1)], <<>>, bank)
    BY <1>10 DEF Log!Return, Log!Last, Log!Front
  <2> DEFINE f == SubSeq(calls, 1, Len(calls) - 1)
             m == [here EXCEPT !.bank = calls[Len(calls)].back, !.calls = SubSeq(@, 1, Len(@) - 1)]
  <2>2. f \in Seq(Thunks) /\ calls[Len(calls)] \in Thunks
    <3>1. calls \in Seq(Thunks) /\ calls # <<>>
      BY <2>1 DEF EventTypes
    <3> QED
      BY <3>1, FrontOfCalls, Zenon
  <2>3. m \in ProgramStates /\ m.bank = calls[Len(calls)].back /\ m.calls = f
    BY <1>1, <2>2 DEF ProgramStates, Thunks
  <2>4. Moves(m, <<>>, bank)
    BY <1>2, <2>1, <2>3 DEF Moves
  <2> QED
    BY <2>1, <2>4
<1> QED
  BY <1>3, <1>4, <1>5, <1>6, <1>7, <1>8, <1>9, <1>10 DEF Log!Next

(* Max and Min, which are CHOOSEs, of two numbers. *)
LEMMA GreaterOfTwo ==
  ASSUME NEW a \in Int, NEW b \in Int
  PROVE  Log!Max({a, b}) = IF a >= b THEN a ELSE b
<1>1. \E x \in {a, b} : \A y \in {a, b} : x >= y
  OBVIOUS
<1>2. Log!Max({a, b}) \in {a, b} /\ \A y \in {a, b} : Log!Max({a, b}) >= y
  BY <1>1 DEF Log!Max
<1> QED
  BY <1>2

LEMMA LesserOfTwo ==
  ASSUME NEW a \in Int, NEW b \in Int
  PROVE  Log!Min({a, b}) = IF a =< b THEN a ELSE b
<1>1. \E x \in {a, b} : \A y \in {a, b} : x =< y
  OBVIOUS
<1>2. Log!Min({a, b}) \in {a, b} /\ \A y \in {a, b} : Log!Min({a, b}) =< y
  BY <1>1 DEF Log!Min
<1> QED
  BY <1>2

Switches == [from : Banks, to : Banks, thunk : BOOLEAN]

(* What a step adds to the history. *)
LEMMA HistoryAfter ==
  ASSUME EventTypes, NEW m, NEW trace, NEW target, Moves(m, trace, target), Log!Step(m, trace, target)
  PROVE  /\ since' \in [log : Nat, switches : Seq(Switches), shown : Seq(Pixels), held : Seq(Pixels),
                        pcs : Seq(0 .. 2), calls : Nat, loaded : BOOLEAN, moved : BOOLEAN]
         /\ since'.shown # <<>> /\ since'.held # <<>> /\ since'.calls =< Len(m.calls)
         /\ since'.log = since.log /\ since'.loaded = since.loaded /\ since'.moved = since.moved
         /\ since'.switches = IF m.bank = bank THEN since.switches
                              ELSE Append(since.switches, [from |-> bank, to |-> m.bank, thunk |-> target \in {bank, m.bank}])
         /\ since'.shown = (IF m.frames # frames THEN Append(since.shown, m.picture) ELSE since.shown)
         /\ since'.held = (IF m.frames # frames THEN Append(since.held, m.vram) ELSE since.held)
         /\ since'.pcs = Append(since.pcs, pc)
         /\ since'.calls = (IF since.calls =< Len(m.calls) THEN since.calls ELSE Len(m.calls))
<1>1. m.bank \in Banks /\ m.picture \in Pixels /\ m.vram \in Pixels /\ Len(m.calls) \in Nat
  BY DEF Moves, ProgramStates
<1>2. since.calls \in Nat
  BY DEF EventTypes
<1>3. Log!Min({since.calls, Len(m.calls)}) = IF since.calls =< Len(m.calls) THEN since.calls ELSE Len(m.calls)
  BY <1>1, <1>2, LesserOfTwo
<1>4. since' = [since EXCEPT
          !.switches = IF m.bank = bank THEN @ ELSE Append(@, [from |-> bank, to |-> m.bank, thunk |-> target \in {bank, m.bank}]),
          !.shown = IF m.frames # frames THEN Append(@, m.picture) ELSE @,
          !.held = IF m.frames # frames THEN Append(@, m.vram) ELSE @,
          !.pcs = Append(@, pc), !.calls = Log!Min({@, Len(m.calls)})]
  BY DEF Log!Step
<1>5. since \in [log : Nat, switches : Seq(Switches),
                shown : Seq(Pixels), held : Seq(Pixels), pcs : Seq(0 .. 2), calls : Nat,
                loaded : BOOLEAN, moved : BOOLEAN]
      /\ since.shown # <<>> /\ since.held # <<>> /\ bank \in Banks /\ pc \in 0 .. 2
  BY DEF EventTypes, Switches
<1>6. since' = [log |-> since.log,
                      switches |-> IF m.bank = bank THEN since.switches
                                   ELSE Append(since.switches, [from |-> bank, to |-> m.bank, thunk |-> target \in {bank, m.bank}]),
                      shown |-> IF m.frames # frames THEN Append(since.shown, m.picture) ELSE since.shown,
                      held |-> IF m.frames # frames THEN Append(since.held, m.vram) ELSE since.held,
                      pcs |-> Append(since.pcs, pc),
                      calls |-> IF since.calls =< Len(m.calls) THEN since.calls ELSE Len(m.calls),
                      loaded |-> since.loaded, moved |-> since.moved]
  BY <1>3, <1>4, <1>5
<1>7. since'.switches \in Seq(Switches)
  <2>1. [from |-> bank, to |-> m.bank, thunk |-> target \in {bank, m.bank}] \in Switches
    BY <1>1, <1>5 DEF Switches
  <2> QED
    BY <1>5, <1>6, <2>1
<1>8. since'.pcs \in Seq(0 .. 2)
  BY <1>5, <1>6
<1>9. since'.shown \in Seq(Pixels) /\ since'.held \in Seq(Pixels) /\ since'.shown # <<>> /\ since'.held # <<>>
  <2>1. \A s \in Seq(Pixels), x \in Pixels : Append(s, x) \in Seq(Pixels) /\ Append(s, x) # <<>>
    BY AppendProperties
  <2> QED
    BY <1>1, <1>5, <1>6, <2>1
<1>10. since'.calls =< Len(m.calls) /\ since'.calls \in Nat
  BY <1>1, <1>2, <1>6
<1>11. since'.log = since.log /\ since'.loaded = since.loaded /\ since'.moved = since.moved
  BY <1>6
<1> DEFINE sw == since'.switches
           sh == since'.shown
           he == since'.held
           pp == since'.pcs
           ca == since'.calls
<1>12. since' = [log |-> since.log, switches |-> sw, shown |-> sh, held |-> he, pcs |-> pp, calls |-> ca,
                 loaded |-> since.loaded, moved |-> since.moved]
  BY <1>6
<1>13. sw \in Seq(Switches) /\ sh \in Seq(Pixels) /\ he \in Seq(Pixels) /\ pp \in Seq(0 .. 2) /\ ca \in Nat
  BY <1>7, <1>8, <1>9, <1>10
<1> HIDE DEF sw, sh, he, pp, ca
<1>14. since' \in [log : Nat, switches : Seq(Switches), shown : Seq(Pixels), held : Seq(Pixels),
                   pcs : Seq(0 .. 2), calls : Nat, loaded : BOOLEAN, moved : BOOLEAN]
  BY <1>5, <1>12, <1>13
<1> QED
  BY <1>6, <1>9, <1>10, <1>11, <1>14 DEF sw, sh, he, pp, ca

(* What a step adds to the log. *)
SwitchEvents(to, target) ==
  IF to = bank THEN <<>>
  ELSE Log!BankEvents(to, target, Log!ThrashAfter(to, target \in {bank, to}))
TimerEvents(m) == IF m.iflag /\ ~ baseline.timer THEN <<Log!Event("TimerInterrupt")>> ELSE <<>>

(* The events of a step: its traces, an interrupt, the switch. *)
LEMMA StepLogs ==
  ASSUME EventTypes, NEW m, NEW trace, NEW target, Moves(m, trace, target), Log!Step(m, trace, target)
  PROVE  /\ log' = log \o (trace \o TimerEvents(m) \o SwitchEvents(m.bank, target))
         /\ counts' = Log!Counted(counts, trace \o TimerEvents(m) \o SwitchEvents(m.bank, target))
  BY DEF Log!Step, TimerEvents, SwitchEvents

(* The session's own events. *)
LEMMA OwnEvents ==
  ASSUME EventTypes, NEW kind \in OwnKinds, NEW to \in Banks
  PROVE  Log!Event(kind) \in Entries /\ Log!Switched(kind, to) \in Entries
  BY BanksAreNumbers DEF EventTypes, Entries, Log!Event, Log!Switched

(* They are entries of the log. *)
LEMMA AddedEvents ==
  ASSUME EventTypes, NEW m, NEW trace, NEW target, Moves(m, trace, target)
  PROVE  /\ TimerEvents(m) \in Seq(Entries) /\ SwitchEvents(m.bank, target) \in Seq(Entries)
         /\ trace \o TimerEvents(m) \o SwitchEvents(m.bank, target) \in Seq(Entries)
<1>1. trace \in Seq(Entries) /\ m.bank \in Banks
  BY DEF Moves, ProgramStates
<1>2. /\ Log!Event("TimerInterrupt") \in Entries /\ Log!Event("BankThrashSuspected") \in Entries
      /\ Log!Switched("BankSwitch", m.bank) \in Entries
      /\ Log!Switched("FarCallSuspected", m.bank) \in Entries
  BY <1>1, OwnEvents DEF OwnKinds
<1>3. TimerEvents(m) \in Seq(Entries)
  BY <1>2 DEF TimerEvents
<1>4. SwitchEvents(m.bank, target) \in Seq(Entries)
  BY <1>2 DEF SwitchEvents, Log!BankEvents
<1> QED
  BY <1>1, <1>3, <1>4

(* Counters stay numbers when events are added. *)
LEMMA CountersAreNumbers ==
  ASSUME NEW c \in [Log!Counters -> Nat], NEW s \in Seq(Entries)
  PROVE  Log!Counted(c, s) \in [Log!Counters -> Nat]
<1>1. \A S : Log!Cardinality(S) = Cardinality(S)
  BY DEF Log!Cardinality, Cardinality
<1>2. ASSUME NEW k PROVE Cardinality({i \in DOMAIN s : k \in Log!CountersOf(s[i])}) \in Nat
  <2>1. IsFiniteSet(1 .. Len(s)) /\ DOMAIN s = 1 .. Len(s)
    BY FS_Interval
  <2>2. IsFiniteSet({i \in DOMAIN s : k \in Log!CountersOf(s[i])})
    BY <2>1, FS_Subset
  <2> QED
    BY <2>2, FS_CardinalityType
<1>3. ASSUME NEW k \in Log!Counters
      PROVE  c[k] + Log!Cardinality({i \in DOMAIN s : k \in Log!CountersOf(s[i])}) \in Nat
  <2>1. PICK n \in Nat : n = Cardinality({i \in DOMAIN s : k \in Log!CountersOf(s[i])})
    BY <1>2
  <2>2. n = Log!Cardinality({i \in DOMAIN s : k \in Log!CountersOf(s[i])})
    BY <1>1, <2>1
  <2>3. c[k] + n \in Nat
    OBVIOUS
  <2> QED
    BY <2>2, <2>3
<1> QED
  BY <1>3 DEF Log!Counted

(* What a step may put into the baseline. *)
LEMMA BaselineChanges ==
  ASSUME NEW b \in Baselines, NEW f \in Int
  PROVE  /\ \A t \in BOOLEAN : [b EXCEPT !.frame = f, !.timer = t] \in Baselines
         /\ \A t \in BOOLEAN : [b EXCEPT !.timer = t] \in Baselines
         /\ \A v \in Pixels, p \in -1 .. 1 : [b EXCEPT !.frame = f, !.vram = v, !.picture = p] \in Baselines
  BY ZenonT(120) DEF Baselines

(* A step of the program keeps the types. *)
LEMMA MoveTypes ==
  ASSUME EventTypes, NEW m, NEW trace, NEW target, Moves(m, trace, target), Log!Step(m, trace, target)
  PROVE  EventTypes'
<1>m. m \in ProgramStates
  BY DEF Moves
<1>1. /\ frames' = m.frames /\ bank' = m.bank /\ vram' = m.vram /\ picture' = m.picture
      /\ pc' = m.pc /\ iflag' = m.iflag /\ calls' = m.calls /\ captured' = captured
      /\ samples' = samples + 1
  BY DEF Log!Step
<1>2. /\ frames' \in Nat /\ bank' \in Banks /\ vram' \in Pixels /\ picture' \in Pixels
      /\ pc' \in 0 .. 2 /\ iflag' \in BOOLEAN /\ calls' \in Seq(Thunks)
  BY <1>m, <1>1 DEF ProgramStates
<1>3. log' \in Seq(Entries) /\ since.log =< Len(log')
  <2> DEFINE t == trace \o TimerEvents(m) \o SwitchEvents(m.bank, target)
  <2>a. t \in Seq(Entries)
    BY AddedEvents
  <2>b. log' = log \o t
    BY StepLogs
  <2> HIDE DEF t
  <2>1. log \in Seq(Entries) /\ since.log =< Len(log) /\ since.log \in Nat
    BY DEF EventTypes
  <2> QED
    BY <2>1, <2>a, <2>b
<1>4. counts' \in [Log!Counters -> Nat]
  <2> DEFINE t == trace \o TimerEvents(m) \o SwitchEvents(m.bank, target)
  <2>a. t \in Seq(Entries)
    BY AddedEvents
  <2>b. counts' = Log!Counted(counts, t)
    BY StepLogs
  <2> HIDE DEF t
  <2> QED
    BY <2>a, <2>b, CountersAreNumbers DEF EventTypes
<1>5. baseline' \in Baselines
  <2>0. baseline \in Baselines /\ frames \in Nat /\ vram \in Pixels /\ picture \in Pixels
        /\ \A x \in Pixels : x \in -1 .. 1
    BY DEF EventTypes, Pixels
  <2>1. Log!Prepared \in Baselines
    <3> DEFINE p == IF baseline.last = -1 THEN picture ELSE baseline.last
    <3>1. p \in -1 .. 1
      BY <2>0 DEF Baselines, Pixels
    <3>2. Log!Prepared = IF baseline.frame = frames THEN baseline
                         ELSE [baseline EXCEPT !.frame = frames, !.vram = vram, !.picture = p]
      BY DEF Log!Prepared
    <3> HIDE DEF p
    <3>3. frames \in Int
      BY <2>0
    <3> QED
      BY <2>0, <3>1, <3>2, <3>3, BaselineChanges, ZenonT(120)
  <2>2. baseline' = IF m.frames # frames
                    THEN [frame |-> m.frames, picture |-> m.picture, vram |-> m.vram,
                          last |-> m.picture, timer |-> m.iflag]
                    ELSE [Log!Prepared EXCEPT !.timer = m.iflag]
    BY DEF Log!Step
  <2>3. [frame |-> m.frames, picture |-> m.picture, vram |-> m.vram, last |-> m.picture,
         timer |-> m.iflag] \in Baselines
    BY <1>m DEF ProgramStates, Pixels, Baselines
  <2>4. [Log!Prepared EXCEPT !.timer = m.iflag] \in Baselines
    <3>1. m.iflag \in BOOLEAN /\ 0 \in Int
      BY <1>m DEF ProgramStates
    <3> QED
      BY <2>1, <3>1, BaselineChanges, ZenonT(120)
  <2> QED
    BY <2>2, <2>3, <2>4
<1>6. changed' \in [screen : BOOLEAN, vram : BOOLEAN]
  BY DEF Log!Step, EventTypes
<1>7. thrash' \in [last : Seq(Banks), streak : Nat, score : Nat]
  <2>1. thrash \in [last : Seq(Banks), streak : Nat, score : Nat] /\ bank \in Banks /\ m.bank \in Banks
    BY <1>m DEF EventTypes, ProgramStates
  <2>2. thrash' = IF m.bank = bank THEN thrash ELSE Log!ThrashAfter(m.bank, target \in {bank, m.bank})
    BY DEF Log!Step
  <2>3. <<bank, m.bank>> \in Seq(Banks) /\ <<>> \in Seq(Banks)
    BY <2>1
  <2>4. thrash.streak + 1 \in Nat /\ 0 \in Nat
    BY <2>1
  <2>5. \A n \in Nat : Log!Max({thrash.score, n}) \in Nat
    <3> TAKE n \in Nat
    <3>1. thrash.score \in Int /\ n \in Int /\ thrash.score \in Nat
      BY <2>1
    <3> QED
      BY <3>1, GreaterOfTwo
  <2>6. Log!ThrashAfter(m.bank, target \in {bank, m.bank}) \in [last : Seq(Banks), streak : Nat, score : Nat]
    BY <2>1, <2>3, <2>4, <2>5 DEF Log!ThrashAfter
  <2> QED
    BY <2>1, <2>2, <2>6
<1>8. pending' \in Seq([expected : Banks, started : Nat, reported : BOOLEAN])
  <2> DEFINE P == [expected : Banks, started : Nat, reported : BOOLEAN]
  <2>1. pending \in Seq(P) /\ bank \in Banks /\ frames \in Nat
    BY DEF EventTypes
  <2>2. [expected |-> bank, started |-> frames, reported |-> FALSE] \in P
    BY <2>1
  <2>3. Append(pending, [expected |-> bank, started |-> frames, reported |-> FALSE]) \in Seq(P)
    BY <2>1, <2>2
  <2>4. pending # <<>> => Log!Front(pending) \in Seq(P)
    BY <2>1, FrontOfCalls DEF Log!Front
  <2>5. Log!PendingAfter(m.bank, target) \in Seq(P)
    BY <2>1, <2>3, <2>4 DEF Log!PendingAfter
  <2>6. pending' = IF m.bank = bank THEN pending ELSE Log!PendingAfter(m.bank, target)
    BY DEF Log!Step
  <2> QED
    BY <2>1, <2>5, <2>6
<1>9. pcs' \in [recent : Seq(0 .. 2), best : Nat]
  <2>1. pcs.recent \in Seq(0 .. 2) /\ pcs.best \in Nat /\ pc \in 0 .. 2 /\ PcWindow \in Nat \ {0}
    BY BanksAreNumbers DEF EventTypes
  <2> DEFINE kept == IF Len(pcs.recent) = PcWindow THEN Tail(pcs.recent) ELSE pcs.recent
             r == Append(kept, pc)
             hits == Log!Cardinality({i \in DOMAIN r : r[i] = pc})
  <2>2. r \in Seq(0 .. 2)
    <3>1. kept \in Seq(0 .. 2)
      BY <2>1
    <3> QED
      BY <2>1, <3>1
  <2>3. hits \in Nat
    <3>1. IsFiniteSet(1 .. Len(r)) /\ DOMAIN r = 1 .. Len(r)
      BY <2>2, FS_Interval
    <3>2. IsFiniteSet({i \in DOMAIN r : r[i] = pc})
      BY <3>1, FS_Subset
    <3>3. \A S : Log!Cardinality(S) = Cardinality(S)
      BY DEF Log!Cardinality, Cardinality
    <3> QED
      BY <3>2, <3>3, FS_CardinalityType
  <2>4. pcs' = [recent |-> r, best |-> Log!Max({pcs.best, hits})]
    BY DEF Log!Step, Log!Recorded
  <2>5. Log!Max({pcs.best, hits}) \in Nat
    BY <2>1, <2>3, GreaterOfTwo
  <2> QED
    BY <2>2, <2>4, <2>5
<1>10. samples' \in Nat /\ captured' \in Seq([log : Nat, samples : Nat, run : Nat])
  BY <1>1 DEF EventTypes
<1>11. /\ since' \in [log : Nat, switches : Seq(Switches), shown : Seq(Pixels), held : Seq(Pixels),
                      pcs : Seq(0 .. 2), calls : Nat, loaded : BOOLEAN, moved : BOOLEAN]
       /\ since'.log = since.log /\ since'.calls =< Len(m.calls) /\ since'.shown # <<>> /\ since'.held # <<>>
  BY HistoryAfter, Zenon
<1> QED
  BY <1>1, <1>2, <1>3, <1>4, <1>5, <1>6, <1>7, <1>8, <1>9, <1>10, <1>11 DEF EventTypes, Switches

(* So does the end of a run. *)
LEMMA EndTypes == EventTypes /\ Log!EndRun => EventTypes'
<1> SUFFICES ASSUME EventTypes, Log!EndRun PROVE EventTypes'
  OBVIOUS
<1> DEFINE P == [expected : Banks, started : Nat, reported : BOOLEAN]
<1>1. UNCHANGED <<frames, bank, vram, picture, pc, iflag, calls, counts, changed, thrash, pcs, captured,
                  samples, since>>
  BY DEF Log!EndRun, Log!Machine
<1>2. baseline' \in Baselines
  <2>1. baseline' = [baseline EXCEPT !.last = IF @ = -1 THEN picture ELSE @]
    BY DEF Log!EndRun
  <2>2. picture \in -1 .. 1 /\ baseline \in Baselines
    BY DEF EventTypes, Pixels
  <2> QED
    BY <2>1, <2>2 DEF Baselines
<1>3. pending' \in Seq(P)
  <2>1. PICK first : \/ pending' = [pending EXCEPT ![first].reported = TRUE]
                     \/ pending' = pending
    BY DEF Log!EndRun
  <2>2. pending \in Seq(P)
    BY DEF EventTypes
  <2>3. CASE first \in DOMAIN pending /\ pending' = [pending EXCEPT ![first].reported = TRUE]
    <3>0. first \in 1 .. Len(pending)
      BY <2>2, <2>3
    <3>1. pending[first] \in P /\ first \in 1 .. Len(pending)
      BY <2>2, <3>0, ElementOfSeq
    <3>2. pending' = [pending EXCEPT ![first] = [pending[first] EXCEPT !.reported = TRUE]]
      BY <2>3
    <3>3. [pending[first] EXCEPT !.reported = TRUE] \in P
      BY <3>1
    <3> QED
      BY <2>2, <3>1, <3>2, <3>3, ExceptSeq
  <2>4. CASE first \notin DOMAIN pending /\ pending' = [pending EXCEPT ![first].reported = TRUE]
    <3>1. pending' = pending
      BY <2>2, <2>4
    <3> QED
      BY <2>2, <3>1
  <2> QED
    BY <2>1, <2>2, <2>3, <2>4
<1>4. log' \in Seq(Entries) /\ since.log =< Len(log')
  <2>1. log' = log \/ log' = Append(log, Log!Event("BankReturnMissing"))
    BY DEF Log!EndRun
  <2>2. Log!Event("BankReturnMissing") \in Entries
    BY OwnEvents, BanksAreNumbers DEF OwnKinds
  <2>3. log \in Seq(Entries) /\ since.log =< Len(log) /\ since.log \in Nat
    BY DEF EventTypes
  <2> QED
    BY <2>1, <2>2, <2>3, SMTT(90)
<1> QED
  BY <1>1, <1>2, <1>3, <1>4 DEF EventTypes

(* What a run or a load starts with has its type. *)
LEMMA FreshTypes ==
  ASSUME Log!Fresh
  PROVE  /\ changed' = [screen |-> FALSE, vram |-> FALSE] /\ changed' \in [screen : BOOLEAN, vram : BOOLEAN]
         /\ thrash' = [last |-> <<>>, streak |-> 0, score |-> 0]
         /\ thrash' \in [last : Seq(Banks), streak : Nat, score : Nat]
         /\ pending' = <<>> /\ pending' \in Seq([expected : Banks, started : Nat, reported : BOOLEAN])
         /\ pcs' = [recent |-> <<>>, best |-> 0] /\ pcs' \in [recent : Seq(0 .. 2), best : Nat]
         /\ samples' = 0 /\ samples' \in Nat
<1>1. /\ changed' = [screen |-> FALSE, vram |-> FALSE]
      /\ thrash' = [last |-> <<>>, streak |-> 0, score |-> 0]
      /\ pending' = <<>> /\ pcs' = [recent |-> <<>>, best |-> 0] /\ samples' = 0
  BY DEF Log!Fresh
<1>2. <<>> \in Seq(Banks) /\ <<>> \in Seq(0 .. 2) /\ <<>> \in Seq([expected : Banks, started : Nat, reported : BOOLEAN])
  OBVIOUS
<1> QED
  BY <1>1, <1>2

LEMMA StartedCounters ==
  ASSUME NEW c \in [Log!Counters -> Nat], NEW kept
  PROVE  Log!StartedOver(c, kept) \in [Log!Counters -> Nat]
  BY DEF Log!StartedOver

(* The beginning of a run keeps the types. *)
LEMMA BeginTypes == EventTypes /\ Log!BeginRun => EventTypes'
<1> SUFFICES ASSUME EventTypes, Log!BeginRun PROVE EventTypes'
  OBVIOUS
<1>1. UNCHANGED <<frames, bank, vram, picture, pc, iflag, calls, log, captured>> /\ Log!Fresh
  BY DEF Log!BeginRun, Log!Machine
<1>2. counts' \in [Log!Counters -> Nat]
  BY StartedCounters DEF Log!BeginRun, EventTypes
<1>3. baseline' \in Baselines
  <2>1. baseline' = [baseline EXCEPT !.frame = -1, !.timer = iflag]
    BY DEF Log!BeginRun
  <2>2. iflag \in BOOLEAN /\ baseline \in Baselines /\ -1 \in Int
    BY DEF EventTypes
  <2> QED
    BY <2>1, <2>2, BaselineChanges, ZenonT(120)
<1>4. /\ since' = [log |-> Len(log), switches |-> <<>>,
                   shown |-> <<IF baseline.last = -1 THEN picture ELSE baseline.last>>, held |-> <<vram>>,
                   pcs |-> <<>>, calls |-> Len(calls), loaded |-> FALSE, moved |-> since.moved]
  BY DEF Log!BeginRun, EventTypes
<1>5. (IF baseline.last = -1 THEN picture ELSE baseline.last) \in Pixels /\ vram \in Pixels
      /\ Len(log) \in Nat /\ Len(calls) \in Nat /\ since.moved \in BOOLEAN
  BY SMTT(90) DEF EventTypes, Pixels, Baselines
<1>6. since' \in [log : Nat, switches : Seq(Switches), shown : Seq(Pixels), held : Seq(Pixels),
                   pcs : Seq(0 .. 2), calls : Nat, loaded : BOOLEAN, moved : BOOLEAN]
  <2>1. <<>> \in Seq(Switches) /\ <<>> \in Seq(0 .. 2) /\ <<vram>> \in Seq(Pixels)
        /\ <<IF baseline.last = -1 THEN picture ELSE baseline.last>> \in Seq(Pixels)
    BY <1>5
  <2> QED
    BY <1>4, <1>5, <2>1
<1>7. since'.log =< Len(log') /\ since'.calls =< Len(calls') /\ since'.shown # <<>> /\ since'.held # <<>>
  BY <1>1, <1>4, <1>5
<1> QED
  BY <1>1, <1>2, <1>3, <1>6, <1>7, FreshTypes DEF EventTypes, Switches

(* A load keeps the types. *)
LEMMA LoadTypes == EventTypes /\ Log!Load => EventTypes'
<1> SUFFICES ASSUME EventTypes, Log!Load PROVE EventTypes'
  OBVIOUS
<1>1. /\ UNCHANGED <<pc, log>> /\ Log!Fresh /\ vram' \in Pixels /\ picture' \in Pixels
      /\ frames' = 0 /\ bank' = 1 /\ iflag' = FALSE /\ calls' = <<>> /\ captured' = <<>>
  BY DEF Log!Load, Pixels
<1>2. counts' \in [Log!Counters -> Nat]
  BY StartedCounters DEF Log!Load, EventTypes
<1>3. baseline' \in Baselines
  <2>1. baseline' = [frame |-> 0, picture |-> baseline.last, vram |-> baseline.vram, last |-> picture',
                     timer |-> FALSE]
    BY DEF Log!Load
  <2>2. baseline.last \in -1 .. 1 /\ baseline.vram \in Pixels /\ picture' \in -1 .. 1
    BY <1>1 DEF EventTypes, Pixels, Baselines
  <2> QED
    BY <2>1, <2>2 DEF Baselines
<1>4. since' = [log |-> Len(log), switches |-> <<>>, shown |-> <<picture'>>, held |-> <<vram'>>,
                pcs |-> <<>>, calls |-> 0, loaded |-> TRUE, moved |-> TRUE]
  BY DEF Log!Load
<1>5. since' \in [log : Nat, switches : Seq(Switches), shown : Seq(Pixels), held : Seq(Pixels),
                   pcs : Seq(0 .. 2), calls : Nat, loaded : BOOLEAN, moved : BOOLEAN]
  <2>1. <<>> \in Seq(Switches) /\ <<>> \in Seq(0 .. 2) /\ <<vram'>> \in Seq(Pixels)
        /\ <<picture'>> \in Seq(Pixels) /\ Len(log) \in Nat
    BY <1>1 DEF EventTypes
  <2> QED
    BY <1>4, <2>1
<1>6. since'.log =< Len(log') /\ since'.calls =< Len(calls') /\ since'.shown # <<>> /\ since'.held # <<>>
  BY <1>1, <1>4 DEF EventTypes
<1>7. calls' \in Seq(Thunks) /\ captured' \in Seq([log : Nat, samples : Nat, run : Nat])
      /\ frames' \in Nat /\ bank' \in Banks /\ pc' \in 0 .. 2 /\ log' \in Seq(Entries) /\ iflag' \in BOOLEAN
  <2>1. 1 \in Banks /\ pc \in 0 .. 2 /\ log \in Seq(Entries)
    BY BanksAreNumbers DEF EventTypes
  <2>2. iflag' \in BOOLEAN /\ bank' \in Banks
    BY <1>1, <2>1
  <2>3. \A S : <<>> \in Seq(S)
    OBVIOUS
  <2> QED
    BY <1>1, <2>1, <2>2, <2>3
<1> QED
  BY <1>1, <1>2, <1>3, <1>5, <1>6, <1>7, FreshTypes DEF EventTypes, Switches

Saves == [log : Nat, samples : Nat, run : Nat]
(* A checkpoint keeps the types. *)
LEMMA CaptureTypes == EventTypes /\ Log!Capture => EventTypes'
<1> SUFFICES ASSUME EventTypes, Log!Capture PROVE EventTypes'
  OBVIOUS
<1>1. UNCHANGED <<frames, bank, vram, picture, pc, iflag, calls, counts, baseline, changed, thrash,
                  pending, pcs, samples, since>>
  BY DEF Log!Capture, Log!Machine
<1>2. log' \in Seq(Entries) /\ since.log =< Len(log')
  <2>1. log' = Append(log, Log!Event("ReplayCheckpointSaved"))
    BY DEF Log!Capture
  <2>2. Log!Event("ReplayCheckpointSaved") \in Entries
    BY OwnEvents, BanksAreNumbers DEF OwnKinds
  <2>3. log \in Seq(Entries) /\ since.log =< Len(log) /\ since.log \in Nat
    BY DEF EventTypes
  <2> QED
    BY <2>1, <2>2, <2>3
<1>3. captured' \in Seq(Saves)
  <2> DEFINE more == Append(captured, [log |-> Len(log), samples |-> samples, run |-> since.log])
  <2>1. captured \in Seq(Saves) /\ [log |-> Len(log), samples |-> samples, run |-> since.log] \in Saves
    BY DEF EventTypes, Saves
  <2>2. more \in Seq(Saves) /\ more # <<>>
    BY <2>1, AppendProperties
  <2>3. captured' = IF Len(more) > MaxCheckpoints THEN Tail(more) ELSE more
    BY DEF Log!Capture
  <2> HIDE DEF more
  <2> QED
    BY <2>2, <2>3
<1> QED
  BY <1>1, <1>2, <1>3 DEF EventTypes, Saves

(* The types hold initially. *)
LEMMA EventInitTypes == Log!Init => EventTypes
<1> SUFFICES ASSUME Log!Init PROVE EventTypes
  OBVIOUS
<1>1. /\ frames \in Nat /\ bank \in Banks /\ vram \in Pixels /\ picture \in Pixels /\ pc \in 0 .. 2
      /\ iflag \in BOOLEAN /\ calls = <<>> /\ log = <<>> /\ samples \in Nat /\ captured = <<>>
      /\ pending = <<>>
  <2>1. 1 \in Banks
    BY BanksAreNumbers
  <2>2. bank = 1 /\ iflag = FALSE /\ frames = 0 /\ vram = 0 /\ picture = 0 /\ pc = 0 /\ samples = 0
        /\ calls = <<>> /\ log = <<>> /\ captured = <<>> /\ pending = <<>>
    BY DEF Log!Init
  <2>3. iflag \in BOOLEAN
    BY <2>2
  <2> QED
    BY <2>1, <2>2, <2>3 DEF Pixels
<1>2. counts \in [Log!Counters -> Nat]
  BY DEF Log!Init, Log!NoCounts
<1>3. baseline \in Baselines
  BY DEF Log!Init, Pixels, Baselines
<1>4. changed \in [screen : BOOLEAN, vram : BOOLEAN]
  BY DEF Log!Init
<1>5. /\ \A S : <<>> \in Seq(S)
      /\ <<0>> \in Seq(Pixels) /\ <<0>> # <<>> /\ Len(<<>>) = 0
  BY DEF Pixels
<1>6. thrash \in [last : Seq(Banks), streak : Nat, score : Nat] /\ pcs \in [recent : Seq(0 .. 2), best : Nat]
  BY <1>5 DEF Log!Init
<1>7. since = [log |-> 0, switches |-> <<>>, shown |-> <<0>>, held |-> <<0>>, pcs |-> <<>>,
              calls |-> 0, loaded |-> FALSE, moved |-> FALSE]
  BY DEF Log!Init
<1>8. since \in [log : Nat, switches : Seq(Switches), shown : Seq(Pixels), held : Seq(Pixels),
                   pcs : Seq(0 .. 2), calls : Nat, loaded : BOOLEAN, moved : BOOLEAN]
  BY <1>5, <1>7
<1>9. since.log =< Len(log) /\ since.calls =< Len(calls) /\ since.shown # <<>> /\ since.held # <<>>
  BY <1>1, <1>5, <1>7
<1> QED
  BY <1>1, <1>2, <1>3, <1>4, <1>5, <1>6, <1>8, <1>9 DEF EventTypes, Switches

(* The types hold after every step. *)
LEMMA EventTypesStep == EventTypes /\ [Log!Next]_(Log!vars) => EventTypes'
<1> SUFFICES ASSUME EventTypes, [Log!Next]_(Log!vars) PROVE EventTypes'
  OBVIOUS
<1>1. CASE Log!Next
  BY <1>1, EventStepIsOne, MoveTypes, EndTypes, BeginTypes, LoadTypes, CaptureTypes
<1>2. CASE UNCHANGED Log!vars
  BY <1>2 DEF Log!vars, EventTypes
<1> QED
  BY <1>1, <1>2

-----------------------------------------------------------------------------
(* The counters.                                                             *)

LEMMA CardinalityIsOne == \A S : Log!Cardinality(S) = Cardinality(S)
  BY DEF Log!Cardinality, Cardinality

(* Nothing is told where nothing is of E. *)
LEMMA ToldNever ==
  ASSUME NEW s, NEW a \in Int, NEW b \in Int, NEW E, \A i \in a .. b : s[i] \notin E
  PROVE  Told(s, a, b, E) = 0
<1>1. Where(s, a, b, E) = {}
  BY DEF Where
<1> QED
  BY <1>1, FS_EmptySet DEF Told

EventsOf(k) == {e \in Entries : k \in Log!CountersOf(e)}
CountedFrom(k) == IF k \in Log!Kept THEN 1 ELSE since.log + 1
CountsInv ==
  \A k \in Log!Counters : k # "CgbSpeedSwitchFreeze" =>
    counts[k] = Told(log, CountedFrom(k), Len(log), EventsOf(k))

(* The counters in terms of what the log tells. *)
LEMMA CountsInvIsCounts == EventTypes => (CountsInv <=> Log!CountsFollowLog)
<1> SUFFICES ASSUME EventTypes PROVE CountsInv <=> Log!CountsFollowLog
  OBVIOUS
<1>1. ASSUME NEW k
      PROVE  Told(log, CountedFrom(k), Len(log), EventsOf(k))
               = Log!Cardinality({i \in CountedFrom(k) .. Len(log) : k \in Log!CountersOf(log[i])})
  <2>1. CountedFrom(k) \in Nat \ {0} /\ log \in Seq(Entries)
    BY SMTT(90) DEF EventTypes, CountedFrom
  <2>2. Where(log, CountedFrom(k), Len(log), EventsOf(k))
          = {i \in CountedFrom(k) .. Len(log) : k \in Log!CountersOf(log[i])}
    <3>1. \A i \in CountedFrom(k) .. Len(log) : log[i] \in Entries
      BY <2>1
    <3> QED
      BY <3>1 DEF Where, EventsOf
  <2> QED
    BY <2>2, CardinalityIsOne DEF Told
<1> QED
  BY <1>1 DEF CountsInv, Log!CountsFollowLog, CountedFrom

(* What is told of the log when events are added. *)
LEMMA LogJoined ==
  ASSUME EventTypes, NEW t \in Seq(Entries), NEW E, NEW a \in 1 .. Len(log) + 1, log' = log \o t
  PROVE  Told(log', a, Len(log'), E) = Told(log, a, Len(log), E) + Told(t, 1, Len(t), E)
<1>1. log \in Seq(Entries)
  BY DEF EventTypes
<1> QED
  BY <1>1, ToldJoined

LEMMA CountedFromLog ==
  ASSUME EventTypes, NEW k
  PROVE  CountedFrom(k) \in 1 .. Len(log) + 1
  BY SMTT(90) DEF EventTypes, CountedFrom

(* A step adds its events to the log and to the counters alike. *)
LEMMA MoveCounts ==
  ASSUME EventTypes, NEW m, NEW trace, NEW target, Moves(m, trace, target), Log!Step(m, trace, target),
         CountsInv
  PROVE  CountsInv'
<1> DEFINE t == trace \o TimerEvents(m) \o SwitchEvents(m.bank, target)
<1>1. t \in Seq(Entries)
  BY AddedEvents
<1>2. log' = log \o t /\ counts' = Log!Counted(counts, t)
  BY StepLogs
<1> HIDE DEF t
<1>3. ASSUME NEW k \in Log!Counters
      PROVE  counts'[k] = counts[k] + Told(t, 1, Len(t), EventsOf(k))
  <2>1. DOMAIN t = 1 .. Len(t) /\ \A i \in 1 .. Len(t) : t[i] \in Entries
    BY <1>1
  <2>2. {i \in DOMAIN t : k \in Log!CountersOf(t[i])} = Where(t, 1, Len(t), EventsOf(k))
    BY <2>1 DEF Where, EventsOf
  <2>3. counts'[k] = counts[k] + Log!Cardinality({i \in DOMAIN t : k \in Log!CountersOf(t[i])})
    BY <1>2 DEF Log!Counted
  <2> QED
    BY <2>2, <2>3, CardinalityIsOne DEF Told
<1>4. since'.log = since.log
  BY HistoryAfter
<1>5. ASSUME NEW k \in Log!Counters, k # "CgbSpeedSwitchFreeze"
      PROVE  counts'[k] = Told(log', CountedFrom(k), Len(log'), EventsOf(k))
  <2>1. Told(log', CountedFrom(k), Len(log'), EventsOf(k))
          = Told(log, CountedFrom(k), Len(log), EventsOf(k)) + Told(t, 1, Len(t), EventsOf(k))
    BY <1>1, <1>2, LogJoined, CountedFromLog
  <2> QED
    BY <1>3, <1>5, <2>1 DEF CountsInv
<1>6. \A k : CountedFrom(k)' = CountedFrom(k)
  BY <1>4 DEF CountedFrom
<1> QED
  BY <1>5, <1>6 DEF CountsInv

(* An event that no counter is kept of. *)
LEMMA UncountedEvents ==
  ASSUME EventTypes, NEW kind \in {"BankReturnMissing", "ReplayCheckpointSaved"},
         log' = Append(log, Log!Event(kind)), counts' = counts, since' = since, CountsInv
  PROVE  CountsInv'
<1> DEFINE e == Log!Event(kind)
<1>1. e \in Entries
  BY OwnEvents, BanksAreNumbers DEF OwnKinds
<1>2. Log!CountersOf(e) = {}
  BY DEF Log!CountersOf, Log!Event, Log!Uncounted, Log!IntrinsicKinds
<1> HIDE DEF e
<1>3. log \in Seq(Entries) /\ <<e>> \in Seq(Entries) /\ log' = log \o <<e>> /\ Len(<<e>>) = 1 /\ <<e>>[1] = e
  BY <1>1, SMTT(90), SMTT(90) DEF EventTypes, e
<1>4. ASSUME NEW k
      PROVE  Told(log', CountedFrom(k), Len(log'), EventsOf(k)) = Told(log, CountedFrom(k), Len(log), EventsOf(k))
  <2>1. e \notin EventsOf(k)
    BY <1>2 DEF EventsOf
  <2>2. Told(<<e>>, 1, Len(<<e>>), EventsOf(k)) = 0
    BY <1>3, <2>1, ToldOne
  <2>3. Told(log, CountedFrom(k), Len(log), EventsOf(k)) \in Nat
    <3>1. CountedFrom(k) \in Int /\ Len(log) \in Int
      BY <1>3, CountedFromLog
    <3> QED
      BY <3>1, ToldType
  <2>4. Told(log', CountedFrom(k), Len(log'), EventsOf(k))
          = Told(log, CountedFrom(k), Len(log), EventsOf(k)) + Told(<<e>>, 1, Len(<<e>>), EventsOf(k))
    BY <1>3, LogJoined, CountedFromLog
  <2> QED
    BY <2>2, <2>3, <2>4
<1> QED
  BY <1>4 DEF CountsInv, CountedFrom

(* Counters started over count an empty part of the log. *)
LEMMA StartCounts ==
  ASSUME EventTypes, NEW kept, kept \ {"CgbSpeedSwitchFreeze"} = Log!Kept, log' = log,
         counts' = Log!StartedOver(counts, kept), since'.log = Len(log), CountsInv
  PROVE  CountsInv'
<1>1. ASSUME NEW k \in Log!Counters, k # "CgbSpeedSwitchFreeze"
      PROVE  counts'[k] = Told(log', IF k \in Log!Kept THEN 1 ELSE since'.log + 1, Len(log'), EventsOf(k))
  <2>1. k \in kept <=> k \in Log!Kept
    BY <1>1
  <2>2. counts'[k] = IF k \in kept THEN counts[k] ELSE 0
    BY DEF Log!StartedOver
  <2>3. CASE k \in Log!Kept
    BY <1>1, <2>1, <2>2, <2>3 DEF CountsInv, CountedFrom
  <2>4. CASE k \notin Log!Kept
    <3>1. Len(log) \in Int /\ Len(log) + 1 \in Int /\ Len(log) < Len(log) + 1
      BY DEF EventTypes
    <3>2. Told(log, Len(log) + 1, Len(log), EventsOf(k)) = 0
      BY <3>1, ToldNone, Zenon
    <3> QED
      BY <2>1, <2>2, <2>4, <3>2
  <2> QED
    BY <2>3, <2>4
<1> QED
  BY <1>1 DEF CountsInv, CountedFrom

(* Every step keeps the counters right. *)
LEMMA CountsStep == EventTypes /\ CountsInv /\ [Log!Next]_(Log!vars) => CountsInv'
<1> SUFFICES ASSUME EventTypes, CountsInv, [Log!Next]_(Log!vars) PROVE CountsInv'
  OBVIOUS
<1>1. ASSUME log' = log, counts' = counts, since' = since PROVE CountsInv'
  BY <1>1 DEF CountsInv, CountedFrom
<1>2. CASE Log!EndRun
  <2>1. counts' = counts /\ since' = since
        /\ (log' = log \/ log' = Append(log, Log!Event("BankReturnMissing")))
    BY <1>2 DEF Log!EndRun
  <2> QED
    BY <1>1, <2>1, UncountedEvents
<1>3. CASE Log!Capture
  <2>1. counts' = counts /\ since' = since /\ log' = Append(log, Log!Event("ReplayCheckpointSaved"))
    BY <1>3 DEF Log!Capture
  <2> QED
    BY <2>1, UncountedEvents
<1>4. CASE Log!BeginRun
  <2>1. log' = log /\ counts' = Log!StartedOver(counts, Log!Kept) /\ since'.log = Len(log)
    BY <1>4 DEF Log!BeginRun, EventTypes
  <2>2. "CgbSpeedSwitchFreeze" \notin Log!Kept
    BY DEF Log!Kept, Log!MapperKinds, Log!ApuKinds, Log!PcmKinds, Log!CgbKinds
  <2> QED
    BY <2>1, <2>2, StartCounts
<1>5. CASE Log!Load
  <2>1. log' = log /\ counts' = Log!StartedOver(counts, Log!KeptByLoad) /\ since'.log = Len(log)
    BY <1>5 DEF Log!Load
  <2>2. Log!KeptByLoad \ {"CgbSpeedSwitchFreeze"} = Log!Kept
    BY DEF Log!KeptByLoad, Log!Kept, Log!MapperKinds, Log!ApuKinds, Log!PcmKinds, Log!CgbKinds
  <2> QED
    BY <2>1, <2>2, StartCounts
<1>6. CASE UNCHANGED Log!vars
  BY <1>1, <1>6 DEF Log!vars
<1>7. CASE Log!Next
  BY <1>2, <1>3, <1>4, <1>5, <1>7, EventStepIsOne, MoveCounts
<1> QED
  BY <1>6, <1>7

(* They are right initially. *)
LEMMA CountsInit == Log!Init => CountsInv
<1> SUFFICES ASSUME Log!Init PROVE CountsInv
  OBVIOUS
<1>1. log = <<>> /\ since.log = 0 /\ counts = Log!NoCounts
  BY DEF Log!Init
<1>2. \A k : CountedFrom(k) = 1 /\ Len(log) = 0
  BY <1>1 DEF CountedFrom
<1>3. \A E : Told(log, 1, 0, E) = 0
  BY ToldNone
<1> QED
  BY <1>1, <1>2, <1>3 DEF CountsInv, Log!NoCounts

-----------------------------------------------------------------------------
(* The switches in the log.                                                  *)

Into(b) == {e \in Entries : e.kind = "BankSwitch" /\ e.to = b}
OutOf(b) == {e \in Entries : e.kind = "BankSwitch" /\ e.from = b}
SwitchesIn == {e \in Entries : e.kind = "BankSwitch"}

BalanceInv ==
  ~ since.moved => \A b \in Banks :
    Told(log, 1, Len(log), Into(b)) - Told(log, 1, Len(log), OutOf(b))
      = (IF bank = b THEN 1 ELSE 0) - (IF b = 1 THEN 1 ELSE 0)

(* The balance in terms of what the log tells. *)
LEMMA BalanceIsBalance == EventTypes => (BalanceInv <=> Log!SwitchesBalance)
<1> SUFFICES ASSUME EventTypes PROVE BalanceInv <=> Log!SwitchesBalance
  OBVIOUS
<1>1. DOMAIN log = 1 .. Len(log) /\ \A i \in 1 .. Len(log) : log[i] \in Entries
  BY SMTT(90) DEF EventTypes
<1>2. ASSUME NEW b
      PROVE  /\ Told(log, 1, Len(log), Into(b)) = Log!In(b)
             /\ Told(log, 1, Len(log), OutOf(b)) = Log!Out(b)
  <2>1. Where(log, 1, Len(log), Into(b)) = {i \in DOMAIN log : log[i].kind = "BankSwitch" /\ log[i].to = b}
    BY <1>1 DEF Where, Into
  <2>2. Where(log, 1, Len(log), OutOf(b)) = {i \in DOMAIN log : log[i].kind = "BankSwitch" /\ log[i].from = b}
    BY <1>1 DEF Where, OutOf
  <2> QED
    BY <2>1, <2>2, CardinalityIsOne DEF Told, Log!In, Log!Out
<1> QED
  BY <1>2 DEF BalanceInv, Log!SwitchesBalance

(* What is told of two sequences, one behind the other. *)
LEMMA ToldOfBoth ==
  ASSUME NEW s \in Seq(Entries), NEW t \in Seq(Entries), NEW E
  PROVE  /\ Told(s \o t, 1, Len(s \o t), E) = Told(s, 1, Len(s), E) + Told(t, 1, Len(t), E)
         /\ Told(s, 1, Len(s), E) \in Nat /\ Told(t, 1, Len(t), E) \in Nat
<1>1. 1 \in 1 .. Len(s) + 1 /\ 1 \in Int /\ Len(s) \in Int /\ Len(t) \in Int
  OBVIOUS
<1>2. Told(s \o t, 1, Len(s \o t), E) = Told(s, 1, Len(s), E) + Told(t, 1, Len(t), E)
  BY <1>1, ToldJoined
<1>3. Told(s, 1, Len(s), E) \in Nat /\ Told(t, 1, Len(t), E) \in Nat
  BY <1>1, ToldType
<1> QED
  BY <1>2, <1>3

(* What is told of one event. *)
LEMMA ToldOfOne ==
  ASSUME NEW e \in Entries, NEW E
  PROVE  Told(<<e>>, 1, Len(<<e>>), E) = IF e \in E THEN 1 ELSE 0
<1>1. Len(<<e>>) = 1 /\ <<e>>[1] = e
  OBVIOUS
<1> QED
  BY <1>1, ToldOne

LEMMA ToldOfNothing == \A E : Told(<<>>, 1, Len(<<>>), E) = 0
  BY ToldNone

(* A step logs a switch if it switches, and no other. *)
LEMMA SwitchIsLogged ==
  ASSUME EventTypes, NEW m, NEW trace, NEW target, Moves(m, trace, target),
         NEW E \in SUBSET SwitchesIn
  PROVE  LET t == trace \o TimerEvents(m) \o SwitchEvents(m.bank, target)
         IN Told(t, 1, Len(t), E)
              = IF m.bank # bank /\ Log!Switched("BankSwitch", m.bank) \in E THEN 1 ELSE 0
<1> DEFINE Count(s) == Told(s, 1, Len(s), E)
<1>0. m.bank \in Banks
  BY DEF Moves, ProgramStates
<1>1. trace \in Seq(Entries) /\ TimerEvents(m) \in Seq(Entries) /\ SwitchEvents(m.bank, target) \in Seq(Entries)
  BY AddedEvents DEF Moves
<1>2. Count(trace) = 0
  <2>1. \A i \in 1 .. Len(trace) : trace[i].kind # "BankSwitch"
    BY TraceKindsAreTraces DEF Moves, OwnKinds
  <2>2. \A i \in 1 .. Len(trace) : trace[i] \notin E
    BY <2>1 DEF SwitchesIn
  <2>3. 1 \in Int /\ Len(trace) \in Int
    BY <1>1
  <2> QED
    BY <2>2, <2>3, ToldNever
<1>3. ASSUME NEW kind \in OwnKinds \ {"BankSwitch"}, NEW to \in Banks
      PROVE  /\ Log!Event(kind) \in Entries \ E /\ Log!Switched(kind, to) \in Entries \ E
             /\ Count(<<Log!Event(kind)>>) = 0 /\ Count(<<Log!Switched(kind, to)>>) = 0
  <2>1. Log!Event(kind) \in Entries \ E /\ Log!Switched(kind, to) \in Entries \ E
    BY OwnEvents DEF SwitchesIn, Log!Event, Log!Switched
  <2> QED
    BY <2>1, ToldOfOne
<1>4. {"TimerInterrupt", "BankThrashSuspected", "FarCallSuspected"} \subseteq OwnKinds \ {"BankSwitch"}
  BY DEF OwnKinds
<1>5. Count(TimerEvents(m)) = 0
  BY <1>0, <1>3, <1>4, ToldOfNothing DEF TimerEvents
<1>6. Count(SwitchEvents(m.bank, target))
        = IF m.bank # bank /\ Log!Switched("BankSwitch", m.bank) \in E THEN 1 ELSE 0
  <2>1. CASE m.bank = bank
    BY <2>1, ToldOfNothing DEF SwitchEvents
  <2>2. CASE m.bank # bank
    <3> DEFINE w == <<Log!Switched("BankSwitch", m.bank)>>
               after == Log!ThrashAfter(m.bank, target \in {bank, m.bank})
               x == IF after.streak = ThrashAt /\ target \notin {bank, m.bank}
                    THEN <<Log!Event("BankThrashSuspected")>> ELSE <<>>
               y == IF target = m.bank THEN <<Log!Switched("FarCallSuspected", m.bank)>> ELSE <<>>
    <3>1. SwitchEvents(m.bank, target) = w \o x \o y
      BY <2>2 DEF SwitchEvents, Log!BankEvents
    <3>2. Log!Switched("BankSwitch", m.bank) \in Entries
      BY <1>0, OwnEvents DEF OwnKinds
    <3>3. Count(w) = IF Log!Switched("BankSwitch", m.bank) \in E THEN 1 ELSE 0
      BY <3>2, ToldOfOne
    <3>4. x \in Seq(Entries) /\ Count(x) = 0
      <4>1. Log!Event("BankThrashSuspected") \in Entries /\ Count(<<Log!Event("BankThrashSuspected")>>) = 0
        BY <1>0, <1>3, <1>4
      <4>2. Count(<<>>) = 0
        BY ToldOfNothing
      <4>3. x = <<>> \/ x = <<Log!Event("BankThrashSuspected")>>
        OBVIOUS
      <4>4. <<>> \in Seq(Entries) /\ <<Log!Event("BankThrashSuspected")>> \in Seq(Entries)
        BY <4>1
      <4> QED
        BY <4>1, <4>2, <4>3, <4>4
    <3>5. y \in Seq(Entries) /\ Count(y) = 0
      <4>1. Log!Switched("FarCallSuspected", m.bank) \in Entries /\ Count(<<Log!Switched("FarCallSuspected", m.bank)>>) = 0
        BY <1>0, <1>3, <1>4
      <4>2. Count(<<>>) = 0
        BY ToldOfNothing
      <4>3. y = <<>> \/ y = <<Log!Switched("FarCallSuspected", m.bank)>>
        OBVIOUS
      <4>4. <<>> \in Seq(Entries) /\ <<Log!Switched("FarCallSuspected", m.bank)>> \in Seq(Entries)
        BY <4>1
      <4> QED
        BY <4>1, <4>2, <4>3, <4>4
    <3>6. w \in Seq(Entries)
      BY <3>2
    <3> HIDE DEF w, x, y
    <3>7. w \o x \in Seq(Entries) /\ Count(w \o x) = Count(w) + Count(x)
      BY <3>4, <3>6, ToldOfBoth
    <3>8. Count(w \o x \o y) = Count(w \o x) + Count(y)
      BY <3>5, <3>7, ToldOfBoth
    <3> QED
      BY <2>2, <3>1, <3>3, <3>4, <3>5, <3>7, <3>8
  <2> QED
    BY <2>1, <2>2
<1>7. /\ trace \o TimerEvents(m) \in Seq(Entries)
      /\ Count(trace \o TimerEvents(m)) = Count(trace) + Count(TimerEvents(m))
  BY <1>1, ToldOfBoth
<1>8. Count(trace \o TimerEvents(m) \o SwitchEvents(m.bank, target))
        = Count(trace \o TimerEvents(m)) + Count(SwitchEvents(m.bank, target))
  BY <1>1, <1>7, ToldOfBoth, ZenonT(120)
<1> QED
  BY <1>2, <1>5, <1>6, <1>7, <1>8

(* A switch takes from one bank what it gives to the other. *)
LEMMA MoveBalance ==
  ASSUME EventTypes, NEW m, NEW trace, NEW target, Moves(m, trace, target), Log!Step(m, trace, target),
         BalanceInv
  PROVE  BalanceInv'
<1> DEFINE t == trace \o TimerEvents(m) \o SwitchEvents(m.bank, target)
           sw == Log!Switched("BankSwitch", m.bank)
<1>1. t \in Seq(Entries) /\ log' = log \o t /\ bank' = m.bank /\ since'.moved = since.moved
      /\ m.bank \in Banks /\ bank \in Banks /\ 1 \in Banks
  <2>1. t \in Seq(Entries)
    BY AddedEvents
  <2>2. log' = log \o t
    BY StepLogs
  <2>3. since'.moved = since.moved
    BY HistoryAfter
  <2>4. bank' = m.bank
    BY DEF Log!Step
  <2>5. m.bank \in Banks /\ bank \in Banks /\ 1 \in Banks
    BY BanksAreNumbers DEF Moves, ProgramStates, EventTypes
  <2> QED
    BY <2>1, <2>2, <2>3, <2>4, <2>5
<1>2. sw \in Entries /\ sw.kind = "BankSwitch" /\ sw.from = bank /\ sw.to = m.bank
  BY <1>1, OwnEvents DEF Log!Switched, OwnKinds
<1>3. \A E \in SUBSET SwitchesIn : Told(t, 1, Len(t), E) = IF m.bank # bank /\ sw \in E THEN 1 ELSE 0
  BY SwitchIsLogged
<1> HIDE DEF t, sw
<1>4. \A b : Into(b) \in SUBSET SwitchesIn /\ OutOf(b) \in SUBSET SwitchesIn
             /\ (sw \in Into(b) <=> m.bank = b) /\ (sw \in OutOf(b) <=> bank = b)
  BY <1>2 DEF Into, OutOf, SwitchesIn
<1>5. log \in Seq(Entries)
  BY DEF EventTypes
<1>6. ASSUME NEW E
      PROVE  /\ Told(log', 1, Len(log'), E) = Told(log, 1, Len(log), E) + Told(t, 1, Len(t), E)
             /\ Told(log, 1, Len(log), E) \in Nat
  BY <1>1, <1>5, ToldOfBoth
<1>7. ASSUME NEW b \in Banks, ~ since.moved
      PROVE  Told(log', 1, Len(log'), Into(b)) - Told(log', 1, Len(log'), OutOf(b))
               = (IF bank' = b THEN 1 ELSE 0) - (IF b = 1 THEN 1 ELSE 0)
  <2>1. Told(log, 1, Len(log), Into(b)) - Told(log, 1, Len(log), OutOf(b))
          = (IF bank = b THEN 1 ELSE 0) - (IF b = 1 THEN 1 ELSE 0)
    BY <1>7 DEF BalanceInv
  <2>2. Told(t, 1, Len(t), Into(b)) = IF m.bank # bank /\ m.bank = b THEN 1 ELSE 0
    BY <1>3, <1>4
  <2>3. Told(t, 1, Len(t), OutOf(b)) = IF m.bank # bank /\ bank = b THEN 1 ELSE 0
    BY <1>3, <1>4
  <2> QED
    BY <1>1, <1>6, <2>1, <2>2, <2>3, SMTT(90)
<1> QED
  BY <1>1, <1>7 DEF BalanceInv

(* The session's own events that switch nothing. *)
LEMMA QuietBalance ==
  ASSUME EventTypes, NEW kind \in {"BankReturnMissing", "ReplayCheckpointSaved"},
         log' = Append(log, Log!Event(kind)), bank' = bank, since' = since, BalanceInv
  PROVE  BalanceInv'
<1> DEFINE e == Log!Event(kind)
<1>1. e \in Entries /\ e.kind # "BankSwitch"
  BY OwnEvents, BanksAreNumbers DEF OwnKinds, Log!Event
<1> HIDE DEF e
<1>2. log \in Seq(Entries) /\ <<e>> \in Seq(Entries) /\ log' = log \o <<e>>
  BY <1>1, SMTT(90), SMTT(90) DEF EventTypes, e
<1>3. ASSUME NEW E \in SUBSET SwitchesIn
      PROVE  Told(log', 1, Len(log'), E) = Told(log, 1, Len(log), E)
  <2>1. Told(<<e>>, 1, Len(<<e>>), E) = 0
    BY <1>1, ToldOfOne DEF SwitchesIn
  <2>2. PICK t \in Seq(Entries) : t = <<e>>
    BY <1>2
  <2>3. /\ Told(log \o t, 1, Len(log \o t), E) = Told(log, 1, Len(log), E) + Told(t, 1, Len(t), E)
        /\ Told(log, 1, Len(log), E) \in Nat
    BY <1>2, ToldOfBoth
  <2> QED
    BY <1>2, <2>1, <2>2, <2>3
<1>4. \A b : Into(b) \in SUBSET SwitchesIn /\ OutOf(b) \in SUBSET SwitchesIn
  BY DEF Into, OutOf, SwitchesIn
<1> QED
  BY <1>3, <1>4 DEF BalanceInv

(* Every step keeps the balance. *)
LEMMA BalanceStep == EventTypes /\ BalanceInv /\ [Log!Next]_(Log!vars) => BalanceInv'
<1> SUFFICES ASSUME EventTypes, BalanceInv, [Log!Next]_(Log!vars) PROVE BalanceInv'
  OBVIOUS
<1>1. ASSUME log' = log, bank' = bank, since'.moved = since.moved PROVE BalanceInv'
  BY <1>1 DEF BalanceInv
<1>2. CASE Log!EndRun
  <2>1. bank' = bank /\ since' = since
        /\ (log' = log \/ log' = Append(log, Log!Event("BankReturnMissing")))
    BY <1>2 DEF Log!EndRun, Log!Machine
  <2> QED
    BY <1>1, <2>1, QuietBalance
<1>3. CASE Log!Capture
  <2>1. bank' = bank /\ since' = since /\ log' = Append(log, Log!Event("ReplayCheckpointSaved"))
    BY <1>3 DEF Log!Capture, Log!Machine
  <2> QED
    BY <2>1, QuietBalance
<1>4. CASE Log!BeginRun
  <2>1. log' = log /\ bank' = bank /\ since'.moved = since.moved
    BY <1>4 DEF Log!BeginRun, Log!Machine, EventTypes
  <2> QED
    BY <1>1, <2>1
<1>5. CASE Log!Load
  BY <1>5 DEF Log!Load, BalanceInv
<1>6. CASE UNCHANGED Log!vars
  BY <1>1, <1>6 DEF Log!vars
<1>7. CASE Log!Next
  BY <1>2, <1>3, <1>4, <1>5, <1>7, EventStepIsOne, MoveBalance
<1> QED
  BY <1>6, <1>7

(* It holds initially. *)
LEMMA BalanceInit == Log!Init => BalanceInv
<1> SUFFICES ASSUME Log!Init PROVE BalanceInv
  OBVIOUS
<1>1. log = <<>> /\ bank = 1
  BY DEF Log!Init
<1> QED
  BY <1>1, ToldOfNothing DEF BalanceInv

-----------------------------------------------------------------------------
(* The far calls that are open.                                              *)

(* Each is pending with the bank and the frame it was made from; one thunk   *)
(* is not entered from the bank the one around it was entered from.          *)
PendingInv ==
  "plain" \notin program =>
    /\ Len(pending) = Len(calls) - since.calls
    /\ \A i \in 1 .. Len(pending) :
         /\ pending[i].expected = calls[since.calls + i].back
         /\ pending[i].started = calls[since.calls + i].at
    /\ \A i \in 1 .. Len(calls) - 1 : calls[i].back # calls[i + 1].back
    /\ calls # <<>> => calls[Len(calls)].back # bank

Waits == [expected : Banks, started : Nat, reported : BOOLEAN]

(* The invariant says of the calls pending what is promised. *)
LEMMA PendingIsStack == EventTypes /\ PendingInv => Log!PendingIsCallStack
<1> SUFFICES ASSUME EventTypes, PendingInv, "plain" \notin program
             PROVE  LET open == SubSeq(calls, since.calls + 1, Len(calls))
                    IN /\ Len(pending) = Len(open)
                       /\ \A i \in DOMAIN open : pending[i].expected = open[i].back /\ pending[i].started = open[i].at
  BY DEF Log!PendingIsCallStack
<1> DEFINE a == since.calls + 1
           n == Len(calls)
           open == SubSeq(calls, a, n)
<1>0. calls \in Seq(Thunks) /\ since.calls \in Nat /\ since.calls =< n
  BY DEF EventTypes
<1>1. a \in Nat \ {0} /\ n \in Nat /\ a =< n + 1 /\ (\A i \in a .. n : calls[i] \in Thunks)
      /\ since.calls \in Nat
  BY <1>0
<1>2. Len(pending) = n - since.calls
      /\ \A i \in 1 .. n - since.calls :
         /\ pending[i].expected = calls[since.calls + i].back
         /\ pending[i].started = calls[since.calls + i].at
  BY DEF PendingInv
<1>3. /\ open \in Seq(Thunks)
      /\ Len(open) = IF a =< n THEN n - a + 1 ELSE 0
      /\ \A i \in 1 .. n - a + 1 : open[i] = calls[a + i - 1]
  BY <1>1, SubSeqProperties, SMTT(90)
<1> HIDE DEF open, a, n
<1>4. Len(open) = n - since.calls /\ DOMAIN open = 1 .. n - since.calls
  <2>1. a = since.calls + 1 /\ DOMAIN open = 1 .. Len(open)
    BY <1>3 DEF a
  <2> QED
    BY <1>1, <1>3, <2>1
<1>5. \A i \in 1 .. n - since.calls : open[i] = calls[since.calls + i]
  <2> TAKE i \in 1 .. n - since.calls
  <2>0. a = since.calls + 1
    BY DEF a
  <2>1. i \in 1 .. n - a + 1 /\ a + i - 1 = since.calls + i
    BY <1>1, <2>0
  <2> QED
    BY <1>3, <2>1
<1> QED
  BY <1>2, <1>4, <1>5 DEF open, a, n

(* A call, a return or another step keeps calls and pending alike. *)
LEMMA MovePending ==
  ASSUME EventTypes, NEW m, NEW trace, NEW target, Moves(m, trace, target), Log!Step(m, trace, target),
         PendingInv
  PROVE  PendingInv'
<1> SUFFICES ASSUME "plain" \notin program
             PROVE  PendingInv'
  BY DEF PendingInv, Log!Step
<1> DEFINE n == Len(calls)
           k == since.calls
           p == Len(pending)
<1>1. /\ calls \in Seq(Thunks) /\ pending \in Seq(Waits) /\ n \in Nat /\ p \in Nat
      /\ k \in Nat /\ k =< n /\ bank \in Banks /\ frames \in Nat /\ m.bank \in Banks /\ 0 \notin Banks
  <2>1. calls \in Seq(Thunks) /\ pending \in Seq(Waits) /\ k \in Nat /\ k =< n /\ bank \in Banks /\ frames \in Nat
    BY DEF EventTypes, Waits
  <2>2. m.bank \in Banks /\ 0 \notin Banks
    BY BanksAreNumbers DEF Moves, ProgramStates
  <2> QED
    BY <2>1, <2>2
<1>2. /\ p = n - k
      /\ \A i \in 1 .. p : pending[i].expected = calls[k + i].back /\ pending[i].started = calls[k + i].at
      /\ \A i \in 1 .. n - 1 : calls[i].back # calls[i + 1].back
      /\ calls # <<>> => calls[n].back # bank
  BY DEF PendingInv
<1>3. /\ calls' = m.calls /\ bank' = m.bank
      /\ pending' = IF m.bank = bank THEN pending ELSE Log!PendingAfter(m.bank, target)
  BY DEF Log!Step
<1>4. since'.calls = IF k =< Len(m.calls) THEN k ELSE Len(m.calls)
  BY HistoryAfter
<1>5. CASE m.bank = bank /\ m.calls = calls
  <2>1. since'.calls = k /\ calls' = calls /\ bank' = bank /\ pending' = pending
    BY <1>1, <1>3, <1>4, <1>5
  <2> QED
    BY <2>1, <1>2 DEF PendingInv
<1>6. CASE /\ m.bank \in Banks \ {bank} /\ m.calls = Append(calls, [back |-> bank, at |-> frames])
           /\ target = m.bank
  <2> DEFINE c == [back |-> bank, at |-> frames]
             w == [expected |-> bank, started |-> frames, reported |-> FALSE]
  <2>1. c \in Thunks /\ w \in Waits
    BY <1>1 DEF Thunks, Waits
  <2>2. pending' = Append(pending, w) /\ calls' = Append(calls, c)
    BY <1>3, <1>6 DEF Log!PendingAfter
  <2>3. Len(calls') = n + 1 /\ calls'[n + 1] = c /\ (\A i \in 1 .. n : calls'[i] = calls[i]) /\ calls' # <<>>
    BY <1>1, <2>1, <2>2, AppendProperties, SMTT(90), SMTT(90)
  <2>4. Len(pending') = p + 1 /\ pending'[p + 1] = w /\ \A i \in 1 .. p : pending'[i] = pending[i]
    BY <1>1, <2>1, <2>2, AppendProperties
  <2>5. since'.calls = k
    BY <1>1, <1>3, <1>4, <2>3
  <2> HIDE DEF n, k, p
  <2>6. Len(pending') = Len(calls') - since'.calls
    BY <1>1, <1>2, <2>3, <2>4, <2>5
  <2>7. ASSUME NEW i \in 1 .. Len(pending')
        PROVE  pending'[i].expected = calls'[since'.calls + i].back /\ pending'[i].started = calls'[since'.calls + i].at
    <3>1. CASE i = p + 1
      <4>1. k + i = n + 1
        BY <1>1, <1>2, <3>1
      <4> QED
        BY <2>3, <2>4, <2>5, <3>1, <4>1
    <3>2. CASE i \in 1 .. p
      <4>1. k + i \in 1 .. n
        BY <1>1, <1>2, <3>2
      <4> QED
        BY <1>2, <2>3, <2>4, <2>5, <3>2, <4>1
    <3> QED
      BY <1>1, <2>4, <2>7, <3>1, <3>2
  <2>8. ASSUME NEW i \in 1 .. Len(calls') - 1 PROVE calls'[i].back # calls'[i + 1].back
    <3>1. CASE i = n
      <4>1. calls'[i] = calls[n] /\ calls'[i + 1].back = bank /\ calls # <<>>
        BY <1>1, <2>3, <2>8, <3>1 DEF n
      <4> QED
        BY <1>2, <4>1
    <3>2. CASE i \in 1 .. n - 1
      <4>1. i \in 1 .. n /\ i + 1 \in 1 .. n
        BY <1>1, <3>2
      <4> QED
        BY <1>2, <2>3, <3>2, <4>1
    <3> QED
      BY <1>1, <2>3, <2>8, <3>1, <3>2
  <2>9. calls'[Len(calls')].back # bank'
    BY <1>3, <1>6, <2>3
  <2> QED
    BY <2>6, <2>7, <2>8, <2>9 DEF PendingInv
<1>7. CASE /\ calls # <<>> /\ m.bank = calls[Len(calls)].back /\ target = bank
           /\ m.calls = SubSeq(calls, 1, Len(calls) - 1)
  <2>1. /\ Len(calls') = n - 1 /\ (\A i \in 1 .. n - 1 : calls'[i] = calls[i]) /\ n \in Nat \ {0}
        /\ calls' \in Seq(Thunks)
    BY <1>1, <1>3, <1>7, FrontOfCalls
  <2>2. m.bank # bank
    BY <1>2, <1>7
  <2>3. ASSUME calls' # <<>> PROVE calls'[Len(calls')].back # bank'
    <3>1. Len(calls') # 0
      BY <2>1, <2>3
    <3>2. n - 1 \in 1 .. n - 1 /\ (n - 1) + 1 = n
      BY <2>1, <3>1
    <3>3. calls[n - 1].back # calls[(n - 1) + 1].back
      BY <1>2, <3>2
    <3> QED
      BY <1>3, <1>7, <2>1, <3>2, <3>3
  <2>4. \A i \in 1 .. Len(calls') - 1 : calls'[i].back # calls'[i + 1].back
    <3> TAKE i \in 1 .. Len(calls') - 1
    <3>1. i \in 1 .. n - 1 /\ i + 1 \in 1 .. n - 1
      BY <2>1
    <3> QED
      BY <1>2, <2>1, <3>1
  <2>5. CASE k = n
    <3>1. p = 0 /\ pending = <<>>
      BY <1>1, <1>2, <2>5
    <3>2. pending' = pending
      BY <1>3, <1>7, <2>2, <3>1 DEF Log!PendingAfter
    <3>3. since'.calls = n - 1
      BY <1>1, <1>3, <1>4, <2>1, <2>5
    <3>4. Len(pending') = Len(calls') - since'.calls /\ \A i \in 1 .. Len(pending') : FALSE
      BY <2>1, <3>1, <3>2, <3>3
    <3> QED
      BY <2>3, <2>4, <3>4 DEF PendingInv
  <2>6. CASE k < n
    <3>1. p \in Nat \ {0} /\ pending # <<>> /\ k + p = n
      BY <1>1, <1>2, <2>6
    <3>2. pending[p].expected = calls[n].back
      <4>1. p \in 1 .. p
        BY <3>1
      <4> QED
        BY <1>2, <3>1, <4>1
    <3>3. pending' = SubSeq(pending, 1, p - 1)
      BY <1>3, <1>7, <2>2, <3>1, <3>2 DEF Log!PendingAfter, Log!Last, Log!Front
    <3>4. Len(pending') = p - 1 /\ \A i \in 1 .. p - 1 : pending'[i] = pending[i]
      BY <1>1, <3>1, <3>3, FrontOfCalls
    <3>5. since'.calls = k
      BY <1>1, <1>3, <1>4, <2>1, <2>6
    <3> HIDE DEF n, k, p
    <3>6. Len(pending') = Len(calls') - since'.calls
      BY <1>1, <1>2, <2>1, <3>4, <3>5
    <3>7. ASSUME NEW i \in 1 .. Len(pending')
          PROVE  pending'[i].expected = calls'[since'.calls + i].back /\ pending'[i].started = calls'[since'.calls + i].at
      <4>1. i \in 1 .. p - 1 /\ i \in 1 .. p /\ k + i \in 1 .. n - 1
        BY <1>1, <1>2, <3>4
      <4> QED
        BY <1>2, <2>1, <3>4, <3>5, <4>1, SMTT(90), SMTT(90)
    <3> QED
      BY <2>3, <2>4, <3>6, <3>7 DEF PendingInv
  <2> QED
    BY <1>1, <2>5, <2>6
<1> QED
  BY <1>5, <1>6, <1>7 DEF Moves

(* The end of a run notes only that a call was reported. *)
LEMMA EndPending ==
  ASSUME EventTypes, Log!EndRun, PendingInv
  PROVE  PendingInv'
<1>1. UNCHANGED <<program, bank, calls, since>>
  BY DEF Log!EndRun, Log!Machine
<1>2. PICK first : pending' = pending \/ pending' = [pending EXCEPT ![first].reported = TRUE]
  BY DEF Log!EndRun
<1>3. pending \in Seq(Waits) /\ DOMAIN pending = 1 .. Len(pending) /\ Len(pending) \in Nat
  BY DEF EventTypes, Waits
<1>4. Len(pending') = Len(pending)
      /\ \A i \in 1 .. Len(pending) : pending'[i].expected = pending[i].expected /\ pending'[i].started = pending[i].started
  <2>1. CASE pending' = pending
    BY <2>1
  <2>2. CASE pending' = [pending EXCEPT ![first].reported = TRUE]
    <3>1. pending' \in Seq(Waits)
      BY EndTypes DEF EventTypes, Waits
    <3>2. DOMAIN pending' = DOMAIN pending
      BY <2>2
    <3>3. Len(pending') = Len(pending)
      BY <1>3, <3>1, <3>2
    <3>4. \A i \in 1 .. Len(pending) : pending[i] \in Waits
      BY <1>3
    <3> QED
      BY <1>3, <2>2, <3>3, <3>4 DEF Waits
  <2> QED
    BY <1>2, <2>1, <2>2
<1> QED
  BY <1>1, <1>3, <1>4 DEF PendingInv

(* Every step does. *)
LEMMA PendingStep == EventTypes /\ PendingInv /\ [Log!Next]_(Log!vars) => PendingInv'
<1> SUFFICES ASSUME EventTypes, PendingInv, [Log!Next]_(Log!vars) PROVE PendingInv'
  OBVIOUS
<1>1. CASE Log!BeginRun
  <2>1. program' = program /\ calls' = calls /\ bank' = bank /\ since'.calls = Len(calls) /\ pending' = <<>>
    BY <1>1 DEF Log!BeginRun, Log!Machine, Log!Fresh, EventTypes
  <2>2. Len(calls) \in Nat /\ Len(<<>>) = 0
    BY DEF EventTypes
  <2> QED
    BY <2>1, <2>2 DEF PendingInv
<1>2. CASE Log!Load
  <2>1. calls' = <<>> /\ since'.calls = 0 /\ pending' = <<>>
    BY <1>2 DEF Log!Load, Log!Fresh
  <2> QED
    BY <2>1 DEF PendingInv
<1>3. CASE Log!Capture
  BY <1>3 DEF Log!Capture, Log!Machine, PendingInv
<1>4. CASE UNCHANGED Log!vars
  BY <1>4 DEF Log!vars, PendingInv
<1>5. CASE Log!Next
  BY <1>1, <1>2, <1>3, <1>5, EventStepIsOne, MovePending, EndPending
<1> QED
  BY <1>4, <1>5

(* There are none initially. *)
LEMMA PendingInit == Log!Init => PendingInv
  BY DEF Log!Init, PendingInv

-----------------------------------------------------------------------------
(* Changes of the picture.                                                   *)

(* Two that follow one another differ. *)
Differ(s) == \E i \in 2 .. Len(s) : s[i] # s[i - 1]

(* What a frame is compared with is what was shown last. *)
ChangesInv ==
  ~ since.loaded =>
    /\ changed = [screen |-> Differ(since.shown), vram |-> Differ(since.held)]
    /\ Log!Prepared.picture = since.shown[Len(since.shown)]
    /\ Log!Prepared.vram = since.held[Len(since.held)]

(* The invariant says of the changes what is promised. *)
LEMMA ChangesAreChanges == ChangesInv => Log!ChangesAreSeen
  BY DEF ChangesInv, Log!ChangesAreSeen, Differ

(* Two neighbours differ in a longer sequence. *)
LEMMA DifferMore ==
  ASSUME NEW s \in Seq(Pixels), s # <<>>, NEW x \in Pixels
  PROVE  /\ Differ(Append(s, x)) <=> (Differ(s) \/ s[Len(s)] # x)
         /\ Append(s, x)[Len(Append(s, x))] = x
<1> DEFINE t == Append(s, x)
           n == Len(s)
<1>1. n \in Nat \ {0} /\ Len(t) = n + 1 /\ t[n + 1] = x /\ \A i \in 1 .. n : t[i] = s[i]
  BY AppendProperties
<1> HIDE DEF t, n
<1>2. ASSUME NEW i \in 2 .. n PROVE t[i] # t[i - 1] <=> s[i] # s[i - 1]
  <2>1. i \in 1 .. n /\ i - 1 \in 1 .. n
    BY <1>1
  <2> QED
    BY <1>1, <2>1
<1>3. ASSUME NEW i \in 2 .. n + 1, t[i] # t[i - 1] PROVE (\E j \in 2 .. n : s[j] # s[j - 1]) \/ s[n] # x
  <2>1. CASE i = n + 1
    <3>1. i - 1 = n /\ n \in 1 .. n
      BY <1>1, <2>1
    <3> QED
      BY <1>1, <1>3, <2>1, <3>1
  <2>2. CASE i \in 2 .. n
    BY <1>2, <1>3, <2>2
  <2> QED
    BY <1>1, <2>1, <2>2
<1>4. ASSUME NEW j \in 2 .. n, s[j] # s[j - 1] PROVE \E i \in 2 .. n + 1 : t[i] # t[i - 1]
  <2>1. j \in 2 .. n + 1
    BY <1>1
  <2> QED
    BY <1>2, <1>4, <2>1
<1>5. ASSUME s[n] # x PROVE \E i \in 2 .. n + 1 : t[i] # t[i - 1]
  <2>1. n + 1 \in 2 .. n + 1 /\ (n + 1) - 1 = n /\ n \in 1 .. n
    BY <1>1
  <2> QED
    BY <1>1, <1>5, <2>1
<1>6. Differ(t) <=> \E i \in 2 .. n + 1 : t[i] # t[i - 1]
  BY <1>1 DEF Differ
<1>7. Differ(s) <=> \E i \in 2 .. n : s[i] # s[i - 1]
  BY DEF Differ, n
<1>8. Differ(t) <=> (Differ(s) \/ s[n] # x)
  BY <1>3, <1>4, <1>5, <1>6, <1>7
<1>9. t[Len(t)] = x
  BY <1>1
<1> QED
  BY <1>8, <1>9 DEF t, n

(* The end of a frame compares with what the last one showed. *)
LEMMA MoveChanges ==
  ASSUME EventTypes, NEW m, NEW trace, NEW target, Moves(m, trace, target), Log!Step(m, trace, target),
         ChangesInv
  PROVE  ChangesInv'
<1> SUFFICES ASSUME ~ since.loaded, ~ since'.loaded
             PROVE  /\ changed' = [screen |-> Differ(since'.shown), vram |-> Differ(since'.held)]
                    /\ Log!Prepared'.picture = since'.shown[Len(since'.shown)]
                    /\ Log!Prepared'.vram = since'.held[Len(since'.held)]
  <2>1. since'.loaded = since.loaded
    BY HistoryAfter
  <2> QED
    BY <2>1 DEF ChangesInv
<1> DEFINE base == Log!Prepared
           sh == since.shown
           he == since.held
<1>1. /\ changed = [screen |-> Differ(sh), vram |-> Differ(he)]
      /\ base.picture = sh[Len(sh)] /\ base.vram = he[Len(he)]
  BY DEF ChangesInv
<1>2. sh \in Seq(Pixels) /\ he \in Seq(Pixels) /\ sh # <<>> /\ he # <<>> /\ baseline \in Baselines /\ frames \in Nat
  BY DEF EventTypes
<1>3. m.picture \in Pixels /\ m.vram \in Pixels
  BY DEF Moves, ProgramStates
<1>4. base.frame = frames /\ DOMAIN base = {"frame", "picture", "vram", "last", "timer"}
  BY <1>2 DEF Log!Prepared, Baselines
<1>5. CASE m.frames # frames
  <2>1. since'.shown = Append(sh, m.picture) /\ since'.held = Append(he, m.vram)
    BY <1>5, HistoryAfter
  <2>2. /\ changed' = [screen |-> changed.screen \/ base.picture # m.picture,
                       vram |-> changed.vram \/ base.vram # m.vram]
        /\ baseline' = [frame |-> m.frames, picture |-> m.picture, vram |-> m.vram,
                        last |-> m.picture, timer |-> m.iflag]
        /\ frames' = m.frames
    BY <1>5 DEF Log!Step
  <2>3. Log!Prepared' = baseline'
    BY <2>2 DEF Log!Prepared
  <2>4. Differ(Append(sh, m.picture)) <=> (Differ(sh) \/ base.picture # m.picture)
    BY <1>1, <1>2, <1>3, DifferMore
  <2>5. Differ(Append(he, m.vram)) <=> (Differ(he) \/ base.vram # m.vram)
    BY <1>1, <1>2, <1>3, DifferMore
  <2>6. changed.screen = Differ(sh) /\ changed.vram = Differ(he)
    BY <1>1
  <2>7. changed' = [screen |-> Differ(Append(sh, m.picture)), vram |-> Differ(Append(he, m.vram))]
    <3>1. (changed.screen \/ base.picture # m.picture) = Differ(Append(sh, m.picture))
      BY <2>4, <2>6 DEF Differ
    <3>2. (changed.vram \/ base.vram # m.vram) = Differ(Append(he, m.vram))
      BY <2>5, <2>6 DEF Differ
    <3> QED
      BY <2>2, <3>1, <3>2
  <2>8. since'.shown[Len(since'.shown)] = m.picture /\ since'.held[Len(since'.held)] = m.vram
    BY <1>2, <1>3, <2>1, DifferMore
  <2> QED
    BY <2>1, <2>2, <2>3, <2>7, <2>8
<1>6. CASE m.frames = frames
  <2>1. since'.shown = sh /\ since'.held = he
    BY <1>6, HistoryAfter
  <2>2. changed' = changed /\ baseline' = [base EXCEPT !.timer = m.iflag] /\ frames' = frames
    BY <1>6 DEF Log!Step
  <2>3. baseline'.frame = frames' /\ baseline'.picture = base.picture /\ baseline'.vram = base.vram
    BY <1>4, <2>2
  <2>4. Log!Prepared' = baseline'
    BY <2>3 DEF Log!Prepared
  <2> QED
    BY <1>1, <2>1, <2>2, <2>3, <2>4
<1> QED
  BY <1>5, <1>6

(* Every step keeps the changes seen. *)
LEMMA ChangesStep == EventTypes /\ ChangesInv /\ [Log!Next]_(Log!vars) => ChangesInv'
<1> SUFFICES ASSUME EventTypes, ChangesInv, [Log!Next]_(Log!vars) PROVE ChangesInv'
  OBVIOUS
<1>0. baseline \in Baselines /\ frames \in Nat
  BY DEF EventTypes
<1>1. CASE Log!EndRun
  <2>1. changed' = changed /\ since' = since /\ frames' = frames /\ vram' = vram /\ picture' = picture
        /\ baseline' = [baseline EXCEPT !.last = IF @ = -1 THEN picture ELSE @]
    BY <1>1 DEF Log!EndRun, Log!Machine
  <2>2. /\ baseline'.frame = baseline.frame /\ baseline'.picture = baseline.picture
        /\ baseline'.vram = baseline.vram
        /\ baseline'.last = IF baseline.last = -1 THEN picture ELSE baseline.last
    BY <1>0, <2>1 DEF Baselines
  <2>3. Log!Prepared'.picture = Log!Prepared.picture /\ Log!Prepared'.vram = Log!Prepared.vram
    <3>1. CASE baseline.frame = frames
      BY <2>1, <2>2, <3>1 DEF Log!Prepared
    <3>2. CASE baseline.frame # frames
      <4>1. baseline' \in Baselines /\ picture \in Pixels
        BY <1>1, EndTypes DEF EventTypes
      <4>2. /\ Log!Prepared.vram = vram
            /\ Log!Prepared.picture = IF baseline.last = -1 THEN picture ELSE baseline.last
        BY <1>0, <3>2 DEF Log!Prepared, Baselines
      <4>3. /\ Log!Prepared'.vram = vram
            /\ Log!Prepared'.picture = IF baseline'.last = -1 THEN picture ELSE baseline'.last
        BY <2>1, <2>2, <3>2, <4>1 DEF Log!Prepared, Baselines
      <4> QED
        BY <2>2, <4>2, <4>3
    <3> QED
      BY <3>1, <3>2
  <2> QED
    BY <2>1, <2>3 DEF ChangesInv
<1>2. CASE Log!BeginRun
  <2> DEFINE p == IF baseline.last = -1 THEN picture ELSE baseline.last
  <2>1. /\ changed' = [screen |-> FALSE, vram |-> FALSE] /\ since'.shown = <<p>> /\ since'.held = <<vram>>
        /\ frames' = frames /\ vram' = vram /\ picture' = picture
        /\ baseline' = [baseline EXCEPT !.frame = -1, !.timer = iflag]
    BY <1>2 DEF Log!BeginRun, Log!Machine, Log!Fresh, EventTypes
  <2>2. baseline'.frame # frames' /\ baseline'.last = baseline.last
    BY <1>0, <2>1 DEF Baselines
  <2>3. baseline' \in Baselines
    BY <1>2, BeginTypes DEF EventTypes
  <2>4. Log!Prepared'.picture = p /\ Log!Prepared'.vram = vram
    BY <2>1, <2>2, <2>3 DEF Log!Prepared, Baselines
  <2>5. ~ Differ(since'.shown) /\ ~ Differ(since'.held) /\ Len(since'.shown) = 1 /\ Len(since'.held) = 1
    BY <2>1 DEF Differ
  <2>6. changed' = [screen |-> Differ(since'.shown), vram |-> Differ(since'.held)]
    <3>1. Differ(since'.shown) = FALSE /\ Differ(since'.held) = FALSE
      BY <2>5 DEF Differ
    <3> QED
      BY <2>1, <3>1
  <2> HIDE DEF p
  <2>7. since'.shown[Len(since'.shown)] = p /\ since'.held[Len(since'.held)] = vram
    BY <2>1, <2>5
  <2> QED
    BY <2>4, <2>6, <2>7 DEF ChangesInv
<1>3. CASE Log!Load
  BY <1>3 DEF Log!Load, ChangesInv
<1>4. CASE Log!Capture \/ UNCHANGED Log!vars
  <2>1. changed' = changed /\ since' = since /\ frames' = frames /\ vram' = vram /\ picture' = picture
        /\ baseline' = baseline
    BY <1>4 DEF Log!Capture, Log!Machine, Log!vars
  <2>2. Log!Prepared' = Log!Prepared
    BY <2>1 DEF Log!Prepared
  <2> QED
    BY <2>1, <2>2 DEF ChangesInv
<1>5. CASE Log!Next
  BY <1>1, <1>2, <1>3, <1>4, <1>5, EventStepIsOne, MoveChanges
<1> QED
  BY <1>4, <1>5

(* None are seen initially. *)
LEMMA ChangesInit == Log!Init => ChangesInv
<1> SUFFICES ASSUME Log!Init PROVE ChangesInv
  OBVIOUS
<1>1. /\ frames = 0 /\ baseline = [frame |-> -1, picture |-> 0, vram |-> 0, last |-> -1, timer |-> FALSE]
      /\ vram = 0 /\ picture = 0 /\ since.shown = <<0>> /\ since.held = <<0>>
      /\ changed = [screen |-> FALSE, vram |-> FALSE]
  BY DEF Log!Init
<1>2. Log!Prepared.picture = 0 /\ Log!Prepared.vram = 0
  BY <1>1 DEF Log!Prepared
<1>3. Differ(<<0>>) = FALSE
  BY DEF Differ
<1>4. since.shown[Len(since.shown)] = 0 /\ since.held[Len(since.held)] = 0
  BY <1>1
<1>5. changed = [screen |-> Differ(since.shown), vram |-> Differ(since.held)]
  BY <1>1, <1>3
<1> QED
  BY <1>2, <1>4, <1>5 DEF ChangesInv

-----------------------------------------------------------------------------
(* How often an address was met.                                             *)

(* How often p is among the w members from the i-th on. *)
Hits(s, w, i, p) == Told(s, i, IF i + w - 1 =< Len(s) THEN i + w - 1 ELSE Len(s), {p})
MostHits(s, w, b) ==
  /\ \A i \in 1 .. Len(s), p \in 0 .. 2 : Hits(s, w, i, p) =< b
  /\ b = 0 \/ \E i \in 1 .. Len(s), p \in 0 .. 2 : Hits(s, w, i, p) = b

(* How often an address occurs is a number. *)
LEMMA HitsAreNumbers ==
  ASSUME NEW s \in Seq(0 .. 2), NEW w \in Nat, NEW i \in Nat, NEW p
  PROVE  Hits(s, w, i, p) \in Nat
<1>1. (IF i + w - 1 =< Len(s) THEN i + w - 1 ELSE Len(s)) \in Int
  OBVIOUS
<1> QED
  BY <1>1, ToldType DEF Hits

(* With one more, only the last window can have more than any before. *)
LEMMA MostOfMore ==
  ASSUME NEW s \in Seq(0 .. 2), NEW w \in Nat \ {0}, NEW b \in Nat, NEW x \in 0 .. 2,
         NEW k \in Nat, NEW h \in Nat
  PROVE  /\ MostHits(s, w, b) /\ k = (IF Len(s) + 1 =< w THEN Len(s) + 1 ELSE w)
         /\ h = Told(Append(s, x), Len(s) + 1 - k + 1, Len(s) + 1, {x})
         => MostHits(Append(s, x), w, IF b >= h THEN b ELSE h)
<1>0. SUFFICES ASSUME MostHits(s, w, b), k = (IF Len(s) + 1 =< w THEN Len(s) + 1 ELSE w),
                      h = Told(Append(s, x), Len(s) + 1 - k + 1, Len(s) + 1, {x})
               PROVE  MostHits(Append(s, x), w, IF b >= h THEN b ELSE h)
  OBVIOUS
<1> DEFINE t == Append(s, x)
           n == Len(s)
           c == IF b >= h THEN b ELSE h
<1>1. n \in Nat /\ t \in Seq(0 .. 2) /\ Len(t) = n + 1 /\ t[n + 1] = x /\ \A i \in 1 .. n : t[i] = s[i]
  BY AppendProperties
<1>h. h = Told(t, n + 1 - k + 1, n + 1, {x})
  BY <1>0
<1>2. k = (IF n + 1 =< w THEN n + 1 ELSE w) /\ k >= 1 /\ k =< n + 1
  BY <1>0, <1>1
<1>c. c \in Nat /\ b =< c /\ h =< c /\ (c = b \/ c = h)
  OBVIOUS
<1> HIDE DEF t, n, c
<1>3. ASSUME NEW i \in 1 .. n + 1, NEW p \in 0 .. 2
      PROVE  /\ i + w - 1 =< n => Hits(t, w, i, p) = Hits(s, w, i, p)
             /\ i + w - 1 > n => Hits(t, w, i, p) = Told(t, i, n + 1, {p})
             /\ i + w - 1 > n /\ p # x => Hits(t, w, i, p) = Told(s, i, n, {p})
             /\ i + w - 1 > n /\ i =< n => Hits(s, w, i, p) = Told(s, i, n, {p})
  <2>1. ASSUME i + w - 1 =< n PROVE Hits(t, w, i, p) = Hits(s, w, i, p)
    <3>1. PICK j \in Int : j = i + w - 1
      BY <1>1
    <3>2. Hits(t, w, i, p) = Told(t, i, j, {p}) /\ Hits(s, w, i, p) = Told(s, i, j, {p})
      BY <1>1, <2>1, <3>1 DEF Hits, n
    <3>3. i \in Int /\ \A q \in i .. j : t[q] = s[q]
      BY <1>1, <2>1, <3>1
    <3>4. Told(t, i, j, {p}) = Told(s, i, j, {p})
      BY <3>1, <3>3, ToldSame
    <3> QED
      BY <3>2, <3>4
  <2>2. ASSUME i + w - 1 > n PROVE Hits(t, w, i, p) = Told(t, i, n + 1, {p})
    <3>1. CASE i + w - 1 =< n + 1
      <4>1. i + w - 1 = n + 1
        BY <1>1, <2>2, <3>1
      <4> QED
        BY <1>1, <4>1 DEF Hits
    <3>2. CASE ~ (i + w - 1 =< n + 1)
      BY <1>1, <3>2 DEF Hits
    <3> QED
      BY <3>1, <3>2
  <2>3. ASSUME i + w - 1 > n, p # x PROVE Hits(t, w, i, p) = Told(s, i, n, {p})
    <3>1. i \in Int /\ n \in Int /\ n + 1 \in Int /\ i =< n + 1 /\ n =< n + 1
      BY <1>1
    <3>2. Told(t, i, n + 1, {p}) = Told(t, i, n, {p}) + Told(t, n + 1, n + 1, {p})
      BY <3>1, ToldSplit
    <3>3. Told(t, n + 1, n + 1, {p}) = 0
      BY <1>1, <2>3, <3>1, ToldOne
    <3>4. Told(t, i, n, {p}) = Told(s, i, n, {p})
      <4>1. \A q \in i .. n : t[q] = s[q]
        BY <1>1
      <4> QED
        BY <3>1, <4>1, ToldSame
    <3>5. Told(s, i, n, {p}) \in Nat
      BY <3>1, ToldType
    <3> QED
      BY <2>2, <2>3, <3>2, <3>3, <3>4, <3>5
  <2>4. ASSUME i + w - 1 > n, i =< n PROVE Hits(s, w, i, p) = Told(s, i, n, {p})
    <3>1. ~ (i + w - 1 =< n)
      BY <1>1, <2>4
    <3> QED
      BY <3>1 DEF Hits, n
  <2> QED
    BY <2>1, <2>2, <2>3, <2>4
<1>4. ASSUME NEW i \in 1 .. n, NEW p \in 0 .. 2 PROVE Hits(s, w, i, p) =< b /\ Hits(s, w, i, p) \in Nat
  <2>1. Hits(s, w, i, p) =< b
    BY <1>0 DEF MostHits, n
  <2>2. i \in Nat
    BY <1>1
  <2> QED
    BY <2>1, <2>2, HitsAreNumbers
<1>5. ASSUME NEW i \in 1 .. n + 1, NEW p \in 0 .. 2 PROVE Hits(t, w, i, p) =< c
  <2>1. CASE i + w - 1 =< n
    <3>1. i \in 1 .. n
      BY <1>1, <2>1
    <3>2. Hits(t, w, i, p) = Hits(s, w, i, p)
      BY <1>3, <2>1
    <3>3. Hits(s, w, i, p) =< b /\ Hits(s, w, i, p) \in Nat
      BY <1>4, <3>1
    <3> QED
      BY <1>c, <3>2, <3>3
  <2>2. CASE i + w - 1 > n /\ p # x
    <3>1. Hits(t, w, i, p) = Told(s, i, n, {p})
      BY <1>3, <2>2
    <3>2. CASE i =< n
      <4>1. i \in 1 .. n
        BY <1>1, <3>2
      <4>2. Hits(s, w, i, p) = Told(s, i, n, {p})
        BY <1>3, <2>2, <3>2
      <4>3. Hits(s, w, i, p) =< b /\ Hits(s, w, i, p) \in Nat
        BY <1>4, <4>1
      <4> QED
        BY <1>c, <3>1, <4>2, <4>3
    <3>3. CASE i = n + 1
      <4>1. i \in Int /\ n \in Int /\ n < i
        BY <1>1, <3>3
      <4>2. Told(s, i, n, {p}) = 0
        BY <4>1, ToldNone
      <4> QED
        BY <1>c, <3>1, <4>2
    <3> QED
      BY <1>1, <3>2, <3>3
  <2>3. CASE i + w - 1 > n /\ p = x
    <3>1. Hits(t, w, i, p) = Told(t, i, n + 1, {x})
      BY <1>3, <2>3
    <3> DEFINE j == n + 1 - k + 1
               l == n + 1
    <3>2. j \in Int /\ l \in Int
      BY <1>1
    <3>3. i \in Int /\ j =< i /\ l =< l
      BY <1>1, <1>2, <2>3, <3>2
    <3>4. Told(t, j, l, {x}) = h /\ Hits(t, w, i, p) = Told(t, i, l, {x})
      BY <1>h, <3>1
    <3> HIDE DEF j, l
    <3>5. Told(t, i, l, {x}) =< Told(t, j, l, {x})
      BY <3>2, <3>3, ToldMore
    <3>6. Told(t, i, l, {x}) \in Nat
      BY <3>2, <3>3, ToldType
    <3> QED
      BY <1>c, <3>4, <3>5, <3>6
  <2> QED
    BY <1>1, <2>1, <2>2, <2>3
<1>6. c = 0 \/ \E i \in 1 .. n + 1, p \in 0 .. 2 : Hits(t, w, i, p) = c
  <2>1. CASE c = h
    <3> DEFINE i == n + 1 - k + 1
    <3>1. i \in 1 .. n + 1
      BY <1>1, <1>2
    <3>2. i + w - 1 > n
      BY <1>1, <1>2, <3>1
    <3>h. Told(t, i, n + 1, {x}) = h
      BY <1>h
    <3> HIDE DEF i
    <3>3. Hits(t, w, i, x) = h
      BY <1>3, <3>1, <3>2, <3>h
    <3> QED
      BY <2>1, <3>1, <3>3
  <2>2. CASE c = b /\ b # 0
    <3>1. PICK i \in 1 .. n, p \in 0 .. 2 : Hits(s, w, i, p) = b
      BY <1>0, <2>2 DEF MostHits, n
    <3>2. i \in 1 .. n + 1
      BY <1>1
    <3>3. CASE i + w - 1 =< n
      BY <1>3, <2>2, <3>1, <3>2, <3>3
    <3>4. CASE i + w - 1 > n
      <4>0. i =< n
        BY <1>1
      <4>1. Hits(t, w, i, p) = Told(t, i, n + 1, {p}) /\ Told(s, i, n, {p}) = b
        BY <1>3, <3>1, <3>2, <3>4, <4>0
      <4>2. \A q \in i .. n : t[q] = s[q]
        BY <1>1
      <4>3. i \in Int /\ n \in Int /\ n + 1 \in Int /\ n =< n + 1 /\ i =< i
        BY <1>1
      <4>4. Told(t, i, n, {p}) = Told(s, i, n, {p})
        BY <4>2, <4>3, ToldSame
      <4>5. Told(t, i, n, {p}) =< Told(t, i, n + 1, {p})
        BY <4>3, ToldMore
      <4>6. Hits(t, w, i, p) =< c
        BY <1>5, <3>2
      <4>7. Hits(t, w, i, p) \in Nat
        <5>1. i \in Nat /\ w \in Nat
          BY <1>1
        <5> QED
          BY <1>1, <5>1, HitsAreNumbers
      <4>8. Hits(t, w, i, p) = c
        BY <1>c, <2>2, <4>1, <4>4, <4>5, <4>6, <4>7
      <4> QED
        BY <3>2, <4>8
    <3> QED
      BY <1>1, <3>3, <3>4
  <2> QED
    BY <1>c, <2>1, <2>2
<1>7. Len(t) = n + 1
  BY <1>1
<1>8. MostHits(t, w, c)
  BY <1>5, <1>6, <1>7 DEF MostHits
<1> QED
  BY <1>8 DEF t, c

(* What is remembered are the last addresses, as many as fit. *)
RepetitionInv ==
  LET s == since.pcs
      k == Len(pcs.recent)
  IN /\ k = IF Len(s) =< PcWindow THEN Len(s) ELSE PcWindow
     /\ \A i \in 1 .. k : pcs.recent[i] = s[(Len(s) - k) + i]
     /\ MostHits(s, PcWindow, pcs.best)

(* The invariant says of the score what is promised. *)
LEMMA RepetitionIsRepetition == EventTypes /\ RepetitionInv => Log!RepetitionIsMostInWindow
<1> SUFFICES ASSUME EventTypes, RepetitionInv PROVE Log!RepetitionIsMostInWindow
  OBVIOUS
<1> DEFINE s == since.pcs
           w == PcWindow
           H(i, p) == Log!Cardinality({j \in i .. Log!Min({i + w - 1, Len(s)}) : s[j] = p})
           M == {0} \union {H(i, p) : i \in DOMAIN s, p \in 0 .. 2}
           b == pcs.best
<1>1. s \in Seq(0 .. 2) /\ DOMAIN s = 1 .. Len(s) /\ Len(s) \in Nat /\ w \in Nat \ {0} /\ b \in Nat
  BY BanksAreNumbers DEF EventTypes
<1>2. MostHits(s, w, b)
  BY DEF RepetitionInv
<1>3. ASSUME NEW i \in 1 .. Len(s), NEW p \in 0 .. 2 PROVE H(i, p) = Hits(s, w, i, p)
  <2>1. i + w - 1 \in Int /\ Len(s) \in Int
    BY <1>1
  <2>2. Log!Min({i + w - 1, Len(s)}) = IF i + w - 1 =< Len(s) THEN i + w - 1 ELSE Len(s)
    BY <2>1, LesserOfTwo
  <2>3. \A j : s[j] = p <=> s[j] \in {p}
    OBVIOUS
  <2> QED
    BY <2>2, <2>3, CardinalityIsOne DEF Hits, Told, Where
<1>4. b \in M /\ \A y \in M : b >= y
  <2>1. \A i \in DOMAIN s, p \in 0 .. 2 : H(i, p) = Hits(s, w, i, p)
    BY <1>1, <1>3
  <2> HIDE DEF H, s, w, b
  <2>2. b \in M
    BY <1>1, <1>2, <2>1 DEF MostHits
  <2>3. ASSUME NEW i \in DOMAIN s, NEW p \in 0 .. 2 PROVE H(i, p) =< b /\ H(i, p) \in Nat
    <3>1. i \in Nat /\ w \in Nat
      BY <1>1
    <3>2. Hits(s, w, i, p) \in Nat
      BY <1>1, <3>1, HitsAreNumbers
    <3> QED
      BY <1>1, <1>2, <2>1, <3>2 DEF MostHits
  <2> QED
    BY <1>1, <2>2, <2>3, SMTT(90)
<1> HIDE DEF M
<1>5. M \subseteq Nat
  <2>1. ASSUME NEW i \in DOMAIN s, NEW p \in 0 .. 2 PROVE H(i, p) \in Nat
    <3>1. i \in Nat /\ w \in Nat
      BY <1>1
    <3>2. Hits(s, w, i, p) \in Nat
      BY <1>1, <3>1, HitsAreNumbers
    <3>3. H(i, p) = Hits(s, w, i, p)
      BY <1>1, <1>3
    <3> QED
      BY <3>2, <3>3
  <2> HIDE DEF H
  <2> QED
    BY <2>1 DEF M
<1>6. Log!Max(M) \in M /\ \A y \in M : Log!Max(M) >= y
  BY <1>4 DEF Log!Max
<1>7. b = Log!Max(M)
  <2>1. b \in Nat /\ Log!Max(M) \in Nat /\ b >= Log!Max(M) /\ Log!Max(M) >= b
    BY <1>4, <1>5, <1>6
  <2> QED
    BY <2>1
<1> QED
  BY <1>7 DEF Log!RepetitionIsMostInWindow, M, H, s, w, b

(* One more address, with the oldest forgotten when there are too many. *)
LEMMA MoveRepetition ==
  ASSUME EventTypes, NEW m, NEW trace, NEW target, Moves(m, trace, target), Log!Step(m, trace, target),
         RepetitionInv
  PROVE  RepetitionInv'
<1> DEFINE s == since.pcs
           n == Len(s)
           w == PcWindow
           old == pcs.recent
           kept == IF Len(old) = w THEN Tail(old) ELSE old
           r == Append(kept, pc)
           k == IF n + 1 =< w THEN n + 1 ELSE w
           t == Append(s, pc)
           h == Log!Cardinality({i \in DOMAIN r : r[i] = pc})
<1>1. s \in Seq(0 .. 2) /\ n \in Nat /\ w \in Nat \ {0} /\ old \in Seq(0 .. 2) /\ pc \in 0 .. 2 /\ pcs.best \in Nat
  BY BanksAreNumbers DEF EventTypes
<1>2. /\ Len(old) = IF n =< w THEN n ELSE w
      /\ \A i \in 1 .. Len(old) : old[i] = s[(n - Len(old)) + i]
      /\ MostHits(s, w, pcs.best)
  BY DEF RepetitionInv
<1>3. since'.pcs = t
  BY HistoryAfter
<1>4. pcs' = [recent |-> r, best |-> Log!Max({pcs.best, h})]
  BY ZenonT(120) DEF Log!Step, Log!Recorded
<1> HIDE DEF n
<1>5. kept \in Seq(0 .. 2) /\ Len(kept) = k - 1 /\ k \in Nat /\ k >= 1 /\ k =< n + 1
      /\ \A i \in 1 .. k - 1 : kept[i] = s[(n + 1 - k) + i]
  <2>1. CASE Len(old) = w
    <3>1. old # <<>> /\ n >= w
      BY <1>1, <1>2, <2>1
    <3>2. Tail(old) \in Seq(0 .. 2) /\ Len(Tail(old)) = w - 1 /\ \A i \in 1 .. w - 1 : Tail(old)[i] = old[i + 1]
      BY <1>1, <2>1, <3>1, HeadTailProperties
    <3>3. k = w
      BY <1>1, <3>1
    <3>4. \A i \in 1 .. w - 1 : old[i + 1] = s[(n + 1 - w) + i]
      <4> TAKE i \in 1 .. w - 1
      <4>1. i + 1 \in 1 .. w /\ (n - w) + (i + 1) = (n + 1 - w) + i
        BY <1>1
      <4> QED
        BY <1>2, <2>1, <4>1
    <3> HIDE DEF k
    <3> QED
      BY <1>1, <2>1, <3>1, <3>2, <3>3, <3>4
  <2>2. CASE Len(old) # w
    <3>0. n < w /\ Len(old) = n
      BY <1>1, <1>2, <2>2
    <3>1. n < w /\ Len(old) = n /\ k = n + 1
      BY <1>1, <3>0
    <3>2. \A i \in 1 .. n : old[i] = s[(n + 1 - (n + 1)) + i]
      <4> TAKE i \in 1 .. n
      <4>1. (n - n) + i = (n + 1 - (n + 1)) + i
        BY <1>1
      <4> QED
        BY <1>2, <3>1, <4>1
    <3> HIDE DEF k
    <3> QED
      BY <1>1, <2>2, <3>1, <3>2
  <2> QED
    BY <2>1, <2>2
<1> HIDE DEF kept, k
<1>6. r \in Seq(0 .. 2) /\ Len(r) = k /\ r[k] = pc /\ (\A i \in 1 .. k - 1 : r[i] = kept[i]) /\ DOMAIN r = 1 .. k
  <2>1. /\ r \in Seq(0 .. 2) /\ Len(r) = Len(kept) + 1 /\ (\A i \in 1 .. Len(kept) : r[i] = kept[i])
        /\ r[Len(kept) + 1] = pc
    BY <1>1, <1>5, AppendProperties
  <2>2. Len(kept) + 1 = k
    BY <1>5
  <2> QED
    BY <1>5, <2>1, <2>2
<1>7. t \in Seq(0 .. 2) /\ Len(t) = n + 1 /\ t[n + 1] = pc /\ \A i \in 1 .. n : t[i] = s[i]
  BY <1>1, AppendProperties DEF n
<1> HIDE DEF r, t
<1>8. \A i \in 1 .. k : r[i] = t[(n + 1 - k) + i]
  <2> TAKE i \in 1 .. k
  <2>1. CASE i = k
    <3>1. (n + 1 - k) + i = n + 1
      BY <1>1, <1>5, <2>1
    <3> QED
      BY <1>6, <1>7, <2>1, <3>1
  <2>2. CASE i \in 1 .. k - 1
    <3>1. (n + 1 - k) + i \in 1 .. n
      BY <1>1, <1>5, <2>2, SMTT(90)
    <3> QED
      BY <1>5, <1>6, <1>7, <2>2, <3>1
  <2> QED
    BY <1>5, <2>1, <2>2
<1>9. h = Told(t, n + 1 - k + 1, n + 1, {pc}) /\ h \in Nat
  <2> DEFINE x == n + 1 - k + 1
             y == n + 1
  <2>1. x \in Int /\ y \in Int
    BY <1>1, <1>5
  <2>2. 1 \in Int /\ k \in Int /\ y - x = k - 1
    BY <1>1, <1>5
  <2>3. \A p \in x .. y, q \in 1 .. k : p - x = q - 1 => t[p] = r[q]
    <3> TAKE p \in x .. y, q \in 1 .. k
    <3> HAVE p - x = q - 1
    <3>1. p = (n + 1 - k) + q
      BY <1>1, <1>5, <2>1
    <3> QED
      BY <1>8, <3>1
  <2> HIDE DEF x, y
  <2>4. Told(t, x, y, {pc}) = Told(r, 1, k, {pc})
    BY <2>1, <2>2, <2>3, ToldShift, SMTT(90)
  <2>5. h = Told(r, 1, k, {pc})
    <3>1. {i \in DOMAIN r : r[i] = pc} = Where(r, 1, k, {pc})
      BY <1>6 DEF Where
    <3> QED
      BY <3>1, CardinalityIsOne DEF Told
  <2>6. h \in Nat
    BY <2>2, <2>5, ToldType
  <2> QED
    BY <2>4, <2>5, <2>6 DEF x, y
<1> HIDE DEF h
<1>10. MostHits(t, w, IF pcs.best >= h THEN pcs.best ELSE h)
  <2>1. h = Told(Append(s, pc), Len(s) + 1 - k + 1, Len(s) + 1, {pc}) /\ k = (IF Len(s) + 1 =< w THEN Len(s) + 1 ELSE w)
    BY <1>9 DEF t, n, k
  <2>2. k \in Nat /\ h \in Nat
    BY <1>5, <1>9
  <2>3. MostHits(Append(s, pc), w, IF pcs.best >= h THEN pcs.best ELSE h)
    BY <1>1, <1>2, <2>1, <2>2, MostOfMore, ZenonT(120)
  <2> QED
    BY <2>3 DEF t
<1>11. pcs'.recent = r /\ pcs'.best = IF pcs.best >= h THEN pcs.best ELSE h
  <2>1. pcs.best \in Int /\ h \in Int
    BY <1>1, <1>9
  <2>2. Log!Max({pcs.best, h}) = IF pcs.best >= h THEN pcs.best ELSE h
    BY <2>1, GreaterOfTwo
  <2>3. pcs'.recent = r /\ pcs'.best = Log!Max({pcs.best, h})
    BY <1>4
  <2> QED
    BY <2>2, <2>3
<1>12. Len(since'.pcs) = n + 1 /\ Len(pcs'.recent) = k
  BY <1>3, <1>6, <1>7, <1>11
<1>13. \A i \in 1 .. k : pcs'.recent[i] = since'.pcs[(n + 1 - k) + i]
  <2> TAKE i \in 1 .. k
  <2>1. r[i] = t[(n + 1 - k) + i]
    BY <1>8
  <2>2. pcs'.recent = r
    BY <1>11
  <2> QED
    BY <1>3, <2>1, <2>2
<1>14. MostHits(since'.pcs, PcWindow, pcs'.best)
  BY <1>3, <1>10, <1>11
<1>15. k = IF n + 1 =< PcWindow THEN n + 1 ELSE PcWindow
  BY DEF k
<1>16. Len(pcs'.recent) = IF Len(since'.pcs) =< PcWindow THEN Len(since'.pcs) ELSE PcWindow
  BY <1>12, <1>15
<1>17. \A i \in 1 .. Len(pcs'.recent) :
         pcs'.recent[i] = since'.pcs[(Len(since'.pcs) - Len(pcs'.recent)) + i]
  <2>1. Len(since'.pcs) - Len(pcs'.recent) = n + 1 - k
    BY <1>1, <1>5, <1>12
  <2> QED
    BY <1>12, <1>13, <2>1
<1> QED
  BY <1>14, <1>16, <1>17 DEF RepetitionInv

(* A run begins with no address. *)
LEMMA FreshRepetition ==
  ASSUME pcs' = [recent |-> <<>>, best |-> 0], since'.pcs = <<>>
  PROVE  RepetitionInv'
<1>1. Len(<<>>) = 0 /\ 0 =< PcWindow
  BY BanksAreNumbers
<1>2. MostHits(<<>>, PcWindow, 0)
  BY <1>1 DEF MostHits
<1> QED
  BY <1>1, <1>2 DEF RepetitionInv

(* Every step keeps the score of repetition. *)
LEMMA RepetitionStep == EventTypes /\ RepetitionInv /\ [Log!Next]_(Log!vars) => RepetitionInv'
<1> SUFFICES ASSUME EventTypes, RepetitionInv, [Log!Next]_(Log!vars) PROVE RepetitionInv'
  OBVIOUS
<1>1. ASSUME pcs' = pcs, since' = since PROVE RepetitionInv'
  BY <1>1 DEF RepetitionInv
<1>2. CASE Log!EndRun \/ Log!Capture \/ UNCHANGED Log!vars
  BY <1>1, <1>2 DEF Log!EndRun, Log!Capture, Log!vars
<1>3. CASE Log!BeginRun
  <2>1. pcs' = [recent |-> <<>>, best |-> 0] /\ since'.pcs = <<>>
    BY <1>3 DEF Log!BeginRun, Log!Fresh, EventTypes
  <2> QED
    BY <2>1, FreshRepetition
<1>4. CASE Log!Load
  <2>1. pcs' = [recent |-> <<>>, best |-> 0] /\ since'.pcs = <<>>
    BY <1>4 DEF Log!Load, Log!Fresh
  <2> QED
    BY <2>1, FreshRepetition
<1>5. CASE Log!Next
  BY <1>2, <1>3, <1>4, <1>5, EventStepIsOne, MoveRepetition
<1> QED
  BY <1>2, <1>5

(* It is right initially. *)
LEMMA RepetitionInit == Log!Init => RepetitionInv
<1> SUFFICES ASSUME Log!Init PROVE RepetitionInv
  OBVIOUS
<1>1. pcs = [recent |-> <<>>, best |-> 0] /\ since.pcs = <<>>
  BY DEF Log!Init
<1>2. Len(<<>>) = 0 /\ 0 =< PcWindow
  BY BanksAreNumbers
<1>3. MostHits(<<>>, PcWindow, 0)
  BY <1>2 DEF MostHits
<1> QED
  BY <1>1, <1>2, <1>3 DEF RepetitionInv

-----------------------------------------------------------------------------
(* Rows of reversals.                                                        *)

(* The i-th switch undoes the one before it; a row of such switches.         *)
Undoes(s, i) ==
  i > 1 /\ ~ s[i].thunk /\ ~ s[i - 1].thunk /\ s[i].from = s[i - 1].to /\ s[i].to = s[i - 1].from
Row(s, a, b) == \A i \in a .. b : Undoes(s, i)

(* The k last are a row and no more of them, and h is the length of the      *)
(* longest.                                                                  *)
Streak(s, k) == k =< Len(s) /\ Row(s, Len(s) - k + 1, Len(s)) /\ (k = Len(s) \/ ~ Undoes(s, Len(s) - k))
LongestRow(s, h) ==
  /\ \A a, b \in 1 .. Len(s) : a =< b /\ Row(s, a, b) => b - a + 1 =< h
  /\ h = 0 \/ \E a, b \in 1 .. Len(s) : a =< b /\ Row(s, a, b) /\ b - a + 1 = h

(* One more switch leaves the others as they are. *)
LEMMA UndoesBefore ==
  ASSUME NEW s \in Seq(Switches), NEW x \in Switches
  PROVE  /\ Len(Append(s, x)) = Len(s) + 1 /\ Len(s) \in Nat
         /\ \A i \in 1 .. Len(s) : Undoes(Append(s, x), i) <=> Undoes(s, i)
         /\ Undoes(Append(s, x), Len(s) + 1) <=>
              (Len(s) > 0 /\ ~ x.thunk /\ ~ s[Len(s)].thunk /\ x.from = s[Len(s)].to /\ x.to = s[Len(s)].from)
<1> DEFINE t == Append(s, x)
           n == Len(s)
<1>1. n \in Nat /\ Len(t) = n + 1 /\ t[n + 1] = x /\ \A i \in 1 .. n : t[i] = s[i]
  BY AppendProperties
<1> HIDE DEF t, n
<1>2. ASSUME NEW i \in 1 .. n PROVE Undoes(t, i) <=> Undoes(s, i)
  <2>1. CASE i = 1
    BY <2>1 DEF Undoes
  <2>2. CASE i > 1
    <3>1. i - 1 \in 1 .. n
      BY <1>1, <2>2
    <3>2. t[i] = s[i] /\ t[i - 1] = s[i - 1]
      BY <1>1, <3>1
    <3> QED
      BY <3>2 DEF Undoes
  <2> QED
    BY <1>1, <2>1, <2>2
<1>3. Undoes(t, n + 1) <=>
        (n > 0 /\ ~ x.thunk /\ ~ s[n].thunk /\ x.from = s[n].to /\ x.to = s[n].from)
  <2>1. CASE n = 0
    <3>1. ~ (n + 1 > 1) /\ ~ (n > 0)
      BY <2>1
    <3> QED
      BY <3>1 DEF Undoes
  <2>2. CASE n > 0
    <3>1. n \in 1 .. n /\ (n + 1) - 1 = n /\ n + 1 > 1
      BY <1>1, <2>2
    <3>2. t[(n + 1) - 1] = s[n] /\ t[n + 1] = x
      BY <1>1, <3>1
    <3> QED
      BY <2>2, <3>1, <3>2 DEF Undoes
  <2> QED
    BY <1>1, <2>1, <2>2
<1> QED
  BY <1>1, <1>2, <1>3 DEF t, n

(* One more switch goes on with the last row or ends it.                     *)
LEMMA RowsOfMore ==
  ASSUME NEW s \in Seq(Switches), NEW x \in Switches, NEW k \in Nat, NEW h \in Nat, NEW g \in Nat
  PROVE  /\ Streak(s, k) /\ LongestRow(s, h)
         /\ g = (IF Undoes(Append(s, x), Len(s) + 1) THEN k + 1 ELSE 0)
         => /\ Streak(Append(s, x), g)
            /\ LongestRow(Append(s, x), IF h >= g THEN h ELSE g)
<1> DEFINE t == Append(s, x)
           n == Len(s)
           c == IF h >= g THEN h ELSE g
<1>0. SUFFICES ASSUME Streak(s, k), LongestRow(s, h), g = (IF Undoes(t, n + 1) THEN k + 1 ELSE 0)
               PROVE  Streak(t, g) /\ LongestRow(t, c)
  OBVIOUS
<1>1. n \in Nat /\ Len(t) = n + 1 /\ \A i \in 1 .. n : Undoes(t, i) <=> Undoes(s, i)
  BY UndoesBefore
<1>2. c \in Nat /\ h =< c /\ g =< c /\ (c = h \/ c = g)
  OBVIOUS
<1>3. k =< n /\ Row(s, n - k + 1, n) /\ (k = n \/ ~ Undoes(s, n - k))
  BY <1>0 DEF Streak
<1>4. /\ \A a, b \in 1 .. n : a =< b /\ Row(s, a, b) => b - a + 1 =< h
      /\ h = 0 \/ \E a, b \in 1 .. n : a =< b /\ Row(s, a, b) /\ b - a + 1 = h
  BY <1>0 DEF LongestRow
<1>5. ~ Undoes(s, 1) /\ ~ Undoes(t, 1)
  BY DEF Undoes
<1> HIDE DEF t, n, c
<1>6. \A a, b \in 1 .. n : Row(t, a, b) <=> Row(s, a, b)
  BY <1>1 DEF Row
<1>7. g =< n + 1 /\ Row(t, n + 1 - g + 1, n + 1) /\ (g = n + 1 \/ ~ Undoes(t, n + 1 - g))
  <2>1. CASE Undoes(t, n + 1)
    <3>1. g = k + 1
      BY <1>0, <2>1
    <3>2. \A i \in n - k + 1 .. n : Undoes(t, i)
      <4> TAKE i \in n - k + 1 .. n
      <4>1. i \in 1 .. n /\ Undoes(s, i)
        BY <1>1, <1>3 DEF Row
      <4> QED
        BY <1>1, <4>1
    <3>3. \A i \in n + 1 - g + 1 .. n + 1 : i = n + 1 \/ i \in n - k + 1 .. n
      BY <1>1, <1>3, <3>1
    <3>4. Row(t, n + 1 - g + 1, n + 1)
      BY <2>1, <3>2, <3>3 DEF Row
    <3>5. CASE k = n
      BY <1>1, <3>1, <3>4, <3>5
    <3>6. CASE k # n
      <4>1. n - k \in 1 .. n /\ ~ Undoes(s, n - k) /\ n + 1 - g = n - k
        BY <1>1, <1>3, <3>1, <3>6
      <4> QED
        BY <1>1, <1>3, <3>1, <3>4, <4>1
    <3> QED
      BY <3>5, <3>6
  <2>2. CASE ~ Undoes(t, n + 1)
    <3>1. g = 0
      BY <1>0, <2>2
    <3>2. n + 1 - g = n + 1 /\ g =< n + 1 /\ \A i \in n + 1 - g + 1 .. n + 1 : FALSE
      BY <1>1, <3>1
    <3> QED
      BY <2>2, <3>2 DEF Row
  <2> QED
    BY <2>1, <2>2
<1>8. ASSUME NEW a \in 1 .. n + 1, NEW b \in 1 .. n + 1, a =< b, Row(t, a, b)
      PROVE  b - a + 1 =< c
  <2>1. CASE b =< n
    <3>1. a \in 1 .. n /\ b \in 1 .. n
      BY <1>1, <1>8, <2>1
    <3>2. b - a + 1 =< h
      BY <1>4, <1>6, <1>8, <3>1
    <3> QED
      BY <1>2, <3>1, <3>2
  <2>2. CASE b = n + 1
    <3>1. a > n + 1 - g
      <4>1. SUFFICES ASSUME a =< n + 1 - g PROVE FALSE
        BY <1>1
      <4>2. n + 1 - g \in a .. b /\ g # n + 1
        BY <1>1, <1>7, <1>8, <2>2, <4>1
      <4>3. Undoes(t, n + 1 - g)
        BY <1>8, <4>2 DEF Row
      <4> QED
        BY <1>7, <4>2, <4>3
    <3>2. b - a + 1 =< g
      BY <1>1, <2>2, <3>1
    <3> QED
      BY <1>1, <1>2, <2>2, <3>2
  <2> QED
    BY <1>1, <2>1, <2>2
<1>9. c = 0 \/ \E a, b \in 1 .. n + 1 : a =< b /\ Row(t, a, b) /\ b - a + 1 = c
  <2>1. CASE c = h /\ c # 0
    <3>1. PICK a \in 1 .. n, b \in 1 .. n : a =< b /\ Row(s, a, b) /\ b - a + 1 = h
      BY <1>4, <2>1
    <3>2. a \in 1 .. n + 1 /\ b \in 1 .. n + 1 /\ Row(t, a, b)
      BY <1>1, <1>6, <3>1
    <3> QED
      BY <2>1, <3>1, <3>2
  <2>2. CASE c = g /\ c # 0
    <3> DEFINE a == n + 1 - g + 1
               b == n + 1
    <3>1. a \in 1 .. n + 1 /\ b \in 1 .. n + 1 /\ a =< b /\ b - a + 1 = c /\ Row(t, a, b)
      BY <1>1, <1>7, <2>2
    <3> HIDE DEF a, b
    <3> QED
      BY <3>1
  <2> QED
    BY <1>2, <2>1, <2>2
<1> QED
  BY <1>1, <1>7, <1>8, <1>9 DEF Streak, LongestRow

ThrashInv ==
  LET s == since.switches
  IN /\ thrash.last = IF s = <<>> THEN <<>>
                      ELSE IF s[Len(s)].thunk THEN <<>> ELSE <<s[Len(s)].from, s[Len(s)].to>>
     /\ Streak(s, thrash.streak) /\ LongestRow(s, thrash.score)

(* The invariant says of the score what is promised. *)
LEMMA ThrashIsThrash == EventTypes /\ ThrashInv => Log!ThrashIsLongestRow
<1> SUFFICES ASSUME EventTypes, ThrashInv PROVE Log!ThrashIsLongestRow
  OBVIOUS
<1> DEFINE s == since.switches
           n == Len(s)
           h == thrash.score
           Rowed == {r \in (1 .. n) \X (1 .. n) : r[1] =< r[2] /\ \A i \in r[1] .. r[2] : Log!Undone(i)}
           M == {0} \union {r[2] - r[1] + 1 : r \in Rowed}
<1>1. s \in Seq(Switches) /\ n \in Nat /\ h \in Nat
  BY DEF EventTypes, Switches
<1>2. /\ \A a, b \in 1 .. n : a =< b /\ Row(s, a, b) => b - a + 1 =< h
      /\ h = 0 \/ \E a, b \in 1 .. n : a =< b /\ Row(s, a, b) /\ b - a + 1 = h
  BY DEF ThrashInv, LongestRow
<1>3. \A a, b : Row(s, a, b) <=> \A i \in a .. b : Log!Undone(i)
  BY DEF Row, Undoes, Log!Undone
<1>4. \A r : r \in Rowed <=> \E a, b \in 1 .. n : r = <<a, b>> /\ a =< b /\ Row(s, a, b)
  <2> TAKE r
  <2>1. ASSUME r \in Rowed PROVE \E a, b \in 1 .. n : r = <<a, b>> /\ a =< b /\ Row(s, a, b)
    BY <1>3, <2>1
  <2>2. ASSUME NEW a \in 1 .. n, NEW b \in 1 .. n, r = <<a, b>>, a =< b, Row(s, a, b) PROVE r \in Rowed
    BY <1>3, <2>2
  <2> QED
    BY <2>1, <2>2
<1> HIDE DEF s, n, h, Rowed
<1>5. M \subseteq Nat /\ \A y \in M : h >= y
  <2>1. ASSUME NEW r \in Rowed PROVE r[2] - r[1] + 1 \in Nat /\ h >= r[2] - r[1] + 1
    <3>1. PICK a \in 1 .. n, b \in 1 .. n : r = <<a, b>> /\ a =< b /\ Row(s, a, b)
      BY <1>4
    <3>2. r[1] = a /\ r[2] = b
      BY <3>1
    <3>3. b - a + 1 =< h /\ b - a + 1 \in Nat
      BY <1>1, <1>2, <3>1
    <3> QED
      BY <1>1, <3>2, <3>3
  <2> QED
    BY <1>1, <2>1
<1>6. h \in M
  <2>1. CASE h = 0
    BY <2>1
  <2>2. CASE h # 0
    <3>1. PICK a \in 1 .. n, b \in 1 .. n : a =< b /\ Row(s, a, b) /\ b - a + 1 = h
      BY <1>2, <2>2
    <3>2. <<a, b>> \in Rowed /\ <<a, b>>[1] = a /\ <<a, b>>[2] = b
      BY <1>4, <3>1
    <3>3. \E r \in Rowed : h = r[2] - r[1] + 1
      BY <3>1, <3>2
    <3> QED
      BY <3>3
  <2> QED
    BY <2>1, <2>2
<1> HIDE DEF M
<1>7. Log!Max(M) \in M /\ \A y \in M : Log!Max(M) >= y
  BY <1>5, <1>6 DEF Log!Max
<1>8. h = Log!Max(M)
  <2>1. h \in Nat /\ Log!Max(M) \in Nat /\ h >= Log!Max(M) /\ Log!Max(M) >= h
    BY <1>5, <1>6, <1>7
  <2> QED
    BY <2>1
<1> QED
  BY <1>8 DEF Log!ThrashIsLongestRow, M, Rowed, h, n, s

(* A switch goes on with a row, ends it, or is of a thunk. *)
LEMMA MoveThrash ==
  ASSUME EventTypes, NEW m, NEW trace, NEW target, Moves(m, trace, target), Log!Step(m, trace, target),
         ThrashInv
  PROVE  ThrashInv'
<1> DEFINE s == since.switches
           n == Len(s)
           x == [from |-> bank, to |-> m.bank, thunk |-> target \in {bank, m.bank}]
           t == Append(s, x)
           k == thrash.streak
           h == thrash.score
<1>1. s \in Seq(Switches) /\ n \in Nat /\ k \in Nat /\ h \in Nat /\ bank \in Banks /\ m.bank \in Banks
  BY DEF EventTypes, Switches, Moves, ProgramStates
<1>2. CASE m.bank = bank
  <2>1. since'.switches = s /\ thrash' = thrash
    BY <1>2, HistoryAfter, ZenonT(120) DEF Log!Step
  <2> QED
    BY <2>1 DEF ThrashInv
<1>3. CASE m.bank # bank
  <2>1. since'.switches = t
    BY <1>3, HistoryAfter
  <2>2. thrash' = Log!ThrashAfter(m.bank, x.thunk)
    BY <1>3 DEF Log!Step
  <2>3. x \in Switches /\ x.from = bank /\ x.to = m.bank /\ x.thunk \in BOOLEAN
    BY <1>1 DEF Switches
  <2>4. /\ thrash.last = IF s = <<>> THEN <<>>
                         ELSE IF s[n].thunk THEN <<>> ELSE <<s[n].from, s[n].to>>
        /\ Streak(s, k) /\ LongestRow(s, h)
    BY DEF ThrashInv
  <2> HIDE DEF x, n
  <2>5. t \in Seq(Switches) /\ Len(t) = n + 1 /\ t[n + 1] = x /\ t # <<>>
    BY <1>1, <2>3, AppendProperties DEF n
  <2>6. Undoes(t, n + 1) <=>
          (n > 0 /\ ~ x.thunk /\ ~ s[n].thunk /\ x.from = s[n].to /\ x.to = s[n].from)
    BY <1>1, <2>3, UndoesBefore DEF n
  <2>7. ASSUME NEW g \in Nat, g = (IF Undoes(t, n + 1) THEN k + 1 ELSE 0)
        PROVE  Streak(t, g) /\ LongestRow(t, IF h >= g THEN h ELSE g)
    BY <1>1, <2>3, <2>4, <2>7, RowsOfMore, SMTT(90) DEF n
  <2>8. CASE x.thunk
    <3>1. thrash'.last = <<>> /\ thrash'.streak = 0 /\ thrash'.score = h
      BY <2>2, <2>8 DEF Log!ThrashAfter, EventTypes
    <3>2. 0 = (IF Undoes(t, n + 1) THEN k + 1 ELSE 0)
      BY <2>6, <2>8
    <3>3. Streak(t, 0) /\ LongestRow(t, IF h >= 0 THEN h ELSE 0)
      BY <2>7, <3>2
    <3>4. h >= 0
      BY <1>1
    <3> HIDE DEF t, h
    <3> QED
      BY <2>1, <2>5, <2>8, <3>1, <3>3, <3>4 DEF ThrashInv
  <2>9. CASE ~ x.thunk
    <3> DEFINE g == IF thrash.last = <<m.bank, bank>> THEN k + 1 ELSE 0
    <3>1. thrash'.last = <<bank, m.bank>> /\ thrash'.streak = g /\ thrash'.score = Log!Max({h, g})
      BY <2>2, <2>9 DEF Log!ThrashAfter
    <3>2. g \in Nat /\ h \in Int /\ g \in Int
      BY <1>1
    <3>3. g = (IF Undoes(t, n + 1) THEN k + 1 ELSE 0)
      <4>1. s = <<>> <=> ~ (n > 0)
        BY <1>1 DEF n
      <4>2. thrash.last = <<m.bank, bank>> <=>
              (n > 0 /\ ~ s[n].thunk /\ bank = s[n].to /\ m.bank = s[n].from)
        <5>1. CASE s = <<>> \/ s[n].thunk
          BY <2>4, <4>1, <5>1
        <5>2. CASE s # <<>> /\ ~ s[n].thunk
          BY <2>4, <4>1, <5>2
        <5> QED
          BY <5>1, <5>2
      <4> QED
        BY <2>3, <2>6, <2>9, <4>2
    <3> HIDE DEF g
    <3>4. Streak(t, g) /\ LongestRow(t, IF h >= g THEN h ELSE g)
      BY <2>7, <3>2, <3>3
    <3>5. Log!Max({h, g}) = IF h >= g THEN h ELSE g
      BY <3>2, GreaterOfTwo
    <3>6. t[Len(t)] = x
      BY <1>1, <2>5
    <3> HIDE DEF t, h
    <3> QED
      BY <2>1, <2>3, <2>5, <2>9, <3>1, <3>4, <3>5, <3>6 DEF ThrashInv
  <2> QED
    BY <2>3, <2>8, <2>9
<1> QED
  BY <1>2, <1>3

(* A run begins with no switch. *)
LEMMA FreshThrash ==
  ASSUME thrash' = [last |-> <<>>, streak |-> 0, score |-> 0], since'.switches = <<>>
  PROVE  ThrashInv'
<1>1. Len(<<>>) = 0
  OBVIOUS
<1>2. Streak(<<>>, 0) /\ LongestRow(<<>>, 0)
  BY <1>1 DEF Streak, LongestRow, Row
<1> QED
  BY <1>2 DEF ThrashInv

(* Every step keeps the score of reversals. *)
LEMMA ThrashStep == EventTypes /\ ThrashInv /\ [Log!Next]_(Log!vars) => ThrashInv'
<1> SUFFICES ASSUME EventTypes, ThrashInv, [Log!Next]_(Log!vars) PROVE ThrashInv'
  OBVIOUS
<1>1. CASE Log!EndRun \/ Log!Capture \/ UNCHANGED Log!vars
  <2>1. thrash' = thrash /\ since' = since
    BY <1>1 DEF Log!EndRun, Log!Capture, Log!vars
  <2> QED
    BY <2>1 DEF ThrashInv
<1>2. CASE Log!BeginRun
  <2>1. thrash' = [last |-> <<>>, streak |-> 0, score |-> 0] /\ since'.switches = <<>>
    BY <1>2 DEF Log!BeginRun, Log!Fresh, EventTypes
  <2> QED
    BY <2>1, FreshThrash
<1>3. CASE Log!Load
  <2>1. thrash' = [last |-> <<>>, streak |-> 0, score |-> 0] /\ since'.switches = <<>>
    BY <1>3 DEF Log!Load, Log!Fresh
  <2> QED
    BY <2>1, FreshThrash
<1>4. CASE Log!Next
  BY <1>1, <1>2, <1>3, <1>4, EventStepIsOne, MoveThrash
<1> QED
  BY <1>1, <1>4

(* It is right initially. *)
LEMMA ThrashInit == Log!Init => ThrashInv
<1> SUFFICES ASSUME Log!Init PROVE ThrashInv
  OBVIOUS
<1>1. thrash = [last |-> <<>>, streak |-> 0, score |-> 0] /\ since.switches = <<>>
  BY DEF Log!Init
<1>2. Streak(<<>>, 0) /\ LongestRow(<<>>, 0)
  <2>1. Len(<<>>) = 0
    OBVIOUS
  <2> QED
    BY <2>1 DEF Streak, LongestRow, Row
<1> QED
  BY <1>1, <1>2 DEF ThrashInv

-----------------------------------------------------------------------------
(* The slices of the log.                                                    *)

(* Checkpoints are of the log as it was, in its order; those of one run are  *)
(* also in the order of its steps, and none is of more steps than were taken.*)
SlicesInv ==
  /\ \A i \in 1 .. Len(captured) :
       /\ captured[i].log < Len(log) /\ captured[i].run =< captured[i].log /\ captured[i].run =< since.log
       /\ captured[i].run = since.log => captured[i].samples =< samples
  /\ \A i, j \in 1 .. Len(captured) : i < j =>
       /\ captured[i].log =< captured[j].log
       /\ captured[i].run = captured[j].run => captured[i].samples =< captured[j].samples

(* What was logged and sampled up to the i-th checkpoint.                    *)
Ended(i) == IF i = 0 THEN 0 ELSE captured[i].log
Taken(i) == IF i = 0 THEN 0 ELSE captured[i].samples
OfCategory(c) == {e \in Entries : Log!CategoryOf(e) = c}
Categories == {"dma", "interrupt", "render", "mmio", "other"}

(* Checkpoints and what is in them. *)
LEMMA CheckpointsAreSaves ==
  ASSUME EventTypes
  PROVE  /\ captured \in Seq(Saves) /\ Len(captured) \in Nat
         /\ \A i \in 1 .. Len(captured) :
              captured[i].log \in Nat /\ captured[i].samples \in Nat /\ captured[i].run \in Nat
<1>1. captured \in Seq(Saves)
  BY DEF EventTypes, Saves
<1>2. ASSUME NEW i \in 1 .. Len(captured)
      PROVE  captured[i].log \in Nat /\ captured[i].samples \in Nat /\ captured[i].run \in Nat
  <2>1. captured[i] \in Saves
    BY <1>1
  <2> QED
    BY <2>1 DEF Saves
<1> QED
  BY <1>1, <1>2

(* The parts of the log between checkpoints follow each other. *)
LEMMA EndsAreInOrder ==
  ASSUME EventTypes, SlicesInv, NEW i \in 1 .. Len(captured)
  PROVE  /\ i - 1 \in 0 .. Len(captured) /\ i \in 0 .. Len(captured) /\ i # 0 /\ (i - 1 = 0 <=> i = 1)
         /\ Ended(i - 1) \in Nat /\ Ended(i) \in Nat /\ Ended(i - 1) =< Ended(i) /\ Ended(i) < Len(log)
         /\ Taken(i - 1) \in Nat /\ Taken(i) \in Nat
<1>1. /\ Len(captured) \in Nat /\ Len(log) \in Nat
      /\ \A j \in 1 .. Len(captured) : captured[j].log \in Nat /\ captured[j].samples \in Nat
  <2>1. Len(log) \in Nat
    BY DEF EventTypes
  <2> QED
    BY <2>1, CheckpointsAreSaves
<1>2. i \in Nat \ {0} /\ i - 1 \in Nat /\ (i - 1 = 0 <=> i = 1) /\ i =< Len(captured) /\ i - 1 < i
  BY <1>1
<1>3. captured[i].log \in Nat /\ captured[i].samples \in Nat /\ captured[i].log < Len(log)
  BY <1>1 DEF SlicesInv
<1>4. CASE i = 1
  BY <1>2, <1>3, <1>4 DEF Ended, Taken
<1>5. CASE i # 1
  <2>1. i - 1 \in 1 .. Len(captured) /\ i - 1 # 0
    BY <1>1, <1>2, <1>5
  <2>2. captured[i - 1].log \in Nat /\ captured[i - 1].samples \in Nat
    BY <1>1, <2>1
  <2>3. captured[i - 1].log =< captured[i].log
    BY <1>2, <2>1 DEF SlicesInv
  <2>4. Ended(i - 1) = captured[i - 1].log /\ Ended(i) = captured[i].log
        /\ Taken(i - 1) = captured[i - 1].samples /\ Taken(i) = captured[i].samples
    BY <1>2, <2>1 DEF Ended, Taken
  <2> QED
    BY <1>1, <1>2, <1>3, <2>1, <2>2, <2>3, <2>4
<1> QED
  BY <1>4, <1>5

(* What is counted in a part of a sequence is counted there in the whole.    *)
PartIs(t, s, x, b, k) == k = b - x + 1 /\ \A j \in 1 .. k : t[j] = s[x + j - 1]

LEMMA ToldPart ==
  ASSUME NEW s, NEW t, NEW x \in Int, NEW b \in Int, NEW k \in Int, NEW E, PartIs(t, s, x, b, k)
  PROVE  Told(s, x, b, E) = Told(t, 1, k, E)
<1>0. k = b - x + 1 /\ \A j \in 1 .. k : t[j] = s[x + j - 1]
  BY DEF PartIs
<1>1. ASSUME NEW p \in x .. b, NEW q \in 1 .. k, p - x = q - 1 PROVE s[p] = t[q]
  <2>1. p = x + q - 1
    BY <1>1
  <2> QED
    BY <1>0, <2>1
<1>2. \A p \in x .. b, q \in 1 .. k : p - x = q - 1 => s[p] = t[q]
  BY <1>1
<1>3. b - x = k - 1
  BY <1>0
<1> QED
  BY <1>2, <1>3, ToldShift

(* A slice is the part of the log between two checkpoints.                   *)
LEMMA SliceIsPart ==
  ASSUME EventTypes, SlicesInv, NEW i \in 1 .. Len(captured)
  PROVE  /\ Log!Slice(i).events = Ended(i) - Ended(i - 1)
         /\ \A c \in Categories :
              Log!Slice(i).categories[c] = Told(log, Ended(i - 1) + 1, Ended(i), OfCategory(c))
         /\ Log!Slice(i).samples = IF Taken(i) - Taken(i - 1) >= 0 THEN Taken(i) - Taken(i - 1) ELSE 0
<1> DEFINE a == Ended(i - 1)
           b == Ended(i)
           cut == SubSeq(log, a + 1, b)
<1>1. /\ a \in Nat /\ b \in Nat /\ a =< b /\ b < Len(log) /\ Taken(i - 1) \in Nat /\ Taken(i) \in Nat
      /\ (i - 1 = 0 <=> i = 1) /\ i # 0
  BY EndsAreInOrder
<1>2. log \in Seq(Entries) /\ Len(log) \in Nat
  BY DEF EventTypes
<1>3. Log!Min({captured[i].log, Len(log)}) = b
  <2>1. captured[i].log = b
    BY <1>1 DEF Ended
  <2> HIDE DEF a, b
  <2>2. b \in Int /\ Len(log) \in Int
    BY <1>1, <1>2
  <2>3. Log!Min({b, Len(log)}) = IF b =< Len(log) THEN b ELSE Len(log)
    BY <2>2, LesserOfTwo, Zenon
  <2> QED
    BY <1>1, <1>2, <2>1, <2>3
<1>4. (IF i = 1 THEN 0 ELSE captured[i - 1].log) = a
      /\ (IF i = 1 THEN 0 ELSE captured[i - 1].samples) = Taken(i - 1) /\ captured[i].samples = Taken(i)
  BY <1>1 DEF Ended, Taken
<1>5. Log!Slice(i) =
        [events |-> Len(cut),
         categories |-> [c \in Categories |->
                           Log!Cardinality({j \in DOMAIN cut : Log!CategoryOf(cut[j]) = c})],
         samples |-> Log!Max({Taken(i) - Taken(i - 1), 0})]
  BY <1>3, <1>4, ZenonT(120) DEF Log!Slice, Categories
<1>6. Log!Max({Taken(i) - Taken(i - 1), 0}) = IF Taken(i) - Taken(i - 1) >= 0 THEN Taken(i) - Taken(i - 1) ELSE 0
  <2>1. PICK d \in Int : d = Taken(i) - Taken(i - 1)
    BY <1>1
  <2>2. Log!Max({d, 0}) = IF d >= 0 THEN d ELSE 0
    BY <2>1, GreaterOfTwo
  <2> QED
    BY <2>1, <2>2
<1> HIDE DEF a, b
<1>7. PICK x \in Int, k \in Nat : x = a + 1 /\ k = b - a
  <2>1. a + 1 \in Int /\ b - a \in Nat
    BY <1>1
  <2> QED
    BY <2>1
<1>8. /\ \A j \in 1 .. k : cut[j] \in Entries
      /\ Len(cut) = k /\ DOMAIN cut = 1 .. k /\ k = b - x + 1
      /\ \A j \in 1 .. k : cut[j] = log[x + j - 1]
  <2>1. \A j \in x .. b : log[j] \in Entries
    BY <1>1, <1>2, <1>7
  <2>2. /\ SubSeq(log, x, b) \in Seq(Entries)
        /\ Len(SubSeq(log, x, b)) = IF x =< b THEN b - x + 1 ELSE 0
        /\ \A j \in 1 .. b - x + 1 : SubSeq(log, x, b)[j] = log[x + j - 1]
    BY <1>1, <1>7, <2>1, SubSeqProperties, SMTT(90), SMTT(90)
  <2>3. k = b - x + 1 /\ k = (IF x =< b THEN b - x + 1 ELSE 0) /\ cut = SubSeq(log, x, b)
    BY <1>1, <1>7
  <2> HIDE DEF cut
  <2>4. cut \in Seq(Entries) /\ Len(cut) = k /\ \A j \in 1 .. k : cut[j] = log[x + j - 1]
    BY <2>2, <2>3
  <2> QED
    BY <2>3, <2>4
<1> HIDE DEF cut
<1>9. ASSUME NEW c \in Categories
      PROVE  Log!Cardinality({j \in DOMAIN cut : Log!CategoryOf(cut[j]) = c})
               = Told(log, a + 1, b, OfCategory(c))
  <2>1. {j \in DOMAIN cut : Log!CategoryOf(cut[j]) = c} = Where(cut, 1, k, OfCategory(c))
    BY <1>8 DEF Where, OfCategory
  <2>2. Log!Cardinality({j \in DOMAIN cut : Log!CategoryOf(cut[j]) = c}) = Told(cut, 1, k, OfCategory(c))
    BY <2>1, CardinalityIsOne DEF Told
  <2>3. Told(log, x, b, OfCategory(c)) = Told(cut, 1, k, OfCategory(c))
    <3>1. b \in Int /\ k \in Int /\ x \in Int
      BY <1>1
    <3>2. PartIs(cut, log, x, b, k)
      BY <1>8 DEF PartIs
    <3> QED
      BY <3>1, <3>2, ToldPart
  <2> QED
    BY <1>7, <2>2, <2>3
<1> QED
  BY <1>5, <1>6, <1>7, <1>8, <1>9 DEF a, b, Categories

(* A total of differences is the last of what they are differences of.       *)
Differences(f, v, n) == v[0] = 0 /\ \A i \in 1 .. n : f[i] = v[i] - v[i - 1]

LEMMA TotalOfDifferences ==
  ASSUME NEW N \in Nat, N = Len(captured), NEW v \in [0 .. N -> Nat], NEW f, Differences(f, v, N)
  PROVE  Log!Total(f) = v[N]
<1>0. v[0] = 0 /\ \A i \in 1 .. N : f[i] = v[i] - v[i - 1]
  BY DEF Differences
<1> DEFINE Upto(g) == g = [n \in 0 .. N |-> IF n = 0 THEN 0 ELSE g[n - 1] + f[n]]
           w == CHOOSE g : Upto(g)
<1>1. Log!Total(f) = w[N]
  BY DEF Log!Total
<1>2. Upto(v)
  <2>1. \A n \in 0 .. N : v[n] = IF n = 0 THEN 0 ELSE v[n - 1] + f[n]
    <3> TAKE n \in 0 .. N
    <3>1. CASE n # 0
      <4>1. n \in 1 .. N /\ n - 1 \in 0 .. N /\ v[n] \in Nat /\ v[n - 1] \in Nat
        BY <3>1
      <4> QED
        BY <1>0, <3>1, <4>1
    <3> QED
      BY <1>0, <3>1
  <2> QED
    BY <2>1
<1>3. Upto(w)
  BY <1>2
<1> HIDE DEF w
<1>4. \A n \in 0 .. N : w[n] = IF n = 0 THEN 0 ELSE w[n - 1] + f[n]
  BY <1>3
<1> DEFINE A == {n \in Nat : n =< N => w[n] = v[n]}
<1>5. 0 \in A
  BY <1>0, <1>4
<1>6. ASSUME NEW n \in Nat, n \in A PROVE n + 1 \in A
  <2> SUFFICES ASSUME n + 1 =< N PROVE w[n + 1] = v[n + 1]
    OBVIOUS
  <2>1. n + 1 \in 1 .. N /\ n + 1 \in 0 .. N /\ n \in 0 .. N /\ (n + 1) - 1 = n /\ n + 1 # 0 /\ n =< N
    OBVIOUS
  <2>2. w[n + 1] = w[n] + f[n + 1] /\ w[n] = v[n] /\ f[n + 1] = v[n + 1] - v[n]
    BY <1>0, <1>4, <1>6, <2>1
  <2>3. v[n] \in Nat /\ v[n + 1] \in Nat
    BY <2>1
  <2> QED
    BY <2>2, <2>3
<1> HIDE DEF A
<1>7. N \in A
  BY <1>5, <1>6, Induction
<1> QED
  BY <1>1, <1>7 DEF A

(* The slices add up to the log, its categories and its samples. *)
LEMMA SlicesAreLog == EventTypes /\ SlicesInv => Log!SlicesAreTheLog
<1> SUFFICES ASSUME EventTypes, SlicesInv, captured # <<>>
             PROVE  LET end == Log!Last(captured).log
                    IN /\ Log!Total([i \in DOMAIN captured |-> Log!Slice(i).events]) = end
                       /\ \A c \in {"dma", "interrupt", "render", "mmio"} :
                            Log!Total([i \in DOMAIN captured |-> Log!Slice(i).categories[c]])
                              = Log!Cardinality({j \in 1 .. end : Log!CategoryOf(log[j]) = c})
                       /\ (\A i \in DOMAIN captured : captured[i].run = captured[1].run) =>
                            Log!Total([i \in DOMAIN captured |-> Log!Slice(i).samples]) = Log!Last(captured).samples
  BY DEF Log!SlicesAreTheLog
<1> DEFINE N == Len(captured)
<1>1. N \in Nat \ {0} /\ DOMAIN captured = 1 .. N /\ captured \in Seq(Saves)
  BY CheckpointsAreSaves
<1>2. log \in Seq(Entries) /\ Len(log) \in Nat
  BY DEF EventTypes
<1>3. \A i \in 1 .. N :
        /\ i - 1 \in 0 .. N /\ i \in 0 .. N /\ i # 0
        /\ Ended(i - 1) \in Nat /\ Ended(i) \in Nat /\ Ended(i - 1) =< Ended(i) /\ Ended(i) < Len(log)
        /\ Taken(i - 1) \in Nat /\ Taken(i) \in Nat
  BY EndsAreInOrder
<1>4. Ended(0) = 0 /\ Taken(0) = 0
  BY DEF Ended, Taken
<1>5. Log!Last(captured).log = Ended(N) /\ Log!Last(captured).samples = Taken(N)
  BY <1>1 DEF Log!Last, Ended, Taken
<1>6. \A n \in 0 .. N : Ended(n) \in Nat /\ Taken(n) \in Nat
  <2> TAKE n \in 0 .. N
  <2>1. n = 0 \/ n \in 1 .. N
    BY <1>1
  <2> QED
    BY <1>3, <1>4, <2>1
<1> HIDE DEF N
<1>7. Log!Total([i \in 1 .. N |-> Log!Slice(i).events]) = Ended(N)
  <2> DEFINE f == [i \in 1 .. N |-> Log!Slice(i).events]
             v == [n \in 0 .. N |-> Ended(n)]
  <2>1. v \in [0 .. N -> Nat]
    BY <1>6
  <2>2. \A i \in 1 .. N : f[i] = v[i] - v[i - 1]
    <3> TAKE i \in 1 .. N
    <3>1. Log!Slice(i).events = Ended(i) - Ended(i - 1)
      BY SliceIsPart DEF N
    <3> QED
      BY <1>3, <3>1
  <2>3. Differences(f, v, N)
    BY <1>1, <1>4, <2>2 DEF Differences
  <2>4. v[N] = Ended(N)
    BY <1>1
  <2> HIDE DEF f, v
  <2>5. Log!Total(f) = v[N]
    BY <1>1, <2>1, <2>3, TotalOfDifferences, ZenonT(120) DEF N
  <2> QED
    BY <2>4, <2>5 DEF f
<1>8. ASSUME NEW c \in {"dma", "interrupt", "render", "mmio"}
      PROVE  Log!Total([i \in 1 .. N |-> Log!Slice(i).categories[c]])
               = Log!Cardinality({j \in 1 .. Ended(N) : Log!CategoryOf(log[j]) = c})
  <2> DEFINE C == OfCategory(c)
             f == [i \in 1 .. N |-> Log!Slice(i).categories[c]]
             v == [n \in 0 .. N |-> Told(log, 1, Ended(n), C)]
  <2>0. c \in Categories
    BY DEF Categories
  <2> HIDE DEF C
  <2>1. v \in [0 .. N -> Nat]
    <3>1. ASSUME NEW n \in 0 .. N PROVE Told(log, 1, Ended(n), C) \in Nat
      <4>1. 1 \in Int /\ Ended(n) \in Int
        BY <1>6
      <4> QED
        BY <4>1, ToldType
    <3> QED
      BY <3>1
  <2>2. \A i \in 1 .. N : f[i] = v[i] - v[i - 1]
    <3> TAKE i \in 1 .. N
    <3>1. Log!Slice(i).categories[c] = Told(log, Ended(i - 1) + 1, Ended(i), C)
      BY <2>0, SliceIsPart DEF N, C
    <3>2. PICK x \in Nat, y \in Nat : x = Ended(i - 1) /\ y = Ended(i) /\ x =< y
      BY <1>3
    <3>3. Told(log, 1, y, C) = Told(log, 1, x, C) + Told(log, x + 1, y, C)
      <4>1. 1 \in Int /\ x \in Int /\ y \in Int /\ 1 =< x + 1 /\ x =< y
        BY <3>2
      <4> QED
        BY <4>1, ToldSplit
    <3>4. Told(log, 1, x, C) \in Nat /\ Told(log, x + 1, y, C) \in Nat
      <4>1. 1 \in Int /\ x \in Int /\ y \in Int /\ x + 1 \in Int
        BY <3>2
      <4> QED
        BY <4>1, ToldType
    <3>5. v[i] = Told(log, 1, y, C) /\ v[i - 1] = Told(log, 1, x, C)
      BY <1>3, <3>2
    <3>6. f[i] = Told(log, x + 1, y, C)
      BY <3>1, <3>2
    <3> HIDE DEF f, v
    <3> QED
      BY <3>3, <3>4, <3>5, <3>6
  <2>3. v[0] = 0
    <3>1. v[0] = Told(log, 1, 0, C)
      BY <1>1, <1>4
    <3>2. Told(log, 1, 0, C) = 0
      BY ToldNone
    <3> QED
      BY <3>1, <3>2
  <2>4. Differences(f, v, N)
    <3> HIDE DEF f, v
    <3> QED
      BY <2>2, <2>3 DEF Differences
  <2>5. v[N] = Told(log, 1, Ended(N), C)
    BY <1>1
  <2> HIDE DEF f, v
  <2>6. Log!Total(f) = v[N]
    BY <1>1, <2>1, <2>4, TotalOfDifferences, ZenonT(120) DEF N
  <2>7. Where(log, 1, Ended(N), C) = {j \in 1 .. Ended(N) : Log!CategoryOf(log[j]) = c}
    <3>1. N \in 1 .. N
      BY <1>1
    <3>2. Ended(N) < Len(log) /\ Ended(N) \in Nat
      BY <1>3, <3>1
    <3>3. \A j \in 1 .. Ended(N) : log[j] \in Entries
      BY <1>2, <3>2
    <3> QED
      BY <3>3 DEF Where, C, OfCategory
  <2> QED
    BY <2>5, <2>6, <2>7, CardinalityIsOne DEF f, Told
<1>9. ASSUME \A i \in 1 .. N : captured[i].run = captured[1].run
      PROVE  Log!Total([i \in 1 .. N |-> Log!Slice(i).samples]) = Taken(N)
  <2> DEFINE f == [i \in 1 .. N |-> Log!Slice(i).samples]
             v == [n \in 0 .. N |-> Taken(n)]
  <2>1. v \in [0 .. N -> Nat]
    BY <1>6
  <2>2. \A i \in 1 .. N : f[i] = v[i] - v[i - 1]
    <3> TAKE i \in 1 .. N
    <3>1. Log!Slice(i).samples = IF Taken(i) - Taken(i - 1) >= 0 THEN Taken(i) - Taken(i - 1) ELSE 0
      BY SliceIsPart DEF N
    <3>2. Taken(i - 1) =< Taken(i)
      <4>1. CASE i = 1
        BY <1>3, <1>4, <4>1
      <4>2. CASE i # 1
        <5>1. i - 1 \in 1 .. N /\ i - 1 < i /\ i # 0 /\ i - 1 # 0
          BY <1>1, <4>2
        <5>2. captured[i - 1].run = captured[i].run
          BY <1>9, <5>1
        <5>3. captured[i - 1].samples =< captured[i].samples
          BY <5>1, <5>2 DEF SlicesInv, N
        <5> QED
          BY <5>1, <5>3 DEF Taken
      <4> QED
        BY <4>1, <4>2
    <3>3. Taken(i - 1) \in Nat /\ Taken(i) \in Nat /\ v[i] = Taken(i) /\ v[i - 1] = Taken(i - 1)
      BY <1>3
    <3>4. f[i] = Log!Slice(i).samples
      OBVIOUS
    <3> HIDE DEF f, v
    <3> QED
      BY <3>1, <3>2, <3>3, <3>4
  <2>3. Differences(f, v, N)
    BY <1>1, <1>4, <2>2, SMTT(90) DEF Differences
  <2>4. v[N] = Taken(N)
    BY <1>1
  <2> HIDE DEF f, v
  <2>5. Log!Total(f) = v[N]
    BY <1>1, <2>1, <2>3, TotalOfDifferences DEF N
  <2> QED
    BY <2>4, <2>5 DEF f
<1> QED
  BY <1>1, <1>5, <1>7, <1>8, <1>9

(* A checkpoint is of the whole log and of all steps there are so far.       *)
LEMMA CaptureSlices ==
  ASSUME EventTypes, Log!Capture, SlicesInv
  PROVE  SlicesInv'
<1> DEFINE c == [log |-> Len(log), samples |-> samples, run |-> since.log]
           more == Append(captured, c)
           n == Len(captured)
<1>1. /\ captured' = IF Len(more) > MaxCheckpoints THEN Tail(more) ELSE more
      /\ log' = Append(log, Log!Event("ReplayCheckpointSaved")) /\ samples' = samples /\ since' = since
  BY DEF Log!Capture
<1>2. /\ captured \in Seq(Saves) /\ n \in Nat
      /\ \A i \in 1 .. n : captured[i].log \in Nat /\ captured[i].samples \in Nat /\ captured[i].run \in Nat
  BY CheckpointsAreSaves
<1>3. Len(log) \in Nat /\ since.log \in Nat /\ since.log =< Len(log) /\ samples \in Nat
  BY DEF EventTypes
<1>4. Len(log') = Len(log) + 1
  <2>1. log \in Seq(Entries) /\ Log!Event("ReplayCheckpointSaved") \in Entries
    BY OwnEvents, BanksAreNumbers DEF OwnKinds, EventTypes
  <2> QED
    BY <1>1, <2>1, AppendProperties
<1>5. c \in Saves /\ c.log = Len(log) /\ c.samples = samples /\ c.run = since.log
  BY <1>3 DEF Saves
<1> HIDE DEF c
<1>6. /\ more \in Seq(Saves) /\ more # <<>> /\ Len(more) = n + 1 /\ more[n + 1] = c
      /\ \A i \in 1 .. n : more[i] = captured[i]
  BY <1>2, <1>5, AppendProperties
<1> HIDE DEF more, n
<1>7. \A i \in 1 .. n : /\ captured[i].log < Len(log) /\ captured[i].run =< captured[i].log /\ captured[i].run =< since.log
                        /\ captured[i].run = since.log => captured[i].samples =< samples
  BY DEF SlicesInv, n
<1>8. \A i, j \in 1 .. n : i < j =>
        /\ captured[i].log =< captured[j].log
        /\ captured[i].run = captured[j].run => captured[i].samples =< captured[j].samples
  BY DEF SlicesInv, n
<1>9. \A i \in 1 .. n + 1 :
        /\ more[i].log < Len(log') /\ more[i].run =< more[i].log /\ more[i].run =< since'.log
        /\ more[i].run = since'.log => more[i].samples =< samples'
  <2> TAKE i \in 1 .. n + 1
  <2>1. CASE i = n + 1
    BY <1>1, <1>3, <1>4, <1>5, <1>6, <2>1
  <2>2. CASE i \in 1 .. n
    BY <1>1, <1>2, <1>3, <1>4, <1>6, <1>7, <2>2, SMTT(90), SMTT(90)
  <2> QED
    BY <1>2, <2>1, <2>2
<1>10. \A i, j \in 1 .. n + 1 : i < j =>
         /\ more[i].log =< more[j].log
         /\ more[i].run = more[j].run => more[i].samples =< more[j].samples
  <2> TAKE i, j \in 1 .. n + 1
  <2> HAVE i < j
  <2>1. i \in 1 .. n
    BY <1>2
  <2>2. CASE j = n + 1
    BY <1>2, <1>3, <1>5, <1>6, <1>7, <2>1, <2>2, SMTT(90)
  <2>3. CASE j \in 1 .. n
    BY <1>6, <1>8, <2>1, <2>3
  <2> QED
    BY <1>2, <2>2, <2>3
<1>11. CASE captured' = more
  BY <1>6, <1>9, <1>10, <1>11 DEF SlicesInv
<1>12. CASE captured' = Tail(more)
  <2>1. Len(captured') = n /\ \A i \in 1 .. n : captured'[i] = more[i + 1]
    BY <1>2, <1>6, <1>12, HeadTailProperties
  <2>2. \A i \in 1 .. n : i + 1 \in 1 .. n + 1
    BY <1>2
  <2>3. \A i, j \in 1 .. n : i < j => i + 1 < j + 1
    BY <1>2
  <2>4. \A i \in 1 .. Len(captured') :
        /\ captured'[i].log < Len(log') /\ captured'[i].run =< captured'[i].log /\ captured'[i].run =< since'.log
        /\ captured'[i].run = since'.log => captured'[i].samples =< samples'
    BY <1>9, <2>1, <2>2
  <2>5. \A i, j \in 1 .. Len(captured') : i < j =>
         /\ captured'[i].log =< captured'[j].log
         /\ captured'[i].run = captured'[j].run => captured'[i].samples =< captured'[j].samples
    BY <1>10, <2>1, <2>2, <2>3
  <2> QED
    BY <2>4, <2>5 DEF SlicesInv
<1> QED
  BY <1>1, <1>11, <1>12

(* Otherwise the log is longer or a new run begins.                          *)
LEMMA QuietSlices ==
  ASSUME EventTypes, SlicesInv, captured' = captured, Len(log') \in Nat, Len(log) =< Len(log'),
         (since'.log = since.log /\ samples' \in Nat /\ samples =< samples') \/ since'.log = Len(log)
  PROVE  SlicesInv'
<1> DEFINE n == Len(captured)
<1>1. /\ \A i \in 1 .. n : captured[i].log \in Nat /\ captured[i].samples \in Nat /\ captured[i].run \in Nat
  BY CheckpointsAreSaves
<1>2. Len(log) \in Nat /\ since.log \in Nat /\ since.log =< Len(log) /\ samples \in Nat
  BY DEF EventTypes
<1>3. \A i \in 1 .. n : /\ captured[i].log < Len(log) /\ captured[i].run =< captured[i].log /\ captured[i].run =< since.log
                        /\ captured[i].run = since.log => captured[i].samples =< samples
  BY DEF SlicesInv
<1>4. \A i \in 1 .. n : /\ captured[i].log < Len(log') /\ captured[i].run =< captured[i].log /\ captured[i].run =< since'.log
                        /\ captured[i].run = since'.log => captured[i].samples =< samples'
  <2> TAKE i \in 1 .. n
  <2>1. CASE since'.log = since.log /\ samples' \in Nat /\ samples =< samples'
    BY <1>1, <1>2, <1>3, <2>1
  <2>2. CASE since'.log = Len(log)
    BY <1>1, <1>2, <1>3, <2>2, SMTT(90)
  <2> QED
    BY <2>1, <2>2
<1> QED
  BY <1>4 DEF SlicesInv

(* Every step keeps the checkpoints in the order of the log. *)
LEMMA SlicesStep == EventTypes /\ SlicesInv /\ [Log!Next]_(Log!vars) => SlicesInv'
<1> SUFFICES ASSUME EventTypes, SlicesInv, [Log!Next]_(Log!vars) PROVE SlicesInv'
  OBVIOUS
<1>0. log \in Seq(Entries) /\ Len(log) \in Nat /\ samples \in Nat
  BY DEF EventTypes
<1>1. ASSUME NEW m, NEW trace, NEW target, Moves(m, trace, target), Log!Step(m, trace, target)
      PROVE  SlicesInv'
  <2>1. captured' = captured /\ samples' = samples + 1
    BY <1>1 DEF Log!Step
  <2>2. since'.log = since.log
    BY <1>1, HistoryAfter
  <2> DEFINE t == trace \o TimerEvents(m) \o SwitchEvents(m.bank, target)
  <2>3. t \in Seq(Entries) /\ log' = log \o t
    BY <1>1, AddedEvents, StepLogs
  <2> HIDE DEF t
  <2>4. Len(t) \in Nat /\ Len(log') = Len(log) + Len(t)
    BY <1>0, <2>3, ConcatProperties
  <2> QED
    BY <1>0, <2>1, <2>2, <2>4, QuietSlices
<1>2. CASE Log!EndRun
  <2>1. captured' = captured /\ since' = since /\ samples' = samples
        /\ (log' = log \/ log' = Append(log, Log!Event("BankReturnMissing")))
    BY <1>2 DEF Log!EndRun
  <2>2. Log!Event("BankReturnMissing") \in Entries
    BY OwnEvents, BanksAreNumbers DEF OwnKinds
  <2>3. Len(log') \in Nat /\ Len(log) =< Len(log')
    BY <1>0, <2>1, <2>2, AppendProperties
  <2> QED
    BY <1>0, <2>1, <2>3, QuietSlices
<1>3. CASE Log!BeginRun
  <2>1. captured' = captured /\ log' = log /\ since'.log = Len(log)
    BY <1>3 DEF Log!BeginRun, EventTypes
  <2> QED
    BY <1>0, <2>1, QuietSlices
<1>4. CASE Log!Load
  <2>1. captured' = <<>>
    BY <1>4 DEF Log!Load
  <2> QED
    BY <2>1 DEF SlicesInv
<1>5. CASE UNCHANGED Log!vars
  BY <1>5 DEF Log!vars, SlicesInv
<1>6. CASE Log!Next
  BY <1>1, <1>2, <1>3, <1>4, <1>6, EventStepIsOne, CaptureSlices
<1> QED
  BY <1>5, <1>6

(* There are none initially. *)
LEMMA SlicesInit == Log!Init => SlicesInv
  BY DEF Log!Init, SlicesInv

-----------------------------------------------------------------------------
(* All of it.                                                                *)

EventInv ==
  part = "events" =>
    /\ EventTypes /\ CountsInv /\ BalanceInv /\ PendingInv /\ ChangesInv /\ RepetitionInv /\ ThrashInv
    /\ SlicesInv

(* Initially, and in each step whoever takes it.                             *)
LEMMA EventInit == MCInit => EventInv
<1> SUFFICES ASSUME MCInit PROVE EventInv
  OBVIOUS
<1>1. Log!Init
  BY DEF MCInit
<1> QED
  BY <1>1, EventInitTypes, CountsInit, BalanceInit, PendingInit, ChangesInit, RepetitionInit, ThrashInit, SlicesInit
     DEF EventInv

(* The parts go on together, each from the types and itself. *)
LEMMA EventStep == EventInv /\ [MCNext]_<<part, vars, events, jobVars>> => EventInv'
<1> SUFFICES ASSUME EventInv, [MCNext]_<<part, vars, events, jobVars>> PROVE EventInv'
  OBVIOUS
<1>0. part' = part
  <2>1. CASE UNCHANGED <<part, vars, events, jobVars>>
    BY <2>1
  <2>2. CASE MCNext
    BY <2>2 DEF MCNext
  <2> QED
    BY <2>1, <2>2
<1> SUFFICES ASSUME part = "events" PROVE EventInv'
  BY <1>0 DEF EventInv
<1>1. EventTypes /\ CountsInv /\ BalanceInv /\ PendingInv /\ ChangesInv /\ RepetitionInv /\ ThrashInv /\ SlicesInv
  BY DEF EventInv
<1>2. [Log!Next]_(Log!vars)
  <2>1. CASE Log!Next
    BY <2>1
  <2>2. CASE UNCHANGED events
    BY <2>2 DEF events, Log!vars
  <2> QED
    BY <2>1, <2>2 DEF MCNext
<1>3. EventTypes'
  BY <1>1, <1>2, EventTypesStep
<1>4. CountsInv' /\ BalanceInv' /\ PendingInv' /\ ChangesInv'
  BY <1>1, <1>2, CountsStep, BalanceStep, PendingStep, ChangesStep
<1>5. RepetitionInv' /\ ThrashInv' /\ SlicesInv'
  BY <1>1, <1>2, RepetitionStep, ThrashStep, SlicesStep
<1> QED
  BY <1>3, <1>4, <1>5 DEF EventInv

(* Together they are what is promised. *)
LEMMA EventInvTells == EventInv => EventsAreTold
<1> SUFFICES ASSUME EventInv, part = "events" PROVE Log!EventsAreTold
  BY DEF EventsAreTold
<1>1. EventTypes /\ CountsInv /\ BalanceInv /\ PendingInv /\ ChangesInv /\ RepetitionInv /\ ThrashInv /\ SlicesInv
  BY DEF EventInv
<1> QED
  BY <1>1, CountsInvIsCounts, BalanceIsBalance, PendingIsStack, ChangesAreChanges, RepetitionIsRepetition,
     ThrashIsThrash, SlicesAreLog DEF Log!EventsAreTold

(* The counters, scores, pending calls, changes, slices and bank balance of  *)
(* a session are what its log and the steps of its runs say, whatever the    *)
(* program does and whenever runs, loads and checkpoints come between        *)
(* (session.rs, run_debug_step, build_replay_slices and update_bank_thrash). *)
THEOREM ReportsTellWhatHappened == MCSpec => []EventsAreTold
<1>1. EventInv => EventsAreTold
  BY EventInvTells
<1> QED
  BY EventInit, EventStep, <1>1, PTL DEF MCSpec
==============================================================================
