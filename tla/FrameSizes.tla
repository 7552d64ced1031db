----------------------------- MODULE FrameSizes -----------------------------
(* The length of a frame and what a step of the CPU may cost: less than a   *)
(* frame, the stall of a block included.                                   *)
EXTENDS Integers

CONSTANTS
    FrameDots,      \* dots of a frame (456 * 154)
    Costs,          \* CPU cycles an instruction can take
    FreezeCycles,   \* CPU cycles a speed switch adds (8200)
    BlockStall,     \* dots an HBlank DMA block adds to the step it falls in
    StepCap,        \* steps run_audio_slice allows itself (8192)
    StepBudgets,    \* max_instructions arguments of run_slice explored
    CycleBudgets    \* max_cpu_cycles arguments of run_slice explored

ASSUME FrameClockConstantsAssumption ==
    /\ FrameDots \in Nat \ {0} /\ Costs \subseteq Nat \ {0}
    /\ \A c \in Costs : c % 2 = 0 /\ c + BlockStall < FrameDots
    /\ FreezeCycles \in Nat /\ FreezeCycles % 2 = 0 /\ BlockStall \in Nat
    /\ StepCap \in Nat \ {0}
    /\ StepBudgets \subseteq Nat \ {0} /\ CycleBudgets \subseteq Nat \ {0}
=============================================================================
