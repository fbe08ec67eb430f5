------------------------------ MODULE SlotFlow ------------------------------
(***************************************************************************)
(* Control flow as the bytecode states it: a program is an array of        *)
(* eight-byte slots, the second slot of a wide load is no instruction, and *)
(* a jump counts slots from the one after it.                              *)
(***************************************************************************)
EXTENDS Insn

\* What the second slot of a wide load holds.
Second == [insn |-> "Second"]

VARIABLES
    text,    \* a function from slots to instructions
    at,      \* the slot under execution
    status   \* the last result: "done" while the program runs

vars == <<text, at, status>>

Init == at = 0 /\ status = "done"

IsStart(slot) == slot \in DOMAIN text /\ text[slot] # Second

Stop(results) ==
    /\ status' \in results
    /\ at' = at

\* Every instruction may fault except a move of the control flow, which
\* faults exactly when its target is not the start of an instruction.
Next ==
    /\ status = "done" /\ text' = text
    /\ \/ Stop({"StepsExceeded"})
       \/ ~ IsStart(at) /\ Stop({"JumpOutOfBounds"})
       \/ /\ IsStart(at) /\ IsJump(text[at])
          /\ LET target == at + 1 + text[at].offset
             IN  \/ IsStart(target) /\ status' = "done"
                    /\ at' \in (IF IsConditional(text[at]) THEN {target, at + 1} ELSE {target})
                 \/ ~ IsStart(target) /\ Stop({"JumpOutOfBounds"})
       \/ IsStart(at) /\ text[at].insn = "Exit" /\ Stop({"exit"})
       \/ IsStart(at) /\ text[at].insn = "Unknown" /\ Stop({"IllegalInstruction"})
       \/ /\ IsStart(at) /\ text[at].insn \notin {"Jump", "Exit", "Unknown"}
          /\ \/ status' = "done" /\ at' = at + Slots(text[at])
             \/ status' \notin {"done", "exit", "JumpOutOfBounds"} /\ at' = at

Spec == Init /\ [][Next]_vars
=============================================================================
