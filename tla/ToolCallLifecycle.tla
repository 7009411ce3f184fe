--------------------------- MODULE ToolCallLifecycle ---------------------------
(***************************************************************************)
(* What one tool call promises, whatever the dispatcher, the loop, the     *)
(* user and the cancellations do around it (types/tool_call.py, the        *)
(* lifecycle in the docstring of ToolCallRecord).                          *)
(*                                                                         *)
(* A call is absent, then open (proposed by the model, nothing has run),   *)
(* then either running or closed without having run.  A running call can   *)
(* only become done.  Refused and done are final, the transcript answers a *)
(* call at most once and only when it is final.                            *)
(*                                                                         *)
(* The host may copy the conversation at any time and come back to that    *)
(* copy after a crash; the promise then restarts from the copy.            *)
(***************************************************************************)
EXTENDS Naturals

CONSTANT Calls          \* the tool calls of one conversation

VARIABLES
    phase,              \* where each call stands
    answered,           \* number of transcript entries that answer each call
    kept                \* the copy a restart comes back to

vars == <<phase, answered, kept>>

Phases == {"absent", "open", "running", "refused", "done"}

Final == {"refused", "done"}

\* The life of one call: from -> the phases one step may lead to.
Leads == [absent  |-> {"absent", "open"},
          open    |-> {"open", "running", "refused"},
          running |-> {"running", "done"},
          refused |-> {"refused"},
          done    |-> {"done"}]

-----------------------------------------------------------------------------
Init == /\ phase = [c \in Calls |-> "absent"]
        /\ answered = [c \in Calls |-> 0]
        /\ kept = [phase |-> phase, answered |-> answered]

\* One call moves along its life, and is answered only once it is final.
Move(c) == /\ phase'[c] \in Leads[phase[c]]
           /\ \/ answered'[c] = answered[c]
              \/ /\ answered[c] = 0
                 /\ answered'[c] = 1
                 /\ phase'[c] \in Final

\* Several calls may move in one step: a cancelled round closes and answers
\* all of its calls at once.
Progress == /\ phase' \in [Calls -> Phases]
            /\ answered' \in [Calls -> Nat]
            /\ \A c \in Calls : Move(c)
            /\ UNCHANGED kept

Keep == /\ kept' = [phase |-> phase, answered |-> answered]
        /\ UNCHANGED <<phase, answered>>

Return == /\ phase' = kept.phase
          /\ answered' = kept.answered
          /\ UNCHANGED kept

Next == Progress \/ Keep \/ Return

Spec == Init /\ [][Next]_vars
=============================================================================
