---------------------------- MODULE MCToolRounds ----------------------------
(* Instances of ToolRounds for TLC: tools named for what they stand for.    *)
EXTENDS ToolRounds

\* look: a read-only tool; save: one that writes; wipe: one the policy may
\* deny; ask_user: the question tool; junk: an unknown or malformed call.
Allowing == [t \in Tools |-> IF t = "wipe" THEN "deny" ELSE "allow"]
Asking   == [t \in Tools |-> CASE t = "wipe" -> "deny" [] t = "look" -> "allow" [] OTHER -> "ask"]

OnlyAsking   == {Asking}
OnlyAllowing == {Allowing}
BothPolicies == {Asking, Allowing}
=============================================================================
