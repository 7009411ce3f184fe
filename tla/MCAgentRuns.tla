----------------------------- MODULE MCAgentRuns -----------------------------
(* Instances of AgentRuns for TLC.                                          *)
EXTENDS AgentRuns, TLC

CONSTANTS one, two, other       \* two messages of one session, one of another

MCRuns    == {one, two, other}
MCSession == [r \in MCRuns |-> IF r = other THEN "s2" ELSE "s1"]

\* The two messages of one session and the callers of close are alike.
Alike == Permutations({one, two}) \cup Permutations(Closers)
=============================================================================
