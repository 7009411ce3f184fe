------------------------------ MODULE Compaction ------------------------------
(***************************************************************************)
(* The live window of a conversation and its compaction before a model      *)
(* call: messages are grouped into blocks, old blocks are pruned, and when  *)
(* that is not enough the strategy drops the oldest blocks, into a summary  *)
(* or for good.                                                            *)
(*                                                                         *)
(*   base/compaction.py                      CoreCompaction                  *)
(*   core/compaction/{groups,budget}.py      blocks and token budgets        *)
(*   capabilities/compaction/{summary,window}/_strategy.py                   *)
(*   base/reasoning.py                       _compact_if_needed              *)
(***************************************************************************)
EXTENDS Naturals, Sequences, FiniteSets, FiniteSetsExt

CONSTANTS
    MaxMessages,   \* bound: messages ever appended
    BigResult,     \* tokens of a long tool result; other messages have one
    Threshold,     \* live tokens that trigger a compaction, 0: unknown window
    KeepTokens,    \* budget of what is kept raw
    HistorySizes,  \* tokens of the earlier history, which the budget pays for
    MinKeep,       \* min_keep_groups
    MaxTurns       \* max_turns of the sliding window

ASSUME CompactionAssumption ==
    /\ MaxMessages \in Nat /\ BigResult \in Nat \ {0} /\ Threshold \in Nat
    /\ KeepTokens \in Nat /\ HistorySizes \subseteq Nat
    /\ MinKeep \in Nat \ {0} /\ MaxTurns \in Nat \ {0}

VARIABLES
    strategy,    \* "summary" or "window"
    history,     \* tokens of ctx.message_history
    window,      \* ctx.messages
    said,        \* messages ever appended
    waiting,     \* calls whose record is not consumed
    hasGap,      \* a call was given up without a result
    folded,      \* messages the summary was made from
    notes,       \* the harness's messages
    compaction   \* how the last compaction ended

compactionVars == <<strategy, history, window, said, waiting, hasGap, folded, notes, compaction>>

-----------------------------------------------------------------------------
Kinds == {"user", "harness", "answer", "call", "result"}

\* "calls": the calls a message makes, or the one it answers.
Messages == [id : 1..MaxMessages, kind : Kinds, size : 1..BigResult,
             calls : SUBSET ((1..MaxMessages) \X (1..2))]
Message(id, kind, size, calls) == [id |-> id, kind |-> kind, size |-> size, calls |-> calls]

CompactionTypeOK ==
    /\ strategy \in {"summary", "window"} /\ history \in HistorySizes
    /\ window \in Seq(Messages) /\ \A i \in DOMAIN window : window[i].id <= said
    /\ said \in 0..MaxMessages /\ folded \subseteq 1..said /\ notes \subseteq 1..said /\ hasGap \in BOOLEAN
    /\ waiting \subseteq (1..MaxMessages) \X (1..2)
    /\ compaction \in {"none", "failed", "refused", "pruned", "compacted"}

CompactionInit ==
    /\ strategy \in {"summary", "window"} /\ history \in HistorySizes
    /\ window = <<>> /\ said = 0 /\ waiting = {} /\ hasGap = FALSE
    /\ folded = {} /\ notes = {} /\ compaction = "none"

Tokens(messages) ==
    LET sum[n \in 0..Len(messages)] == IF n = 0 THEN 0 ELSE sum[n - 1] + messages[n].size
    IN  sum[Len(messages)]

-----------------------------------------------------------------------------
(* The conversation goes on.                                               *)

Appended(kind, size, calls) ==
    /\ said < MaxMessages /\ said' = said + 1
    /\ window' = Append(window, Message(said + 1, kind, size, calls))
    /\ notes' = IF kind = "harness" THEN notes \cup {said + 1} ELSE notes
    /\ compaction' = "none"
    /\ UNCHANGED <<strategy, history, folded>>

\* A user's message, the harness's, or an answer.
Speak(kind) ==
    /\ waiting = {} /\ Appended(kind, 1, {})
    /\ UNCHANGED <<waiting, hasGap>>

CallTools(n) ==
    /\ waiting = {}
    /\ LET calls == {<<said + 1, k>> : k \in 1..n}
       IN  Appended("call", 1, calls) /\ waiting' = calls
    /\ UNCHANGED hasGap

ResultArrives(call, size) ==
    /\ call \in waiting /\ Appended("result", size, {call})
    /\ waiting' = waiting \ {call}
    /\ UNCHANGED hasGap

\* A run that ends by a denial or a cancellation leaves calls without result.
GiveUpCalls ==
    /\ waiting # {} /\ waiting' = {} /\ hasGap' = TRUE
    /\ UNCHANGED <<strategy, history, window, said, folded, notes, compaction>>

-----------------------------------------------------------------------------
(* Blocks: a message that calls tools and the results that follow it, or    *)
(* any other message.  A block is known by the place where it starts.        *)

\* Slip: every message is a block of its own.
NeverFollows(messages, i) == FALSE

\* A result of a call of the message that opens the block.
Follows(messages, i) ==
    \E j \in 1..(i - 1) :
       /\ messages[j].kind = "call"
       /\ \A k \in (j + 1)..i :
             messages[k].kind = "result" /\ messages[k].calls \subseteq messages[j].calls

Blocks(messages) == {i \in DOMAIN messages : ~Follows(messages, i)}

\* Blocks that open a turn.
TurnStarts(messages) == {i \in Blocks(messages) : messages[i].kind = "user"}
CurrentTurnStart(messages) == Max({1} \cup TurnStarts(messages))

Since(places, i) == {place \in places : place >= i}
Suffix(messages, i) == SubSeq(messages, i, Len(messages))

\* Where the newest blocks begin that fit, or MinKeep of them whether they
\* fit or not.
Recent(messages, budget) ==
    Min({i \in Blocks(messages) \cup {Len(messages) + 1} :
            \/ Cardinality(Since(Blocks(messages), i)) <= MinKeep
            \/ Tokens(Suffix(messages, i)) <= budget})

\* A window a provider accepts: a result follows its call, once, a call has
\* its results.  (Not Follows: the validation has a walk of its own.)
Accepted(messages) ==
    \A i \in DOMAIN messages :
       /\ messages[i].kind = "result" =>
             \E j \in 1..(i - 1) :
                /\ messages[j].kind = "call" /\ messages[i].calls \subseteq messages[j].calls
                /\ \A k \in (j + 1)..(i - 1) :
                      messages[k].kind = "result" /\ messages[k].calls # messages[i].calls
       /\ messages[i].kind = "call" => \A call \in messages[i].calls :
             \E j \in (i + 1)..Len(messages) :
                /\ messages[j].calls = {call}
                /\ \A k \in (i + 1)..j : messages[k].kind = "result"

-----------------------------------------------------------------------------
(* compact.                                                                *)

OverLimit(messages) ==
    \/ strategy = "window" /\ Cardinality(TurnStarts(messages)) > MaxTurns
    \/ Threshold > 0 /\ history + Tokens(messages) > Threshold

\* Long results are cut down; the id and the calls stay.
Shrink(m) == IF m.kind = "result" THEN [m EXCEPT !.size = 1] ELSE m

\* In a block older than the newest MinKeep.
Old(i) == Cardinality(Since(Blocks(window), i + 1)) >= MinKeep

\* Of old blocks, the harness's messages of earlier turns go.
Goes(i) == Old(i) /\ window[i].kind = "harness" /\ i < CurrentTurnStart(window)

Pruned ==
    LET kept[n \in 0..Len(window)] ==
          IF n = 0 THEN <<>>
          ELSE IF Goes(n) THEN kept[n - 1]
          ELSE Append(kept[n - 1], IF Old(n) THEN Shrink(window[n]) ELSE window[n])
    IN  kept[Len(window)]

Budget == IF history < KeepTokens THEN KeepTokens - history ELSE 0

\* The summary takes its room from the budget.  The cut moves on to the start
\* of a turn, when enough blocks are left after it.
SummaryCut(messages) ==
    LET cut   == Recent(messages, IF Budget > 1 THEN Budget - 1 ELSE 1)
        later == Since(TurnStarts(messages), cut)
    IN  IF later # {} /\ Cardinality(Since(Blocks(messages), Min(later))) >= MinKeep
        THEN Min(later) ELSE cut

\* The last MaxTurns turns, and of those what fits; without a budget, all.
WindowCut(messages) ==
    LET turns == TurnStarts(messages)
        start == IF Cardinality(turns) > MaxTurns
                 THEN Min({i \in turns : Cardinality(Since(turns, i)) <= MaxTurns}) ELSE 1
        kept  == Suffix(messages, start)
    IN  IF Budget > 0 /\ Tokens(kept) > Budget
        THEN start - 1 + Recent(kept, Budget) ELSE start

CutPoint(messages) == IF strategy = "summary" THEN SummaryCut(messages) ELSE WindowCut(messages)

Ids(messages) == {messages[i].id : i \in DOMAIN messages}

\* The new summary: the one before and the messages that leave.
Folds(old) == folded \cup Ids(old)

\* Pruning was enough: its result is not validated.
PruneWindow ==
    /\ waiting = {} /\ OverLimit(window) /\ ~OverLimit(Pruned)
    /\ window' = Pruned /\ compaction' = "pruned"
    /\ UNCHANGED <<strategy, history, said, waiting, hasGap, folded, notes>>

CompactWindow ==
    /\ waiting = {} /\ OverLimit(window) /\ OverLimit(Pruned)
    /\ LET old    == SubSeq(Pruned, 1, CutPoint(Pruned) - 1)
           recent == Suffix(Pruned, CutPoint(Pruned))
       IN  IF Accepted(recent)
           THEN /\ window' = recent /\ compaction' = "compacted"
                /\ folded' = IF strategy = "summary" /\ old # <<>> THEN Folds(old) ELSE folded
           ELSE compaction' = "refused" /\ UNCHANGED <<window, folded>>
    /\ UNCHANGED <<strategy, history, said, waiting, hasGap, notes>>

\* A request for the summary raises: the call goes ahead with the window as
\* it is.
CompactionFails ==
    /\ strategy = "summary" /\ waiting = {} /\ OverLimit(window) /\ OverLimit(Pruned)
    /\ SummaryCut(Pruned) > 1
    /\ compaction' = "failed"
    /\ UNCHANGED <<strategy, history, window, said, waiting, hasGap, folded, notes>>

CompactionNext ==
    \/ \E kind \in {"user", "harness", "answer"} : Speak(kind)
    \/ \E n \in 1..2 : CallTools(n)
    \/ \E call \in waiting, size \in {1, BigResult} : ResultArrives(call, size)
    \/ GiveUpCalls \/ PruneWindow \/ CompactWindow \/ CompactionFails

CompactionSpec == CompactionInit /\ [][CompactionNext]_compactionVars

-----------------------------------------------------------------------------
\* Whatever mix of calls, results and compactions there was.  As long as no
\* call was given up, every window between two rounds is one a provider
\* accepts, and no compaction is refused.  What is kept fits the budget, or is
\* MinKeep blocks, or there was no budget for a sliding window to keep (the
\* history had used it up).  And with a summary every message of the
\* conversation, but the harness's own, is in the window or in the summary.
CompactionKeeps ==
    /\ ~hasGap => (waiting = {} => Accepted(window)) /\ compaction # "refused"
    /\ compaction = "compacted" =>
          \/ Tokens(window) <= Budget \/ Cardinality(Blocks(window)) <= MinKeep
          \/ strategy = "window" /\ Budget = 0
    /\ strategy = "summary" => 1..said \subseteq Ids(window) \cup folded \cup notes
=============================================================================
