------------------------------ MODULE ReactTurn ------------------------------
(***************************************************************************)
(* The turns of one conversation: the ReAct loop from the first request to *)
(* the accepted answer, through its pauses and resumes.                    *)
(*                                                                         *)
(*   react/loop.py      execute_reasoning_loop, _run_tools,                *)
(*                      _check_completion, _format_final_answer            *)
(*   base/reasoning.py  _answer_at_limit                                   *)
(*   agents/agent.py    run_stream_events, _drive_connected (what a paused *)
(*                      run leaves in shared_state for its resume)         *)
(*   runtime/status.py  runtime_status                                     *)
(*                                                                         *)
(* One step is the code up to the next await.  The tool calls of a round   *)
(* are reduced to how the round ends and what it leaves open, ToolRounds   *)
(* has the rest; a gate may answer anything.                               *)
(***************************************************************************)
EXTENDS Naturals, FiniteSets

CONSTANTS
    MaxIter,        \* max_loop_iterations
    MaxCutOffs      \* MAX_CUT_OFFS

ASSUME ConstantsAssumption == MaxIter \in Nat /\ MaxCutOffs \in Nat \ {0}

VARIABLES
    pc,         \* where the run is
    iteration,  \* loop_state.iteration
    decision,   \* loop_state.last_completion_decision
    cuts,       \* cut_offs
    finish,     \* loop_state.finish_reason, for the host
    stash,      \* shared_state["reasoning_loop"], Fresh when it is absent
    open,       \* of the task's records: some wait for the user, some are decided
    inbox,      \* ctx.inbox is not empty
    asks,       \* the agent has the ask_user tool
    \* what happened
    spent,      \* iterations of this task, as long as its runs only paused
    unseen,     \* the conversation has grown since the last request
    missed,     \* a message was in the inbox when the last reply came
    denials,    \* a call of this task was denied
    held,       \* an answer waits for its gate
    finished    \* the answer got its final shape and its final hooks

loopVars == <<pc, iteration, decision, cuts, finish, stash>>
pastVars == <<spent, unseen, missed, denials, held, finished>>
vars == <<loopVars, open, inbox, asks, pastVars>>

-----------------------------------------------------------------------------
Places == {"idle", "preamble", "recheck", "top", "model", "tools", "gate", "shape", "limit"}

Decisions == {"none", "completed", "waiting", "incomplete"}

Reasons == {"none", "paused", "waiting", "tool_denied", "completed", "max_iterations",
            "output_limit", "failed"}

\* The reasons a host resumes after: the task goes on.
Pauses == {"paused", "waiting", "tool_denied"}

Fresh == [iteration |-> 0, decision |-> "none"]

TypeOK ==
    /\ pc \in Places /\ iteration \in 0..MaxIter /\ decision \in Decisions
    /\ cuts \in 0..MaxCutOffs /\ finish \in Reasons
    /\ stash \in [iteration : 0..MaxIter, decision : Decisions]
    /\ open \in SUBSET {"asked", "decided"} /\ inbox \in BOOLEAN /\ asks \in BOOLEAN
    /\ spent \in Nat /\ unseen \in BOOLEAN /\ missed \in BOOLEAN
    /\ denials \in BOOLEAN /\ held \in BOOLEAN /\ finished \in BOOLEAN

Init ==
    /\ pc = "idle" /\ iteration = 0 /\ decision = "none" /\ cuts = 0
    /\ finish = "none" /\ stash = Fresh /\ open = {}
    /\ inbox = FALSE /\ asks \in BOOLEAN
    /\ spent = 0 /\ unseen = FALSE /\ missed = FALSE
    /\ denials = FALSE /\ held = FALSE /\ finished = FALSE

-----------------------------------------------------------------------------
(* The host.                                                               *)

\* run(task): the last task's calls are over; what it left is dropped.
NewTask ==
    /\ pc = "idle" /\ open = {}
    /\ pc' = "preamble"
    /\ iteration' = 0 /\ decision' = "none" /\ cuts' = 0
    /\ finish' = "none" /\ stash' = Fresh
    /\ spent' = 0 /\ unseen' = TRUE
    /\ denials' = FALSE /\ held' = FALSE /\ finished' = FALSE
    /\ UNCHANGED <<open, inbox, asks, missed>>

\* resume(): the loop state comes back from the stash, which is taken out.
Resume ==
    /\ pc = "idle"
    /\ pc' = "preamble"
    /\ iteration' = stash.iteration /\ decision' = stash.decision /\ cuts' = 0
    /\ finish' = "none" /\ stash' = Fresh
    /\ spent' = (IF finish \in Pauses THEN spent ELSE 0)
    /\ held' = (held /\ finish \in Pauses)
    /\ finished' = FALSE
    /\ UNCHANGED <<open, inbox, asks, unseen, missed, denials>>

\* Approvals, rejections and answers are applied to records that wait.
Decide ==
    /\ pc = "idle" /\ "asked" \in open
    /\ open' \in {{"decided"}, {"asked", "decided"}}
    /\ UNCHANGED <<loopVars, inbox, asks, pastVars>>

\* The user writes, between turns or during one.
Send ==
    /\ ~inbox /\ inbox' = TRUE
    /\ UNCHANGED <<loopVars, open, asks, pastVars>>

-----------------------------------------------------------------------------
(* How a run ends.                                                         *)

\* Slip: a pause keeps the iterations only of a run that waits for its gate.
KeptOfWaiting(reason, d) == IF reason = "waiting" THEN [iteration |-> iteration, decision |-> d]
                                                  ELSE [Fresh EXCEPT !.decision = d]

\* Slip: like last_result, the decision is kept only by the run that waits.
KeptLikeResult(reason, d) ==
    [iteration |-> iteration, decision |-> IF reason = "waiting" THEN d ELSE "none"]

Kept(reason, d) == [iteration |-> iteration, decision |-> d]

\* The run returns with a reason; a pause is kept for the resume.
End(reason, d) ==
    /\ pc' = "idle" /\ finish' = reason
    /\ decision' = d
    /\ stash' = IF reason \in Pauses THEN Kept(reason, d) ELSE stash

Go(place) == pc' = place /\ UNCHANGED <<finish, decision, stash>>

\* A round is over: a denial ends the turn unless the model can ask the user
\* what now, else a call that waits pauses it, else it goes on.
RoundOver(denied, waits, next) ==
    \/ denied /\ asks /\ Go(next)
    \/ denied /\ ~asks /\ End("tool_denied", decision)
    \/ ~denied /\ waits /\ End("paused", decision)
    \/ ~denied /\ ~waits /\ Go(next)

\* It fails, is cancelled, or a middleware stops it.  A round that fails
\* answers the calls it was given: in the preamble those are all.
Fail ==
    /\ pc # "idle"
    /\ End("failed", decision)
    /\ open' \in {open} \cup (IF pc = "preamble" THEN {{}} ELSE {})
    /\ unseen' = (unseen \/ open' # open \/ pc = "tools")
    /\ UNCHANGED <<iteration, cuts, inbox, asks, spent, missed, denials, held, finished>>

-----------------------------------------------------------------------------
(* A run before its first request.                                         *)

\* An answer that waited for its gate is looked at first.
AfterPreamble == IF decision = "waiting" THEN "recheck" ELSE "top"

NothingPending ==
    /\ pc = "preamble" /\ open = {}
    /\ Go(AfterPreamble)
    /\ UNCHANGED <<iteration, cuts, open, inbox, asks, pastVars>>

\* The calls the pause left are dispatched.  Decided ones are over then, and
\* one that still waits may be: the policy has changed.
FinishPending ==
    /\ pc = "preamble" /\ open # {}
    /\ \E waiting \in SUBSET (open \cap {"asked"}), denied \in BOOLEAN :
         /\ open' = waiting
         /\ unseen' = (unseen \/ waiting # open \/ denied)
         /\ denials' = (denials \/ denied)
         /\ RoundOver(denied, waiting # {}, AfterPreamble)
    /\ UNCHANGED <<iteration, cuts, inbox, asks, spent, missed, held, finished>>

\* Slip: the gates are asked while calls are open.
AnyVerdict == {"completed", "waiting", "incomplete"}

\* _check_completion: with an open call the answer waits, whatever the gates say.
Verdicts == IF open = {} THEN {"completed", "waiting", "incomplete"} ELSE {"waiting"}

\* A completed answer ends the turn as it is.
Recheck ==
    /\ pc = "recheck"
    /\ \E verdict \in Verdicts :
         /\ held' = (verdict = "waiting")
         /\ IF verdict = "incomplete"
              THEN pc' = "top" /\ decision' = verdict /\ UNCHANGED <<finish, stash>>
              ELSE End(verdict, verdict)
    /\ UNCHANGED <<iteration, cuts, open, inbox, asks, spent, unseen, missed, denials, finished>>

-----------------------------------------------------------------------------
(* The main loop.                                                          *)

AtLimit == iteration >= MaxIter

\* _take_inbox, then the request with everything in the conversation.
Request ==
    /\ pc = "top" /\ ~AtLimit
    /\ Go("model")
    /\ iteration' = iteration + 1 /\ spent' = spent + 1
    /\ inbox' = FALSE /\ missed' = FALSE /\ unseen' = FALSE
    /\ UNCHANGED <<cuts, open, asks, denials, held, finished>>

\* One request without tools; the inbox stays for the next turn.
RequestAtLimit ==
    /\ pc = "top" /\ AtLimit
    /\ Go("limit")
    /\ unseen' = FALSE
    /\ UNCHANGED <<iteration, cuts, open, inbox, asks, spent, missed, denials, held, finished>>

\* Slip: the last answer does not end the turn.
LoopAtLimit ==
    /\ pc = "limit"
    /\ Go("top")
    /\ UNCHANGED <<iteration, cuts, open, inbox, asks, pastVars>>

AnswerAtLimit ==
    /\ pc = "limit"
    /\ End("max_iterations", decision)
    /\ UNCHANGED <<iteration, cuts, open, inbox, asks, pastVars>>

\* The reply was cut at the output limit and holds no whole call.
CutOff ==
    /\ pc = "model"
    /\ cuts' = cuts + 1
    /\ IF cuts' >= MaxCutOffs THEN End("output_limit", decision) ELSE Go("top")
    /\ missed' = inbox
    /\ UNCHANGED <<iteration, open, inbox, asks, spent, unseen, denials, held, finished>>

CallTools ==
    /\ pc = "model"
    /\ Go("tools") /\ cuts' = 0
    /\ missed' = inbox
    /\ UNCHANGED <<iteration, open, inbox, asks, spent, unseen, denials, held, finished>>

\* Slip: the inbox is looked at when the next request is made.
NeverWrote == FALSE

WroteMeanwhile == inbox

\* An answer without calls: judged, unless the user wrote meanwhile.
AnswerText ==
    /\ pc = "model"
    /\ Go(IF WroteMeanwhile THEN "top" ELSE "gate") /\ cuts' = 0
    /\ missed' = inbox
    /\ UNCHANGED <<iteration, open, inbox, asks, spent, unseen, denials, held, finished>>

\* The round of this reply; its own calls decide how it ends.
RunTools ==
    /\ pc = "tools"
    /\ \E asked, denied \in BOOLEAN :
         /\ open' = IF asked THEN open \cup {"asked"} ELSE open
         /\ denials' = (denials \/ denied)
         /\ RoundOver(denied, asked, "top")
         /\ unseen' \in IF asked /\ ~denied THEN BOOLEAN ELSE {TRUE}
    /\ UNCHANGED <<iteration, cuts, inbox, asks, spent, missed, held, finished>>

\* The gates judge the answer.
Judge ==
    /\ pc = "gate"
    /\ \E verdict \in Verdicts :
         /\ held' = (verdict = "waiting")
         /\ IF verdict = "waiting"
              THEN End(verdict, verdict)
              ELSE /\ pc' = IF verdict = "completed" THEN "shape" ELSE "top"
                   /\ decision' = verdict
                   /\ UNCHANGED <<finish, stash>>
    /\ UNCHANGED <<iteration, cuts, open, inbox, asks, spent, unseen, missed, denials, finished>>

\* output_format, then the final_response hooks.
Shape ==
    /\ pc = "shape"
    /\ finished' = TRUE
    /\ End("completed", decision)
    /\ UNCHANGED <<iteration, cuts, open, inbox, asks, spent, unseen, missed, denials, held>>

-----------------------------------------------------------------------------
Work == \/ NothingPending \/ FinishPending \/ Recheck
        \/ Request \/ RequestAtLimit \/ AnswerAtLimit
        \/ CutOff \/ CallTools \/ AnswerText \/ RunTools \/ Judge \/ Shape

Next == NewTask \/ Resume \/ Decide \/ Send \/ Fail \/ Work

Spec == Init /\ [][Next]_vars

\* Requests return (the client times out, _with_retries gives up), rounds end
\* (RoundEnds of ToolRounds) and gates answer; the user owes nothing.
FairSpec == Spec /\ WF_vars(Work)

-----------------------------------------------------------------------------
\* A task that only paused never gets more than max_loop_iterations requests,
\* however often it is resumed (BaseLoopState, "a resumed run keeps its
\* iteration budget").
BudgetKept == spent <= MaxIter

\* A turn reported as completed leaves no call open: the framework's blockers
\* come before the gates (runtime_status), also after a denial let the model
\* go on beside a call that waits.
SettledWhenCompleted == finish = "completed" => open = {}

\* The accepted answer was given in knowledge of the whole conversation and of
\* the messages that had come before it, but for the results of calls that
\* waited beside a denied one (the inbox check, the resume preamble).
AnswerIsCurrent ==
    finish = "completed" => ~missed /\ (unseen => denials)

\* An answer that waits for its gate is judged again before the model is asked
\* anything, through further pauses too ("Recheck it before spending another
\* model iteration").
HeldAnswerFirst == held => pc \notin {"top", "model", "tools", "limit", "shape"}

\* Every accepted answer has the schema of output_format and went through the
\* final hooks of the middlewares (README.md, Structured Output).
AnswerIsFinished == finish = "completed" => finished

\* A run ends, whatever the model, the gates and the user do.
RunEnds == pc # "idle" ~> pc = "idle"
=============================================================================
