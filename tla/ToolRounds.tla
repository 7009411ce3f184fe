------------------------------ MODULE ToolRounds ------------------------------
(***************************************************************************)
(* The tool calls of one conversation of an Agent, from the model's reply  *)
(* to the transcript entry that answers each call.                         *)
(*                                                                         *)
(*   core/tool/dispatcher.py   ToolDispatcher.dispatch_many / _dispatch    *)
(*   types/tool_call.py        ToolCallRecord transitions                  *)
(*   core/tool/state.py        ToolState (what the host applies)           *)
(*   base/reasoning.py         _execute_tools, _answer_unanswered          *)
(*   react/loop.py             _register_tool_calls, _run_tools and the    *)
(*                             branches of execute_reasoning_loop on it    *)
(*   agents/agent.py           run_stream_events: new task, resume, cancel *)
(*                                                                         *)
(* One step is the code between two awaits: asyncio interleaves tasks only *)
(* there.  Calls are numbered in the order they are registered, which is   *)
(* the insertion order of ToolState.records and the order of the calls in  *)
(* an assistant message, so a list of records is the set of its numbers.   *)
(***************************************************************************)
EXTENDS Naturals, FiniteSets

CONSTANTS
    MaxCalls,       \* bound: calls registered over the whole conversation
    MaxRound,       \* bound: calls in one model reply
    MaxParallel,    \* setting.max_parallel_tools
    MaxRestarts,    \* bound: crashes of the process
    Tools,          \* the tools a call may name
    ReadOnly,       \* tools with read_only = True
    AskTools,       \* AskUserTool, or {} when enable_human_input is off
    BadTools,       \* unknown names, and calls whose arguments are invalid
    Policies,       \* the verdicts [Tools -> Verdicts] an agent may have
    Hooks,          \* the agent has middlewares (their tool hooks suspend)
    Faults          \* what the environment may do, a subset of AllFaults

Verdicts == {"allow", "ask", "deny"}

\* hook_raises   a tool hook of a middleware raises
\* slow_cleanup  a cancelled tool takes time to stop
\* repeat_ids    the provider reuses the id of a call of an earlier task
\* hook_cancel   a cancellation arrives while a response hook is suspended
AllFaults == {"hook_raises", "slow_cleanup", "repeat_ids", "hook_cancel"}

ASSUME ConstantsAssumption ==
    /\ MaxCalls \in Nat /\ MaxRound \in Nat /\ MaxRestarts \in Nat
    /\ MaxParallel \in Nat \ {0}
    /\ ReadOnly \subseteq Tools /\ AskTools \subseteq Tools /\ BadTools \subseteq Tools
    /\ Policies \subseteq [Tools -> Verdicts]
    /\ Hooks \in BOOLEAN
    /\ Faults \subseteq AllFaults

Calls == 1..MaxCalls

-----------------------------------------------------------------------------
(* ToolCallRecord: what is known about one call.  "ran" counts how often   *)
(* its tool was started, "answers" how often the transcript answers it.    *)

Statuses == {"none", "pending", "input", "approved", "auto", "rejected",
             "executing", "consumed"}

\* A tool and a response hook return what they like: "returned", their failures
\* included, or a failure that reads as a denial, "denied_after".  A request hook
\* that answers in the tool's place does so too: "instead", or "denied" as the
\* dispatcher says it.  "answer" is the user's, "failed" a call that was refused
\* or given up.
Results == {"none", "answer", "returned", "failed", "denied", "cancelled_before",
            "cancelled_during", "instead", "denied_after"}

Unrun   == {"answer", "denied", "cancelled_before", "instead"}
Denials == {"denied", "denied_after"}
Returns == {"returned", "denied_after"}

Waiting == {"pending", "input"}          \* the user has to act

Record == [tool : Tools \cup {"none"}, id : Nat, status : Statuses,
           auto : BOOLEAN, said : BOOLEAN, result : Results,
           ran : Nat, answers : Nat]

Unregistered == [tool |-> "none", id |-> 0, status |-> "none", auto |-> FALSE,
                 said |-> FALSE, result |-> "none", ran |-> 0, answers |-> 0]

Proposed(t, i) == [Unregistered EXCEPT !.tool = t, !.id = i, !.status = "pending"]

Approve(r)          == [r EXCEPT !.status = "approved"]
Reject(r)           == [r EXCEPT !.status = "rejected"]
AutoApprove(r)      == [r EXCEPT !.status = "auto", !.auto = TRUE]
AwaitUserInput(r)   == [r EXCEPT !.status = "input"]
ApplyUserAnswer(r)  == [r EXCEPT !.status = "approved", !.said = TRUE]
StartExecution(r)   == [r EXCEPT !.status = "executing", !.ran = @ + 1]

Consume(r, result)  == [r EXCEPT !.status = "consumed", !.result = result]
Answer(r)           == [r EXCEPT !.answers = @ + 1]

\* Slip: a tool that was cancelled leaves its record as it is.
CancelledSilently(r) == r

Cancelled(r)        == Consume(r, "cancelled_during")

-----------------------------------------------------------------------------
VARIABLES
    \* the RunContext
    rec,        \* [Calls -> Record]
    count,      \* calls 1..count were proposed in this conversation
    tracked,    \* keys of ToolState.records: the calls of the current task
    \* the run
    run,        \* "idle", "model" (a request is out), "tools", "stopping"
    token,      \* the run's CancellationToken is cancelled
    round,      \* the records this dispatch_many was given
    rest,       \* those its producer has not batched yet
    batch,      \* the batch it is gathering
    clash,      \* calls of the batch already EXECUTING or still dispatched
    queued,     \* ToolMessages put and not yet consumed
    broken,     \* the producer ended with an exception
    step,       \* where the dispatch coroutine of each call is
    \* around the run
    policy,     \* the verdict of each tool under the agent's Policy
    saved,      \* the copy of the RunContext the host stored
    restarts    \* crashes so far

ctxVars  == <<rec, count, tracked>>
roundVars == <<round, rest, batch, clash, queued, broken>>
hostVars == <<policy, saved, restarts>>
vars == <<ctxVars, run, token, roundVars, step, hostVars>>

\* slot: waiting for the semaphore.  request, response: inside a tool hook of
\* a middleware.  unwinding: cancelled, the tool has not stopped yet.
Steps == {"idle", "slot", "request", "running", "response", "unwinding",
          "returned", "raised"}

InTool == {"request", "running", "response", "unwinding"}

Context == [rec |-> rec, count |-> count, tracked |-> tracked]

Registered == 1..count
HumanInput == AskTools # {}
Status(c)  == rec[c].status
Verdict(c) == policy[rec[c].tool]
IsReadOnly(c) == rec[c].tool \in ReadOnly

\* Calls that share the batch's gather (a clashing one is another coroutine's).
Children == batch \ clash

TypeOK ==
    /\ rec \in [Calls -> Record] /\ count \in 0..MaxCalls
    /\ tracked \in SUBSET Calls
    /\ run \in {"idle", "model", "tools", "stopping"} /\ token \in BOOLEAN
    /\ round \in SUBSET Calls /\ rest \in SUBSET Calls /\ batch \in SUBSET Calls
    /\ clash \in SUBSET Calls /\ queued \in SUBSET Calls /\ broken \in BOOLEAN
    /\ step \in [Calls -> Steps]
    /\ policy \in [Tools -> Verdicts]
    /\ saved \in [rec : [Calls -> Record], count : 0..MaxCalls, tracked : SUBSET Calls]
    /\ restarts \in 0..MaxRestarts

Init ==
    /\ rec = [c \in Calls |-> Unregistered] /\ count = 0 /\ tracked = {}
    /\ run = "idle" /\ token = FALSE
    /\ round = {} /\ rest = {} /\ batch = {} /\ clash = {} /\ queued = {}
    /\ broken = FALSE
    /\ step = [c \in Calls |-> "idle"]
    /\ policy \in Policies
    /\ saved = Context
    /\ restarts = 0

-----------------------------------------------------------------------------
(* The host between two runs.                                              *)

\* run(task): refused while a record of the last task is not consumed.
NewTask ==
    /\ run = "idle"
    /\ \A c \in tracked : Status(c) = "consumed"
    /\ tracked' = {}
    /\ run' = "model" /\ token' = FALSE
    /\ UNCHANGED <<rec, count, roundVars, step, hostVars>>

\* dispatch_many(records) starts on S.
BeginRound(S) ==
    /\ run' = "tools"
    /\ round' = S /\ rest' = S
    /\ batch' = {} /\ clash' = {} /\ queued' = {} /\ broken' = FALSE

\* resume(): the preamble of the loop finishes what the pause left.
Resume ==
    LET left == {c \in tracked : Status(c) # "consumed"} IN
    /\ run = "idle"
    /\ token' = FALSE
    /\ IF left = {} THEN run' = "model" /\ UNCHANGED roundVars
                    ELSE BeginRound(left)
    /\ UNCHANGED <<ctxVars, step, hostVars>>

\* What the host applies to ToolState for call c.
HostApplies(c, r) ==
    /\ run = "idle" /\ c \in tracked
    /\ rec' = [rec EXCEPT ![c] = r]
    /\ UNCHANGED <<count, tracked, run, token, roundVars, step, hostVars>>

Approval(c) == /\ Status(c) = "pending"
               /\ \/ HostApplies(c, Approve(rec[c]))
                  \/ HostApplies(c, Reject(rec[c]))

UserAnswer(c) == Status(c) = "input" /\ HostApplies(c, ApplyUserAnswer(rec[c]))

\* Recovery of a record a dead run left EXECUTING.
FailStale(c) == /\ Status(c) = "executing" /\ step[c] = "idle"
                /\ HostApplies(c, Consume(rec[c], "failed"))

\* "Always allow" adds a rule to ctx.allowed_rules.
AllowRule(t) ==
    /\ run = "idle" /\ policy[t] = "ask"
    /\ policy' = [policy EXCEPT ![t] = "allow"]
    /\ UNCHANGED <<ctxVars, run, token, roundVars, step, saved, restarts>>

\* The host stores the RunContext, between runs or on an event of one.
Save ==
    /\ restarts < MaxRestarts
    /\ saved' = Context
    /\ UNCHANGED <<ctxVars, run, token, roundVars, step, policy, restarts>>

\* The process dies and the conversation is loaded from the store, by an
\* agent whose policy may have changed.
Crash ==
    /\ restarts < MaxRestarts
    /\ restarts' = restarts + 1
    /\ rec' = saved.rec /\ count' = saved.count /\ tracked' = saved.tracked
    /\ run' = "idle" /\ token' = FALSE
    /\ round' = {} /\ rest' = {} /\ batch' = {} /\ clash' = {} /\ queued' = {}
    /\ broken' = FALSE
    /\ step' = [c \in Calls |-> "idle"]
    /\ policy' \in Policies
    /\ UNCHANGED saved

-----------------------------------------------------------------------------
(* The model's reply.                                                      *)

\* Ids are unique among the records of the task; a provider that derives
\* them from the tool name may repeat one of an earlier task.
FreshId(i, c) == /\ i \notin {rec[d].id : d \in tracked}
                 /\ IF "repeat_ids" \in Faults THEN i \in 1..c ELSE i = c

\* Tool calls: each gets a PENDING record, then the round runs.
ModelCalls ==
    /\ run = "model"
    /\ \E k \in 1..MaxRound :
         LET new == count + 1 .. count + k IN
         /\ count + k <= MaxCalls
         /\ count' = count + k
         /\ tracked' = tracked \cup new
         /\ \E tool \in [new -> Tools], id \in [new -> 1..count + k] :
              /\ \A c \in new : FreshId(id[c], c)
              /\ \A c, d \in new : c # d => id[c] # id[d]
              /\ rec' = [c \in Calls |-> IF c \in new THEN Proposed(tool[c], id[c]) ELSE rec[c]]
         /\ BeginRound(new)
    /\ UNCHANGED <<token, step, hostVars>>

\* No tool calls: the answer is judged and the run ends, or the request failed.
ModelEnds ==
    /\ run = "model"
    /\ run' = "idle"
    /\ UNCHANGED <<ctxVars, token, roundVars, step, hostVars>>

-----------------------------------------------------------------------------
(* dispatch_many: the producer task and its consumer.                      *)

\* Slips: every read-only call at once, ahead of the others; everything at once.
ReadsFirst(S) ==
    LET reads == {c \in S : IsReadOnly(c)} IN
    IF reads # {} THEN reads ELSE {c \in S : \A d \in S : c <= d}
Everything(S) == S

\* The next of _batches: the read-only calls S begins with, or its first call.
NextBatch(S) == {c \in S : \A d \in S : d < c => IsReadOnly(c) /\ IsReadOnly(d)}

Producing == run = "tools" /\ ~broken

StartBatch ==
    /\ Producing /\ batch = {} /\ rest # {}
    /\ batch' = NextBatch(rest)
    /\ rest' = rest \ batch'
    /\ clash' = {c \in batch' : Status(c) = "executing" \/ step[c] # "idle"}
    /\ step' = [c \in Calls |-> IF c \in batch' \ clash' THEN "slot" ELSE step[c]]
    /\ UNCHANGED <<ctxVars, run, token, round, queued, broken, hostVars>>

\* gather() returned: the results enter the queue in call order.  A call that
\* waits for the user returned None.
CloseBatch ==
    /\ Producing /\ batch # {} /\ clash = {}
    /\ \A c \in batch : step[c] = "returned"
    /\ queued' = queued \cup {c \in batch : Status(c) = "consumed"}
    /\ batch' = {}
    /\ step' = [c \in Calls |-> IF c \in batch THEN "idle" ELSE step[c]]
    /\ UNCHANGED <<ctxVars, run, token, round, rest, clash, broken, hostVars>>

\* Slip: the queue is read from its other end.
Newest(c) == \A d \in queued : c >= d

Oldest(c) == \A d \in queued : c <= d

\* _run_tools appends the oldest ToolMessage of the queue to the transcript.
Deliver ==
    /\ run = "tools"
    /\ \E c \in queued :
         /\ Oldest(c)
         /\ rec' = [rec EXCEPT ![c] = Answer(@)]
         /\ queued' = queued \ {c}
    /\ UNCHANGED <<count, tracked, run, token, round, rest, batch, clash, broken, step, hostVars>>

Denied == {c \in round : rec[c].result \in Denials}
Paused == {c \in round : Status(c) \in Waiting}

\* The stream is over: a denial ends the turn unless the model can ask the
\* user (it then gets one call at once), else a waiting call pauses it.
EndRound ==
    /\ Producing /\ rest = {} /\ batch = {} /\ queued = {}
    /\ run' = IF Denied # {} THEN IF HumanInput THEN "model" ELSE "idle"
              ELSE IF Paused # {} THEN "idle" ELSE "model"
    /\ round' = {}
    /\ UNCHANGED <<ctxVars, token, rest, batch, clash, queued, broken, step, hostVars>>

\* _answer_unanswered(round): every call whose id has no answer yet is closed
\* as cancelled if it never started, and its result, if any, is appended.
NoIds == {}       \* Slip: the answered calls are not looked up.

AnsweredIds == {rec[c].id : c \in {d \in Registered : rec[d].answers > 0}}

Closed(r) == IF r.status \in {"consumed", "executing"} THEN r
                                                    ELSE Consume(r, "cancelled_before")

\* Slips: a call that already has its result is forgotten; a running call is
\* closed as one that never started.
AnswerOpen(r) == IF r.status \in {"consumed", "executing"} THEN r ELSE Answer(Closed(r))
AnswerRunning(r) == Answer(IF r.status = "consumed" THEN r ELSE Consume(r, "cancelled_before"))

AnswerUnanswered(r) == IF r.status = "executing" THEN r ELSE Answer(Closed(r))

\* The run ends with an exception: the unanswered calls are answered first.
RunFails ==
    /\ rec' = [c \in Calls |-> IF c \in round /\ rec[c].id \notin AnsweredIds
                                THEN AnswerUnanswered(rec[c]) ELSE rec[c]]
    /\ run' = "idle"
    /\ round' = {} /\ rest' = {} /\ batch' = {} /\ clash' = {} /\ queued' = {}
    /\ broken' = FALSE
    /\ step' = [c \in Calls |-> IF c \in Children /\ step[c] \in {"returned", "raised"}
                                 THEN "idle" ELSE step[c]]
    /\ UNCHANGED <<count, tracked, token, hostVars>>

\* The producer raised; the consumer has drained the queue.
FailRound == run = "tools" /\ broken /\ queued = {} /\ RunFails

\* Cancelled by its token, or abandoned by whoever reads the events.
Cancel ==
    /\ run \in {"model", "tools"}
    /\ run' = IF run = "model" THEN "idle" ELSE "stopping"
    /\ token' \in {TRUE, token}
    /\ UNCHANGED <<ctxVars, roundVars, step, hostVars>>

\* Slip: a gather that waits for every child to return.
AllReturned == broken \/ \A c \in Children : step[c] = "returned"

\* gather() is over once a child raised, or all of them ended.
ProducerDone == \/ broken
                \/ \E c \in Children : step[c] = "raised"
                \/ \A c \in Children : step[c] = "returned"

StopRun == run = "stopping" /\ ProducerDone /\ RunFails

-----------------------------------------------------------------------------
(* dispatch(record): one coroutine per call.                               *)

\* The coroutine of c ends; nobody waits for one its batch has given up.
Settle(c, how) ==
    /\ step' = [step EXCEPT ![c] = IF c \in Children THEN how ELSE "idle"]
    /\ broken' = (broken \/ (c \in Children /\ how = "raised" /\ run = "tools"))

\* Consumption of c with a result, and the return of its coroutine.
Finish(c, result) == /\ rec' = [rec EXCEPT ![c] = Consume(@, result)]
                     /\ Settle(c, "returned")

Busy == {c \in Children : step[c] \in InTool}

\* c holds one of the max_parallel_tools slots of its stream.
Admitted(c) == step[c] = "slot" /\ (c \in Children => Cardinality(Busy) < MaxParallel)

\* What a dispatch leaves alone.
Aside == <<count, tracked, run, token, round, rest, batch, clash, queued, hostVars>>

\* "Tool call is already executing": dispatch raises before it touches c.
RefuseExecuting ==
    /\ run = "tools" /\ clash # {} /\ Cardinality(Busy) < MaxParallel
    /\ ~broken
    /\ broken' = TRUE
    /\ UNCHANGED <<rec, step, Aside>>

\* A record consumed meanwhile returns the result it has.
ReturnExisting(c) ==
    /\ Admitted(c) /\ Status(c) = "consumed"
    /\ Settle(c, "returned")
    /\ UNCHANGED <<rec, Aside>>

\* Slip: what the policy approved once stays approved.
EarlyResultOnce(r, verdict) ==
    IF r.status = "rejected" THEN "denied"
    ELSE IF token THEN "cancelled_before"
    ELSE IF r.tool \in BadTools THEN "failed"
    ELSE IF r.tool \in AskTools
      THEN IF r.said THEN "answer" ELSE IF r.status \in Waiting THEN "none" ELSE "failed"
    ELSE IF verdict = "deny" THEN "denied" ELSE "none"

\* The early returns of _dispatch in their order; "none" when it goes on.
EarlyResult(r, verdict) ==
    IF r.status = "rejected" THEN "denied"
    ELSE IF token THEN "cancelled_before"
    ELSE IF r.tool \in BadTools THEN "failed"
    ELSE IF r.tool \in AskTools
      THEN IF r.said THEN "answer" ELSE IF r.status \in Waiting THEN "none" ELSE "failed"
    ELSE IF verdict = "deny" THEN "denied"
    ELSE IF verdict = "ask" /\ r.auto THEN "failed"
    ELSE "none"

Undecided(c) == /\ Admitted(c) /\ Status(c) # "consumed"
                /\ EarlyResult(rec[c], Verdict(c)) = "none"

ReturnEarly(c) ==
    LET result == EarlyResult(rec[c], Verdict(c)) IN
    /\ Admitted(c) /\ Status(c) # "consumed"
    /\ result # "none"
    /\ Finish(c, result)
    /\ UNCHANGED Aside

\* ask_user: the record waits for the answer, its coroutine returns None.
AskUser(c) ==
    /\ Undecided(c) /\ rec[c].tool \in AskTools
    /\ rec' = [rec EXCEPT ![c] = AwaitUserInput(@)]
    /\ Settle(c, "returned")
    /\ UNCHANGED Aside

\* The policy asks and nobody approved: the record stays pending.
AskApproval(c) ==
    /\ Undecided(c) /\ rec[c].tool \notin AskTools
    /\ Status(c) = "pending" /\ Verdict(c) = "ask"
    /\ Settle(c, "returned")
    /\ UNCHANGED <<rec, Aside>>

\* The record as it goes on: auto-approved if it was pending.
Cleared(r) == IF r.status = "pending" THEN AutoApprove(r) ELSE r

\* Approved by the user or the policy: to the middlewares, else to the tool.
Proceed(c) ==
    /\ Undecided(c) /\ rec[c].tool \notin AskTools
    /\ Status(c) = "pending" => Verdict(c) = "allow"
    /\ IF Hooks THEN rec' = [rec EXCEPT ![c] = Cleared(@)]
                ELSE rec' = [rec EXCEPT ![c] = StartExecution(Cleared(@))]
    /\ step' = [step EXCEPT ![c] = IF Hooks THEN "request" ELSE "running"]
    /\ UNCHANGED <<broken, Aside>>

\* Slip: the status is not looked at again after the hook.
HookPassesAnyway(c) ==
    /\ step[c] = "request"
    /\ rec' = [rec EXCEPT ![c] = StartExecution(@)]
    /\ step' = [step EXCEPT ![c] = "running"]
    /\ UNCHANGED <<broken, Aside>>

\* The request hooks let the call run.
HookPasses(c) ==
    /\ step[c] = "request" /\ Status(c) # "consumed"
    /\ rec' = [rec EXCEPT ![c] = StartExecution(@)]
    /\ step' = [step EXCEPT ![c] = "running"]
    /\ UNCHANGED <<broken, Aside>>

\* A request hook answers in the tool's place, with any result (one whose id
\* is not the call's raises: HookRaises).
HookBlocks(c) ==
    /\ step[c] = "request" /\ Status(c) # "consumed"
    /\ \E result \in {"instead", "denied"} : Finish(c, result)
    /\ UNCHANGED Aside

\* The record was closed while the hook ran: the transition raises.
HookTooLate(c) ==
    /\ step[c] = "request" /\ Status(c) = "consumed"
    /\ Settle(c, "raised")
    /\ UNCHANGED <<rec, Aside>>

\* The tool returns, raises or hits its time limit.
ToolEnds(c) ==
    /\ step[c] = "running"
    /\ IF Hooks
         THEN step' = [step EXCEPT ![c] = "response"] /\ UNCHANGED <<rec, broken>>
         ELSE \E result \in Returns : Finish(c, result)
    /\ UNCHANGED Aside

\* The response hooks hand on the tool's result or one of their own.
HookResponds(c) ==
    /\ step[c] = "response"
    /\ \E result \in Returns : Finish(c, result)
    /\ UNCHANGED Aside

HookRaises(c) ==
    /\ "hook_raises" \in Faults
    /\ step[c] \in {"request", "response"}
    /\ Settle(c, "raised")
    /\ UNCHANGED <<rec, Aside>>

\* Slip: only the children of the current gather are waited for.
UnwoundChild(c) ==
    /\ step[c] = "unwinding" /\ c \in Children
    /\ rec' = [rec EXCEPT ![c] = Cancelled(@)]
    /\ Settle(c, "raised")
    /\ UNCHANGED Aside

\* A cancelled tool has stopped.
Unwound(c) ==
    /\ step[c] = "unwinding"
    /\ rec' = [rec EXCEPT ![c] = Cancelled(@)]
    /\ Settle(c, "raised")
    /\ UNCHANGED Aside

\* The cancellation reaches the gather: each child is interrupted where it is.
\* The tools in "slow" need time to stop.
Interrupt ==
    LET live == {c \in Children : step[c] \in {"slot", "request", "running", "response"}} IN
    /\ run = "stopping" /\ ~broken /\ live # {}
    /\ "hook_cancel" \notin Faults => \A c \in live : step[c] # "response"
    /\ \E slow \in SUBSET {c \in live : step[c] = "running"} :
         /\ "slow_cleanup" \notin Faults => slow = {}
         /\ step' = [c \in Calls |-> IF c \in slow THEN "unwinding"
                                      ELSE IF c \in live THEN "raised" ELSE step[c]]
         /\ rec' = [c \in Calls |-> IF c \in live \ slow /\ step[c] = "running"
                                     THEN Cancelled(rec[c]) ELSE rec[c]]
    /\ UNCHANGED <<broken, Aside>>

-----------------------------------------------------------------------------
Dispatch(c) == \/ ReturnExisting(c) \/ ReturnEarly(c) \/ AskUser(c) \/ AskApproval(c)
               \/ Proceed(c) \/ HookPasses(c) \/ HookBlocks(c) \/ HookTooLate(c)
               \/ ToolEnds(c) \/ HookResponds(c) \/ HookRaises(c) \/ Unwound(c)

Host == \/ NewTask \/ Resume \/ Save \/ Crash \/ Cancel
        \/ \E c \in Calls : Approval(c) \/ UserAnswer(c) \/ FailStale(c)
        \/ \E t \in Tools : AllowRule(t)

Loop == \/ ModelCalls \/ ModelEnds \/ EndRound \/ FailRound \/ StopRun
        \/ StartBatch \/ CloseBatch \/ Deliver \/ RefuseExecuting \/ Interrupt

Next == Host \/ Loop \/ \E c \in Calls : Dispatch(c)

Spec == Init /\ [][Next]_vars

\* The event loop runs every task that can run, tools end within their time
\* limit, hooks return; users and hosts owe nothing.
Fairness ==
    /\ WF_vars(StartBatch) /\ WF_vars(CloseBatch) /\ WF_vars(Deliver)
    /\ WF_vars(RefuseExecuting) /\ WF_vars(Interrupt)
    /\ WF_vars(EndRound) /\ WF_vars(FailRound) /\ WF_vars(StopRun)
    /\ \A c \in Calls : WF_vars(Dispatch(c))

FairSpec == Spec /\ Fairness

-----------------------------------------------------------------------------
(* Safety.                                                                 *)

\* Providers reject a request whose transcript holds a tool call without its
\* result, so every call the model made is answered before it is called again
\* (base/reasoning.py, the comment in _execute_tools).
NoGapBeforeModel == run = "model" => \A c \in Registered : rec[c].answers > 0

\* Without faults the only calls a request can leave unanswered wait for the
\* user in a round where another call was denied, when the loop goes on with
\* its one constrained call (loop.py, the TOOL_DENIED branches).
OnlyWaitingGaps ==
    run = "model" => \A c \in Registered : rec[c].answers = 0 =>
        /\ HumanInput /\ Status(c) \in Waiting
        /\ \E d \in tracked : rec[d].result \in Denials

\* Between runs no record stays EXECUTING with nothing left to finish it: it
\* would refuse every later task of the conversation (run_stream_events).
NoStuckExecution ==
    run = "idle" => \A c \in tracked : Status(c) = "executing" => step[c] # "idle"

\* The transcript answers a call at most once, with the result of its record:
\* queue, pauses and _answer_unanswered never write the same answer twice.
AnsweredOnce == \A c \in Calls : /\ rec[c].answers <= 1
                                 /\ rec[c].answers = 1 => Status(c) = "consumed"

\* What the model is told is what happened: a call the dispatcher reports as
\* denied or as cancelled before it started never ran, nor did one a request
\* hook or the user answered in the tool's place, whatever that says; one reported
\* as cancelled while running ran, and so did one that carries any result of
\* the tool or a response hook, a denial included; no tool runs twice (dispatch,
\* its except branches, the two hooks and _answer_unanswered).
ResultTellsTheTruth ==
    \A c \in Calls :
        /\ rec[c].ran <= 1
        /\ rec[c].result \in Unrun => rec[c].ran = 0
        /\ rec[c].result \in Returns \cup {"cancelled_during"} => rec[c].ran = 1

Running(c) == step[c] \in {"running", "unwinding"}

\* "Other calls run alone" (README.md:387), up to what is left of a round that is
\* over: beside a tool that is not read-only runs at most what an
\* abandoned batch of read-only calls left behind, whatever failed, was
\* cancelled, paused or resumed (_batches, the gather of run_batch, and the
\* EXECUTING records that refuse a next task).
WritesMeetOrphansOnly ==
    \A c, d \in Calls :
        c # d /\ Running(c) /\ Running(d) /\ ~IsReadOnly(c)
            => IsReadOnly(d) /\ d \notin Children

-----------------------------------------------------------------------------
(* What a step may never do.                                               *)

Starts(c)  == rec'[c].ran > rec[c].ran
Answers(c) == rec'[c].answers > rec[c].answers

\* A tool starts only if the user approved this call or the policy in force
\* allows its tool, and never against a policy that denies it, also when the
\* policy changed between a pause or a crash and the resume (_dispatch).
StartsWithConsent ==
    [][\A c \in Calls : Starts(c) =>
          /\ Verdict(c) # "deny"
          /\ Verdict(c) = "ask" => Status(c) = "approved" /\ ~rec[c].auto]_vars

\* Of two calls of one reply, one of them not read-only, the later one starts
\* when the earlier one was dispatched and is over or waits for the user
\* (_batches).
StartsInOrder ==
    [][\A c \in Calls : Starts(c) =>
          \A d \in round : d < c /\ ~(IsReadOnly(c) /\ IsReadOnly(d)) =>
              d \notin rest \cup batch /\ Status(d) \in Waiting \cup {"consumed"}]_vars

\* Results enter the transcript in call order, whatever finished first
\* (dispatch_many, "preserving call order").
AnswersInOrder ==
    [][\A c, d \in round : d < c /\ Answers(c) /\ rec'[d].status = "consumed"
          => rec'[d].answers > 0]_vars

-----------------------------------------------------------------------------
(* Liveness.                                                               *)

\* A round ends whatever its calls do, and so does a cancelled one: no child,
\* sibling or message leaves dispatch_many waiting for ever.
RoundEnds == (run \in {"tools", "stopping"}) ~> (run \in {"idle", "model"})

\* A call that started gets its result, also when the run that started it is
\* gone by then: until it has, the conversation takes no next task.
StartedCallsSettle == \A c \in Calls : (Status(c) = "executing") ~> (Status(c) = "consumed")

-----------------------------------------------------------------------------
(* The promise of ToolCallLifecycle.                                       *)

PhaseOf(r) == CASE r.status = "none"      -> "absent"
                [] r.status = "executing" -> "running"
                [] r.status = "consumed"  -> IF r.ran = 0 THEN "refused" ELSE "done"
                [] OTHER                  -> "open"

Phase(calls)    == [c \in Calls |-> PhaseOf(calls[c])]
Answered(calls) == [c \in Calls |-> calls[c].answers]

Lifecycle == INSTANCE ToolCallLifecycle WITH
    phase    <- Phase(rec),
    answered <- Answered(rec),
    kept     <- [phase |-> Phase(saved.rec), answered |-> Answered(saved.rec)]

\* Every call keeps the promise of ToolCallLifecycle: it moves only along its
\* life, through cancelled rounds, orphaned coroutines and restarts, and is
\* answered once, when it is final (types/tool_call.py, the transitions).
LifecycleSpec == Lifecycle!Spec
=============================================================================
