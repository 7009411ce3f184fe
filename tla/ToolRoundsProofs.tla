--------------------------- MODULE ToolRoundsProofs ---------------------------
(***************************************************************************)
(* What holds of ToolRounds for every number of calls, tools, policies and *)
(* faults: types, at most one run and one answer per call, results that    *)
(* tell what happened, consent before a tool starts, the life of a call    *)
(* promised by ToolCallLifecycle, who may run beside whom, when no record  *)
(* stays executing, and the order in which calls start and are answered.   *)
(*                                                                         *)
(* The argument has two layers.  CallOK says what each status implies of   *)
(* the rest of a record, and every action changes a record by one of the   *)
(* transitions of RecStep (lemmas of the first part).  The rest of the     *)
(* inductive invariant IInv ties the records to the coroutines (StepOK)    *)
(* and to the round being run (RoundOK), which is what makes the guards    *)
(* of the transitions true where the code does not test them.  SharedOK,   *)
(* ExecutingHere and OrderOK are added to it where they are needed, Calm   *)
(* and GapsOK where nothing fails: what is left open outside a round.      *)
(***************************************************************************)
EXTENDS ToolRounds, TLAPS

-----------------------------------------------------------------------------
(* The inductive invariant.                                                *)

\* One record: what its status says about its runs, result and answers.
CallOK(r) ==
    /\ r.answers <= 1 /\ r.ran <= 1
    /\ r.status \notin {"executing", "consumed"} => r.ran = 0
    /\ r.status = "executing" => r.ran = 1
    /\ r.status # "consumed" => r.result = "none" /\ r.answers = 0
    /\ r.status = "auto" => r.auto
    /\ r.status = "input" => r.tool \in AskTools
    /\ r.result \in Unrun => r.ran = 0
    /\ r.result \in Returns \cup {"cancelled_during"} => r.ran = 1

\* A RunContext: calls 1..n exist, the records of the task are among them.
ContextOK(calls, n, task) ==
    /\ task \subseteq 1..n
    /\ \A c \in Calls : /\ CallOK(calls[c])
                        /\ c \in 1..n => calls[c].status # "none" /\ calls[c].tool \in Tools
                        /\ c \notin 1..n => calls[c] = Unregistered

\* The round: what is not batched, in the batch and in the queue is apart and
\* has no answer yet; what is queued has its result.
RoundOK ==
    /\ round \subseteq 1..count
    /\ rest \subseteq round /\ batch \subseteq round /\ queued \subseteq round
    /\ rest \cap batch = {} /\ rest \cap queued = {} /\ batch \cap queued = {}
    /\ \A c \in rest \cup batch \cup queued : rec[c].answers = 0
    /\ \A c \in queued : rec[c].status = "consumed"

\* A call the policy in force lets run.
Consented(c) == /\ Verdict(c) # "deny"
                /\ Verdict(c) = "ask" => Status(c) = "approved" /\ ~rec[c].auto

\* The coroutine of a call and its record.
StepOK(c) ==
    /\ c \notin 1..count => step[c] = "idle"
    /\ step[c] \in {"running", "response", "unwinding"} => Status(c) = "executing"
    /\ step[c] = "slot" => Status(c) # "executing"
    /\ step[c] = "request" => \/ Status(c) = "consumed"
                              \/ Status(c) \in {"approved", "auto"} /\ Consented(c)

IInv == /\ TypeOK
        /\ ContextOK(rec, count, tracked)
        /\ ContextOK(saved.rec, saved.count, saved.tracked)
        /\ RoundOK
        /\ \A c \in Calls : StepOK(c)

-----------------------------------------------------------------------------
(* The transitions of one record.                                          *)

Open == {"pending", "input", "approved", "auto", "rejected"}

RecStep(r, s) ==
    \/ s = r
    \/ r = Unregistered /\ \E t \in Tools, i \in Nat : s = Proposed(t, i)
    \/ r.status = "pending" /\ s \in {Approve(r), Reject(r), AutoApprove(r)}
    \/ r.status = "input" /\ s = ApplyUserAnswer(r)
    \/ r.status \in Waiting /\ r.tool \in AskTools /\ s = AwaitUserInput(r)
    \/ r.status \in {"pending", "approved", "auto"} /\ s = StartExecution(Cleared(r))
    \/ r.status \in Open /\ \E result \in Unrun \cup {"failed"} : s = Consume(r, result)
    \/ r.status = "executing" /\ \E result \in Returns \cup {"failed", "cancelled_during"} : s = Consume(r, result)
    \/ r.status = "consumed" /\ r.answers = 0 /\ s = Answer(r)
    \/ r.status \in Open /\ s = Answer(Consume(r, "cancelled_before"))

\* The life of ToolCallLifecycle, one record at a time.
Moves(r, s) ==
    /\ PhaseOf(s) \in Lifecycle!Phases
    /\ PhaseOf(s) \in Lifecycle!Leads[PhaseOf(r)]
    /\ s.answers \in Nat
    /\ \/ s.answers = r.answers
       \/ r.answers = 0 /\ s.answers = 1 /\ PhaseOf(s) \in {"refused", "done"}

LEMMA UnregisteredOK == Unregistered \in Record /\ CallOK(Unregistered)
  BY DEF Unregistered, Record, Statuses, Results, CallOK, Returns, Unrun

\* A record that has not run yet is a good EXECUTING record once it starts.
LEMMA StartedOK ==
    ASSUME NEW q \in Record, q.ran = 0, q.result = "none", q.answers = 0
    PROVE  StartExecution(q) \in Record /\ CallOK(StartExecution(q))
<1> DEFINE s == [q EXCEPT !.status = "executing", !.ran = 1]
<1>1. StartExecution(q) = s
  BY DEF StartExecution
<1>2. s \in Record
  BY DEF Record, Statuses
<1>3. s.status = "executing" /\ s.ran = 1 /\ s.result = "none" /\ s.answers = 0
  BY DEF Record
<1> HIDE DEF s
<1> QED
  BY <1>1, <1>2, <1>3 DEF CallOK, Unrun

LEMMA ClearedOK ==
    ASSUME NEW r \in Record
    PROVE  Cleared(r) \in Record /\ Cleared(r).answers = r.answers
<1>1. CASE r.status = "pending"
  BY <1>1 DEF Cleared, AutoApprove, Record, Statuses
<1>2. CASE r.status # "pending"
  BY <1>2 DEF Cleared
<1> QED
  BY <1>1, <1>2

\* Every transition keeps what a status implies of its record.
LEMMA RecStepOK ==
    ASSUME NEW r \in Record, CallOK(r), NEW s, RecStep(r, s)
    PROVE  s \in Record /\ CallOK(s)
<1> USE DEF Record, Statuses, Results, CallOK
<1>1. CASE s = r
  BY <1>1
<1>2. CASE r = Unregistered /\ \E t \in Tools, i \in Nat : s = Proposed(t, i)
  BY <1>2 DEF Proposed, Unregistered
<1>3. CASE r.status = "pending" /\ s \in {Approve(r), Reject(r), AutoApprove(r)}
  BY <1>3 DEF Approve, Reject, AutoApprove
<1>4. CASE r.status = "input" /\ s = ApplyUserAnswer(r)
  BY <1>4 DEF ApplyUserAnswer
<1>5. CASE r.status \in Waiting /\ r.tool \in AskTools /\ s = AwaitUserInput(r)
  BY <1>5 DEF AwaitUserInput, Waiting
<1>6. CASE r.status \in {"pending", "approved", "auto"} /\ s = StartExecution(Cleared(r))
  <2>1. PICK q \in Record : q = Cleared(r) /\ s = StartExecution(q)
    BY <1>6 DEF Cleared, AutoApprove
  <2>2. q.ran = 0 /\ q.result = "none" /\ q.answers = 0
    BY <1>6, <2>1 DEF Cleared, AutoApprove
  <2> HIDE DEF Record, CallOK
  <2> QED
    BY <2>1, <2>2, StartedOK
<1>7. CASE r.status \in Open /\ \E result \in Unrun \cup {"failed"} : s = Consume(r, result)
  <2>1. PICK result \in Unrun \cup {"failed"} : s = Consume(r, result)
    BY <1>7
  <2> QED
    BY <1>7, <2>1 DEF Consume, Open, Unrun, Returns
<1>8. CASE r.status = "executing" /\ \E result \in Returns \cup {"failed", "cancelled_during"} : s = Consume(r, result)
  <2>1. PICK result \in Returns \cup {"failed", "cancelled_during"} : s = Consume(r, result)
    BY <1>8
  <2> QED
    BY <1>8, <2>1 DEF Consume, Returns, Unrun
<1>9. CASE r.status = "consumed" /\ r.answers = 0 /\ s = Answer(r)
  BY <1>9 DEF Answer
<1>10. CASE r.status \in Open /\ s = Answer(Consume(r, "cancelled_before"))
  <2>1. PICK q \in Record : q = Consume(r, "cancelled_before") /\ s = Answer(q)
    BY <1>10 DEF Consume
  <2>2. q.status = "consumed" /\ q.result = "cancelled_before" /\ q.ran = 0 /\ q.answers = 0
    BY <1>10, <2>1 DEF Consume, Open
  <2> QED
    BY <2>1, <2>2 DEF Answer, Returns
<1> HIDE DEF Record, CallOK
<1> QED
  BY <1>1, <1>2, <1>3, <1>4, <1>5, <1>6, <1>7, <1>8, <1>9, <1>10, RecStep(r, s) DEF RecStep

\* Every transition is one of the life of a call.
LEMMA RecStepMoves ==
    ASSUME NEW r \in Record, CallOK(r), NEW s, RecStep(r, s)
    PROVE  Moves(r, s)
<1> USE DEF Record, Statuses, Results, CallOK, Moves, PhaseOf, Lifecycle!Leads, Lifecycle!Phases
<1>1. CASE s = r
  BY <1>1
<1>2. CASE r = Unregistered /\ \E t \in Tools, i \in Nat : s = Proposed(t, i)
  BY <1>2 DEF Proposed, Unregistered
<1>3. CASE r.status = "pending" /\ s \in {Approve(r), Reject(r), AutoApprove(r)}
  BY <1>3 DEF Approve, Reject, AutoApprove
<1>4. CASE r.status = "input" /\ s = ApplyUserAnswer(r)
  BY <1>4 DEF ApplyUserAnswer
<1>5. CASE r.status \in Waiting /\ r.tool \in AskTools /\ s = AwaitUserInput(r)
  BY <1>5 DEF AwaitUserInput, Waiting
<1>6. CASE r.status \in {"pending", "approved", "auto"} /\ s = StartExecution(Cleared(r))
  <2>1. PICK q \in Record : q = Cleared(r) /\ s = StartExecution(q)
    BY <1>6 DEF Cleared, AutoApprove
  <2>2. q.ran = 0 /\ q.result = "none" /\ q.answers = 0
    BY <1>6, <2>1 DEF Cleared, AutoApprove
  <2>3. s.status = "executing" /\ s.answers = 0
    BY <2>1, <2>2 DEF StartExecution
  <2>4. PhaseOf(r) = "open" /\ PhaseOf(s) = "running"
    BY <1>6, <2>3
  <2> QED
    BY <1>6, <2>3, <2>4
<1>7. CASE r.status \in Open /\ \E result \in Unrun \cup {"failed"} : s = Consume(r, result)
  <2>1. PICK result \in Unrun \cup {"failed"} : s = Consume(r, result)
    BY <1>7
  <2> QED
    BY <1>7, <2>1 DEF Consume, Open, Unrun, Returns
<1>8. CASE r.status = "executing" /\ \E result \in Returns \cup {"failed", "cancelled_during"} : s = Consume(r, result)
  <2>1. s.status = "consumed" /\ s.ran = 1 /\ s.answers = 0 /\ r.answers = 0
    BY <1>8 DEF Consume
  <2>2. PhaseOf(r) = "running" /\ PhaseOf(s) = "done"
    BY <1>8, <2>1
  <2> QED
    BY <2>1, <2>2
<1>9. CASE r.status = "consumed" /\ r.answers = 0 /\ s = Answer(r)
  BY <1>9 DEF Answer
<1>10. CASE r.status \in Open /\ s = Answer(Consume(r, "cancelled_before"))
  <2>1. PICK q \in Record : q = Consume(r, "cancelled_before") /\ s = Answer(q)
    BY <1>10 DEF Consume
  <2>2. q.status = "consumed" /\ q.result = "cancelled_before" /\ q.ran = 0 /\ q.answers = 0
    BY <1>10, <2>1 DEF Consume, Open
  <2>3. s.status = "consumed" /\ s.ran = 0 /\ s.answers = 1 /\ r.answers = 0
    BY <1>10, <2>1, <2>2 DEF Answer, Open
  <2>4. PhaseOf(r) = "open" /\ PhaseOf(s) = "refused"
    BY <1>10, <2>3 DEF Open
  <2> QED
    BY <2>3, <2>4
<1> QED
  BY <1>1, <1>2, <1>3, <1>4, <1>5, <1>6, <1>7, <1>8, <1>9, <1>10, RecStep(r, s) DEF RecStep

-----------------------------------------------------------------------------
(* Where a coroutine is over, nothing is asked of it any more.             *)

LEMMA SettledOK ==
    ASSUME NEW c \in Calls, TypeOK, StepOK(c), step[c] # "idle", count' = count,
           NEW how \in {"returned", "raised"}, Settle(c, how)
    PROVE  /\ step' = [step EXCEPT ![c] = step'[c]] /\ step'[c] \in Steps
           /\ broken' \in BOOLEAN
           /\ StepOK(c)'
  BY DEF Settle, StepOK, TypeOK, Steps

\* What one step of the coroutine of c does: one transition of its record, the
\* answers left alone, and StepOK for c.
DispatchEffect(c) ==
    /\ rec' = [rec EXCEPT ![c] = rec'[c]]
    /\ RecStep(rec[c], rec'[c])
    /\ rec'[c].answers = rec[c].answers
    /\ step' = [step EXCEPT ![c] = step'[c]] /\ step'[c] \in Steps
    /\ broken' \in BOOLEAN
    /\ StepOK(c)'

LEMMA DispatchSteps ==
    ASSUME IInv, NEW c \in Calls, Dispatch(c)
    PROVE  DispatchEffect(c) /\ UNCHANGED Aside
<1>0. /\ rec \in [Calls -> Record] /\ step \in [Calls -> Steps] /\ broken \in BOOLEAN
      /\ TypeOK /\ rec[c] \in Record /\ CallOK(rec[c]) /\ StepOK(c)
  BY DEF IInv, TypeOK, ContextOK
<1>1. step[c] # "idle"
  BY DEF Dispatch, ReturnExisting, ReturnEarly, AskUser, AskApproval, Undecided, Admitted,
         Proceed, HookPasses, HookBlocks, HookTooLate, ToolEnds, HookResponds, HookRaises, Unwound
<1>2. c \in 1..count /\ rec[c].status \in Statuses \ {"none"} /\ rec[c].tool \in Tools
  BY <1>0, <1>1 DEF IInv, ContextOK, StepOK, Record
<1>3. ASSUME step[c] = "slot", Status(c) # "consumed"
      PROVE  rec[c].status \in Open
  BY <1>0, <1>2, <1>3 DEF StepOK, Status, Open, Statuses
<1>4. ASSUME NEW result, Finish(c, result), RecStep(rec[c], Consume(rec[c], result)), UNCHANGED Aside
      PROVE  DispatchEffect(c) /\ UNCHANGED Aside
  <2>1. rec' = [rec EXCEPT ![c] = rec'[c]] /\ rec'[c] = Consume(rec[c], result)
    BY <1>0, <1>4 DEF Finish
  <2>2. rec'[c].answers = rec[c].answers
    BY <1>0, <2>1 DEF Consume, Record
  <2> QED
    BY <1>0, <1>1, <1>4, <2>1, <2>2, SettledOK DEF DispatchEffect, Finish, Aside
<1>5. ASSUME NEW how \in {"returned", "raised"}, Settle(c, how), UNCHANGED <<rec, Aside>>
      PROVE  DispatchEffect(c) /\ UNCHANGED Aside
  BY <1>0, <1>1, <1>5, SettledOK DEF DispatchEffect, Aside, RecStep
<1>6. CASE ReturnExisting(c)
  BY <1>5, <1>6 DEF ReturnExisting
<1>7. CASE ReturnEarly(c)
  <2> DEFINE result == EarlyResult(rec[c], Verdict(c))
  <2>1. rec[c].status \in Open
    BY <1>3, <1>7 DEF ReturnEarly, Admitted
  <2>2. result \in Unrun \cup {"failed"}
    BY <1>7 DEF ReturnEarly, EarlyResult, Unrun
  <2>3. RecStep(rec[c], Consume(rec[c], result))
    BY <2>1, <2>2 DEF RecStep
  <2> QED
    BY <1>4, <1>7, <2>3 DEF ReturnEarly
<1>8. CASE AskUser(c)
  <2>1. rec[c].status \in Waiting
    BY <1>3, <1>8 DEF AskUser, Undecided, EarlyResult, Admitted, Waiting
  <2>2. rec' = [rec EXCEPT ![c] = rec'[c]] /\ rec'[c] = AwaitUserInput(rec[c])
    BY <1>0, <1>8 DEF AskUser
  <2>3. RecStep(rec[c], rec'[c]) /\ rec'[c].answers = rec[c].answers
    BY <1>0, <1>8, <2>1, <2>2 DEF AskUser, RecStep, AwaitUserInput, Record
  <2> QED
    BY <1>0, <1>1, <1>8, <2>2, <2>3, SettledOK DEF AskUser, DispatchEffect, Aside
<1>9. CASE AskApproval(c)
  BY <1>5, <1>9 DEF AskApproval
<1>10. CASE Proceed(c)
  <2>1. rec[c].status \in Open
    BY <1>3, <1>10 DEF Proceed, Undecided, Admitted
  <2>2. /\ rec[c].status \in {"pending", "approved", "auto"} /\ rec[c].tool \notin AskTools
        /\ Verdict(c) # "deny"
        /\ Verdict(c) = "ask" => ~rec[c].auto
        /\ rec[c].status = "pending" => Verdict(c) = "allow"
    BY <1>0, <1>10, <2>1 DEF Proceed, Undecided, EarlyResult, Open, CallOK, Status
  <2>3. Verdict(c) = "ask" => rec[c].status = "approved"
    BY <1>0, <2>2 DEF CallOK
  <2>4. CASE Hooks
    <3>1. rec' = [rec EXCEPT ![c] = rec'[c]] /\ rec'[c] = Cleared(rec[c])
      BY <1>0, <1>10, <2>4 DEF Proceed
    <3>2. RecStep(rec[c], rec'[c])
      BY <2>2, <3>1 DEF RecStep, Cleared
    <3>3. /\ rec'[c].answers = rec[c].answers /\ rec'[c].tool = rec[c].tool
          /\ rec'[c].status \in {"approved", "auto"}
          /\ rec'[c].status = "approved" => rec[c].status = "approved" /\ rec'[c].auto = rec[c].auto
          /\ rec[c].status = "approved" => rec'[c] = rec[c]
      BY <1>0, <2>2, <3>1 DEF Cleared, AutoApprove, Record
    <3>4. policy' = policy /\ step' = [step EXCEPT ![c] = "request"] /\ count' = count /\ broken' = broken
      BY <1>10, <2>4 DEF Proceed, Aside, hostVars
    <3>5. StepOK(c)'
      BY <1>0, <1>2, <2>2, <2>3, <3>3, <3>4 DEF StepOK, Consented, Verdict, Status
    <3> QED
      BY <1>0, <1>10, <3>1, <3>2, <3>3, <3>4, <3>5 DEF DispatchEffect, Proceed, Steps
  <2>5. CASE ~Hooks
    <3>1. rec' = [rec EXCEPT ![c] = rec'[c]] /\ rec'[c] = StartExecution(Cleared(rec[c]))
      BY <1>0, <1>10, <2>5 DEF Proceed
    <3>2. RecStep(rec[c], rec'[c])
      BY <2>2, <3>1 DEF RecStep
    <3>3. rec'[c].answers = rec[c].answers /\ rec'[c].status = "executing"
      <4>1. Cleared(rec[c]) \in Record /\ Cleared(rec[c]).answers = rec[c].answers
        BY <1>0, ClearedOK
      <4> QED
        BY <3>1, <4>1 DEF StartExecution, Record
    <3>4. step' = [step EXCEPT ![c] = "running"] /\ count' = count /\ broken' = broken
      BY <1>10, <2>5 DEF Proceed, Aside
    <3>5. StepOK(c)'
      BY <1>0, <1>2, <3>3, <3>4 DEF StepOK, Status
    <3> QED
      BY <1>0, <1>10, <3>1, <3>2, <3>3, <3>4, <3>5 DEF DispatchEffect, Proceed, Steps
  <2> QED
    BY <2>4, <2>5
<1>11. CASE HookPasses(c)
  <2>1. rec[c].status \in {"approved", "auto"}
    BY <1>0, <1>11 DEF HookPasses, StepOK, Status
  <2>2. rec' = [rec EXCEPT ![c] = rec'[c]] /\ rec'[c] = StartExecution(rec[c])
    BY <1>0, <1>11 DEF HookPasses
  <2>3. RecStep(rec[c], rec'[c])
    BY <2>1, <2>2 DEF RecStep, Cleared
  <2>4. rec'[c].answers = rec[c].answers /\ rec'[c].status = "executing"
    BY <1>0, <2>2 DEF StartExecution, Record
  <2>5. step' = [step EXCEPT ![c] = "running"] /\ count' = count /\ broken' = broken
    BY <1>11 DEF HookPasses, Aside
  <2>6. StepOK(c)'
    BY <1>0, <1>2, <2>4, <2>5 DEF StepOK, Status
  <2> QED
    BY <1>0, <1>11, <2>2, <2>3, <2>4, <2>5, <2>6 DEF DispatchEffect, HookPasses, Steps
<1>12. CASE HookBlocks(c)
  <2>1. rec[c].status \in Open
    BY <1>0, <1>12 DEF HookBlocks, StepOK, Status, Open
  <2>2. PICK result \in {"instead", "denied"} : Finish(c, result)
    BY <1>12 DEF HookBlocks
  <2>3. RecStep(rec[c], Consume(rec[c], result))
    BY <2>1, <2>2 DEF RecStep, Unrun
  <2> QED
    BY <1>4, <1>12, <2>2, <2>3 DEF HookBlocks
<1>13. CASE HookTooLate(c)
  BY <1>5, <1>13 DEF HookTooLate
<1>14. CASE ToolEnds(c)
  <2>1. rec[c].status = "executing"
    BY <1>0, <1>14 DEF ToolEnds, StepOK, Status
  <2>2. CASE Hooks
    <3>1. rec' = rec /\ step' = [step EXCEPT ![c] = "response"] /\ count' = count /\ broken' = broken
      BY <1>14, <2>2 DEF ToolEnds, Aside
    <3>2. StepOK(c)'
      BY <1>0, <1>2, <2>1, <3>1 DEF StepOK, Status
    <3> QED
      BY <1>0, <1>14, <3>1, <3>2 DEF DispatchEffect, ToolEnds, Steps, RecStep
  <2>3. CASE ~Hooks
    <3>1. PICK result \in Returns : Finish(c, result)
      BY <1>14, <2>3 DEF ToolEnds
    <3>2. RecStep(rec[c], Consume(rec[c], result))
      BY <2>1, <3>1 DEF RecStep
    <3> QED
      BY <1>4, <1>14, <3>1, <3>2 DEF ToolEnds
  <2> QED
    BY <2>2, <2>3
<1>15. CASE HookResponds(c)
  <2>1. rec[c].status = "executing"
    BY <1>0, <1>15 DEF HookResponds, StepOK, Status
  <2>2. PICK result \in Returns : Finish(c, result)
    BY <1>15 DEF HookResponds
  <2>3. RecStep(rec[c], Consume(rec[c], result))
    BY <2>1, <2>2 DEF RecStep
  <2> QED
    BY <1>4, <1>15, <2>2, <2>3 DEF HookResponds
<1>16. CASE HookRaises(c)
  BY <1>5, <1>16 DEF HookRaises
<1>17. CASE Unwound(c)
  <2>1. rec[c].status = "executing"
    BY <1>0, <1>17 DEF Unwound, StepOK, Status
  <2>2. rec' = [rec EXCEPT ![c] = rec'[c]] /\ rec'[c] = Cancelled(rec[c])
    BY <1>0, <1>17 DEF Unwound
  <2>3. RecStep(rec[c], rec'[c]) /\ rec'[c].answers = rec[c].answers
    BY <1>0, <2>1, <2>2 DEF RecStep, Cancelled, Consume, Record
  <2> QED
    BY <1>0, <1>1, <1>17, <2>2, <2>3, SettledOK DEF Unwound, DispatchEffect, Aside
<1> QED
  BY <1>6, <1>7, <1>8, <1>9, <1>10, <1>11, <1>12, <1>13, <1>14, <1>15, <1>16, <1>17 DEF Dispatch

-----------------------------------------------------------------------------
(* From the records to the RunContext.                                     *)

LEMMA RecStepKeeps ==
    ASSUME NEW r \in Record, CallOK(r), NEW s, RecStep(r, s)
    PROVE  /\ r.status # "none" => s.status # "none" /\ s.tool = r.tool /\ s.id = r.id
           /\ r.status = "consumed" => s.status = "consumed" /\ s.result = r.result
<1> USE DEF Record, Open, Waiting
<1>1. CASE r.status = "pending" /\ s \in {Approve(r), Reject(r), AutoApprove(r)}
  BY <1>1 DEF Approve, Reject, AutoApprove
<1>2. CASE r.status = "input" /\ s = ApplyUserAnswer(r)
  BY <1>2 DEF ApplyUserAnswer
<1>3. CASE r.status \in Waiting /\ r.tool \in AskTools /\ s = AwaitUserInput(r)
  BY <1>3 DEF AwaitUserInput
<1>4. CASE r.status \in {"pending", "approved", "auto"} /\ s = StartExecution(Cleared(r))
  <2>1. Cleared(r) \in Record /\ Cleared(r).tool = r.tool /\ Cleared(r).id = r.id
    BY ClearedOK DEF Cleared, AutoApprove
  <2> QED
    BY <1>4, <2>1 DEF StartExecution
<1>5. CASE r.status \in Open /\ \E result \in Unrun \cup {"failed"} : s = Consume(r, result)
  BY <1>5 DEF Consume
<1>6. CASE r.status = "executing" /\ \E result \in Returns \cup {"failed", "cancelled_during"} : s = Consume(r, result)
  BY <1>6 DEF Consume
<1>7. CASE r.status = "consumed" /\ r.answers = 0 /\ s = Answer(r)
  BY <1>7 DEF Answer
<1>8. CASE r.status \in Open /\ s = Answer(Consume(r, "cancelled_before"))
  BY <1>8 DEF Answer, Consume
<1>9. CASE s = r \/ r = Unregistered
  BY <1>9 DEF Unregistered
<1> QED
  BY <1>1, <1>2, <1>3, <1>4, <1>5, <1>6, <1>7, <1>8, <1>9, RecStep(r, s) DEF RecStep

\* Every record made one transition, none of them the one from Unregistered.
RecordsStep ==
    /\ rec' = [c \in Calls |-> rec'[c]]
    /\ \A c \in Calls : RecStep(rec[c], rec'[c])
    /\ \A c \in Calls : c \notin 1..count => rec'[c] = rec[c]

LEMMA ContextKept ==
    ASSUME IInv, RecordsStep, count' = count, tracked' \subseteq 1..count
    PROVE  rec' \in [Calls -> Record] /\ ContextOK(rec, count, tracked)'
<1>1. \A c \in Calls : rec[c] \in Record /\ CallOK(rec[c])
  BY DEF IInv, TypeOK, ContextOK
<1>2. \A c \in Calls : rec'[c] \in Record /\ CallOK(rec'[c])
  BY <1>1, RecStepOK DEF RecordsStep
<1>3. \A c \in Calls : c \in 1..count => rec'[c].status # "none" /\ rec'[c].tool \in Tools
  BY <1>1, RecStepKeeps DEF RecordsStep, IInv, ContextOK
<1> QED
  BY <1>2, <1>3 DEF RecordsStep, IInv, ContextOK

LEMMA DispatchKeeps ==
    ASSUME IInv, NEW c \in Calls, Dispatch(c)
    PROVE  IInv'
<1>0. TypeOK /\ rec[c] \in Record /\ CallOK(rec[c]) /\ rec \in [Calls -> Record] /\ step \in [Calls -> Steps]
  BY DEF IInv, TypeOK, ContextOK
<1>1. DispatchEffect(c) /\ UNCHANGED Aside
  BY DispatchSteps
<1>2. UNCHANGED <<count, tracked, run, token, round, rest, batch, clash, queued, policy, saved, restarts>>
  BY <1>1 DEF Aside, hostVars
<1>3. \A d \in Calls : d # c => rec'[d] = rec[d] /\ step'[d] = step[d]
  BY <1>0, <1>1 DEF DispatchEffect
<1>4. c \in 1..count
  <2>1. step[c] # "idle"
    BY DEF Dispatch, ReturnExisting, ReturnEarly, AskUser, AskApproval, Undecided, Admitted,
           Proceed, HookPasses, HookBlocks, HookTooLate, ToolEnds, HookResponds, HookRaises, Unwound
  <2> QED
    BY <2>1 DEF IInv, StepOK
<1>5. RecordsStep
  BY <1>0, <1>1, <1>3, <1>4 DEF RecordsStep, DispatchEffect, RecStep
<1>6. rec' \in [Calls -> Record] /\ ContextOK(rec, count, tracked)'
  BY <1>2, <1>5, ContextKept DEF IInv, ContextOK
<1>7. TypeOK'
  BY <1>0, <1>1, <1>2, <1>6 DEF TypeOK, DispatchEffect
<1>8. ContextOK(saved.rec, saved.count, saved.tracked)'
  BY <1>2 DEF IInv, ContextOK
<1>9. RoundOK'
  <2>1. \A d \in Calls : rec'[d].answers = rec[d].answers
    BY <1>1, <1>3 DEF DispatchEffect
  <2>2. \A d \in Calls : rec[d].status = "consumed" => rec'[d].status = "consumed"
    BY <1>0, <1>1, <1>3, RecStepKeeps DEF DispatchEffect
  <2> QED
    BY <1>0, <1>2, <2>1, <2>2 DEF IInv, RoundOK, TypeOK
<1>10. \A d \in Calls : StepOK(d)'
  <2>1. ASSUME NEW d \in Calls, d # c PROVE StepOK(d)'
    BY <1>2, <1>3, <2>1 DEF IInv, StepOK, Consented, Verdict, Status
  <2> QED
    BY <1>1, <2>1 DEF DispatchEffect
<1> QED
  BY <1>6, <1>7, <1>8, <1>9, <1>10 DEF IInv

-----------------------------------------------------------------------------
(* The host.                                                               *)

LEMMA HostAppliesKeeps ==
    ASSUME IInv, NEW c \in Calls, NEW r, HostApplies(c, r), RecStep(rec[c], r),
           r.answers = rec[c].answers, r.status # "executing", rec[c].status # "consumed",
           step[c] \notin InTool
    PROVE  IInv' /\ RecordsStep
<1>0. TypeOK /\ rec \in [Calls -> Record] /\ c \in 1..count
  BY DEF IInv, TypeOK, ContextOK, HostApplies
<1>1. UNCHANGED <<count, tracked, run, token, round, rest, batch, clash, queued, broken, step,
                  policy, saved, restarts>>
  BY DEF HostApplies, roundVars, hostVars
<1>2. rec'[c] = r /\ \A d \in Calls : d # c => rec'[d] = rec[d]
  BY <1>0 DEF HostApplies
<1>3. RecordsStep
  BY <1>0, <1>2 DEF RecordsStep, RecStep, HostApplies
<1>4. rec' \in [Calls -> Record] /\ ContextOK(rec, count, tracked)'
  BY <1>1, <1>3, ContextKept DEF IInv, ContextOK
<1>5. TypeOK'
  BY <1>0, <1>1, <1>4 DEF TypeOK
<1>6. ContextOK(saved.rec, saved.count, saved.tracked)'
  BY <1>1 DEF IInv, ContextOK
<1>7. RoundOK'
  <2>1. \A d \in Calls : rec'[d].answers = rec[d].answers
    BY <1>2
  <2>2. \A d \in Calls : rec[d].status = "consumed" => rec'[d].status = "consumed"
    BY <1>2
  <2> QED
    BY <1>0, <1>1, <2>1, <2>2 DEF IInv, RoundOK, TypeOK
<1>8. ASSUME NEW d \in Calls PROVE StepOK(d)'
  <2>1. CASE d = c
    BY <1>0, <1>1, <1>2, <2>1 DEF StepOK, Status, InTool
  <2>2. CASE d # c
    BY <1>1, <1>2, <2>2 DEF IInv, StepOK, Consented, Verdict, Status
  <2> QED
    BY <2>1, <2>2
<1> QED
  BY <1>3, <1>4, <1>5, <1>6, <1>7, <1>8 DEF IInv

LEMMA ApprovalKeeps ==
    ASSUME IInv, NEW c \in Calls, Approval(c)
    PROVE  IInv' /\ RecordsStep
<1>1. rec[c] \in Record /\ rec[c].status = "pending" /\ step[c] \notin InTool
  BY DEF IInv, TypeOK, StepOK, Approval, Status, InTool
<1>2. PICK r \in {Approve(rec[c]), Reject(rec[c])} : HostApplies(c, r)
  BY DEF Approval
<1>3. RecStep(rec[c], r) /\ r.answers = rec[c].answers /\ r.status # "executing"
  BY <1>1, <1>2 DEF RecStep, Approve, Reject, Record
<1> QED
  BY <1>1, <1>2, <1>3, HostAppliesKeeps

LEMMA UserAnswerKeeps ==
    ASSUME IInv, NEW c \in Calls, UserAnswer(c)
    PROVE  IInv' /\ RecordsStep
<1> DEFINE r == ApplyUserAnswer(rec[c])
<1>1. rec[c] \in Record /\ rec[c].status = "input" /\ step[c] \notin InTool
  BY DEF IInv, TypeOK, StepOK, UserAnswer, Status, InTool
<1>2. HostApplies(c, r)
  BY DEF UserAnswer
<1>3. RecStep(rec[c], r) /\ r.answers = rec[c].answers /\ r.status # "executing"
  BY <1>1 DEF RecStep, ApplyUserAnswer, Record
<1> QED
  BY <1>1, <1>2, <1>3, HostAppliesKeeps

LEMMA FailStaleKeeps ==
    ASSUME IInv, NEW c \in Calls, FailStale(c)
    PROVE  IInv' /\ RecordsStep
<1> DEFINE r == Consume(rec[c], "failed")
<1>1. rec[c] \in Record /\ rec[c].status = "executing" /\ step[c] \notin InTool
  BY DEF IInv, TypeOK, FailStale, Status, InTool
<1>2. HostApplies(c, r)
  BY DEF FailStale
<1>3. RecStep(rec[c], r) /\ r.answers = rec[c].answers /\ r.status # "executing"
  BY <1>1 DEF RecStep, Consume, Record, Returns
<1> QED
  BY <1>1, <1>2, <1>3, HostAppliesKeeps

\* A new round on calls that have no answer yet.
LEMMA BeginRoundOK ==
    ASSUME NEW S, S \subseteq 1..count', BeginRound(S), \A c \in S : rec'[c].answers = 0
    PROVE  RoundOK'
  BY DEF BeginRound, RoundOK

LEMMA ResumeKeeps ==
    ASSUME IInv, Resume
    PROVE  IInv' /\ RecordsStep
<1> DEFINE left == {c \in tracked : Status(c) # "consumed"}
<1>1. UNCHANGED <<rec, count, tracked, step, policy, saved, restarts>> /\ token' = FALSE
  BY DEF Resume, ctxVars, hostVars
<1>2. TypeOK /\ left \subseteq Calls /\ left \subseteq 1..count /\ \A c \in left : rec[c].answers = 0
  BY DEF IInv, TypeOK, ContextOK, CallOK, Status
<1>3. TypeOK' /\ RoundOK'
  <2>1. CASE left = {}
    <3>1. run' = "model" /\ UNCHANGED <<round, rest, batch, clash, queued, broken>>
      BY <2>1 DEF Resume, roundVars
    <3>2. TypeOK'
      BY <1>1, <1>2, <3>1 DEF TypeOK
    <3>3. RoundOK'
      BY <1>1, <3>1 DEF IInv, RoundOK
    <3> QED
      BY <3>2, <3>3
  <2>2. CASE left # {}
    <3>1. BeginRound(left)
      BY <2>2 DEF Resume
    <3>2. TypeOK'
      BY <1>1, <1>2, <3>1 DEF TypeOK, BeginRound
    <3>3. RoundOK'
      BY <1>1, <1>2, <3>1, BeginRoundOK
    <3> QED
      BY <3>2, <3>3
  <2> QED
    BY <2>1, <2>2
<1>4. RecordsStep
  BY <1>1, <1>2 DEF RecordsStep, RecStep, TypeOK
<1> QED
  BY <1>1, <1>3, <1>4 DEF IInv, ContextOK, StepOK, Consented, Verdict, Status

\* Steps that touch neither a record nor a coroutine.
LEMMA AsideKeeps ==
    ASSUME IInv, UNCHANGED <<rec, count, roundVars, step, hostVars>>, tracked' \subseteq tracked,
           token' \in BOOLEAN, run' \in {"idle", "model", "tools", "stopping"}
    PROVE  IInv' /\ RecordsStep
<1>1. UNCHANGED <<rec, count, round, rest, batch, clash, queued, broken, step, policy, saved, restarts>>
  BY DEF roundVars, hostVars
<1>2. TypeOK'
  BY <1>1 DEF IInv, TypeOK
<1>3. RoundOK'
  BY <1>1 DEF IInv, RoundOK
<1>4. ContextOK(rec, count, tracked)' /\ ContextOK(saved.rec, saved.count, saved.tracked)'
  BY <1>1 DEF IInv, ContextOK
<1>5. \A c \in Calls : StepOK(c)'
  BY <1>1 DEF IInv, StepOK, Consented, Verdict, Status
<1>6. RecordsStep
  BY <1>1 DEF RecordsStep, RecStep, IInv, TypeOK
<1> QED
  BY <1>2, <1>3, <1>4, <1>5, <1>6 DEF IInv

LEMMA AllowRuleKeeps ==
    ASSUME IInv, NEW t \in Tools, AllowRule(t)
    PROVE  IInv' /\ RecordsStep
<1>0. TypeOK
  BY DEF IInv
<1>1. /\ UNCHANGED <<rec, count, tracked, run, token, round, rest, batch, clash, queued, broken,
                     step, saved, restarts>>
      /\ policy' = [policy EXCEPT ![t] = "allow"]
  BY DEF AllowRule, ctxVars, roundVars
<1>2. TypeOK' /\ RecordsStep
  BY <1>0, <1>1 DEF TypeOK, Verdicts, RecordsStep, RecStep
<1>3. RoundOK' /\ ContextOK(rec, count, tracked)' /\ ContextOK(saved.rec, saved.count, saved.tracked)'
  BY <1>1 DEF IInv, RoundOK, ContextOK
<1>4. ASSUME NEW c \in Calls PROVE StepOK(c)'
  <2>1. StepOK(c) /\ (step[c] = "request" => rec[c].tool \in Tools)
    BY DEF IInv, ContextOK, StepOK
  <2>2. step[c] = "request" /\ Consented(c) => Consented(c)'
    BY <1>0, <1>1, <2>1 DEF Consented, Verdict, Status, TypeOK
  <2> QED
    BY <1>1, <2>1, <2>2 DEF StepOK, Status
<1> QED
  BY <1>2, <1>3, <1>4 DEF IInv

LEMMA SaveKeeps ==
    ASSUME IInv, Save
    PROVE  IInv' /\ RecordsStep
<1>1. /\ UNCHANGED <<rec, count, tracked, run, token, round, rest, batch, clash, queued, broken,
                     step, policy, restarts>>
      /\ saved' = Context
  BY DEF Save, ctxVars, roundVars
<1>2. /\ saved'.rec = rec /\ saved'.count = count /\ saved'.tracked = tracked
      /\ saved' \in [rec : [Calls -> Record], count : 0..MaxCalls, tracked : SUBSET Calls]
  BY <1>1 DEF Context, IInv, TypeOK
<1>3. TypeOK' /\ RecordsStep
  BY <1>1, <1>2 DEF IInv, TypeOK, RecordsStep, RecStep
<1>4. RoundOK' /\ ContextOK(rec, count, tracked)' /\ ContextOK(saved.rec, saved.count, saved.tracked)'
  BY <1>1, <1>2 DEF IInv, RoundOK, ContextOK
<1>5. \A c \in Calls : StepOK(c)'
  BY <1>1 DEF IInv, StepOK, Consented, Verdict, Status
<1> QED
  BY <1>3, <1>4, <1>5 DEF IInv

\* A restart comes back to a context that was good when it was stored.
LEMMA CrashKeeps ==
    ASSUME IInv, Crash
    PROVE  IInv'
<1>1. /\ rec' = saved.rec /\ count' = saved.count /\ tracked' = saved.tracked /\ saved' = saved
      /\ run' = "idle" /\ token' = FALSE /\ broken' = FALSE /\ restarts' \in 0..MaxRestarts
      /\ round' = {} /\ rest' = {} /\ batch' = {} /\ clash' = {} /\ queued' = {}
      /\ step' = [c \in Calls |-> "idle"]
      /\ policy' \in [Tools -> Verdicts]
  BY ConstantsAssumption DEF Crash, IInv, TypeOK
<1>2. TypeOK'
  BY <1>1 DEF IInv, TypeOK, Steps
<1>3. RoundOK' /\ ContextOK(rec, count, tracked)' /\ ContextOK(saved.rec, saved.count, saved.tracked)'
  BY <1>1 DEF IInv, RoundOK, ContextOK
<1>4. \A c \in Calls : StepOK(c)'
  BY <1>1 DEF StepOK
<1> QED
  BY <1>2, <1>3, <1>4 DEF IInv

-----------------------------------------------------------------------------
(* The loop and dispatch_many.                                             *)

\* The calls of a reply are new, the records of the others stay.
LEMMA NewCalls ==
    ASSUME ModelCalls
    PROVE  \E k \in 1..MaxRound :
             /\ count + k <= MaxCalls /\ count' = count + k
             /\ \A c \in Calls : c \notin count + 1 .. count + k => rec'[c] = rec[c]
             /\ \A c \in Calls : c \in count + 1 .. count + k =>
                   \E t, i : FreshId(i, c) /\ rec'[c] = Proposed(t, i)
<1>1. PICK k \in 1..MaxRound :
        /\ count + k <= MaxCalls
        /\ count' = count + k
        /\ tracked' = tracked \cup (count + 1 .. count + k)
        /\ \E tool \in [count + 1 .. count + k -> Tools],
              id \in [count + 1 .. count + k -> 1..count + k] :
             /\ \A c \in count + 1 .. count + k : FreshId(id[c], c)
             /\ \A c, d \in count + 1 .. count + k : c # d => id[c] # id[d]
             /\ rec' = [c \in Calls |-> IF c \in count + 1 .. count + k
                                         THEN Proposed(tool[c], id[c]) ELSE rec[c]]
        /\ BeginRound(count + 1 .. count + k)
  BY DEF ModelCalls
<1>2. PICK tool \in [count + 1 .. count + k -> Tools],
           id \in [count + 1 .. count + k -> 1..count + k] :
        /\ \A c \in count + 1 .. count + k : FreshId(id[c], c)
        /\ \A c, d \in count + 1 .. count + k : c # d => id[c] # id[d]
        /\ rec' = [c \in Calls |-> IF c \in count + 1 .. count + k
                                    THEN Proposed(tool[c], id[c]) ELSE rec[c]]
  BY <1>1
<1>3. \A c \in Calls : c \in count + 1 .. count + k => FreshId(id[c], c) /\ rec'[c] = Proposed(tool[c], id[c])
  BY <1>2
<1> QED
  BY <1>1, <1>2, <1>3

LEMMA ModelCallsKeeps ==
    ASSUME IInv, ModelCalls
    PROVE  IInv' /\ \A c \in Calls : RecStep(rec[c], rec'[c])
<1>0. TypeOK /\ ContextOK(rec, count, tracked) /\ count \in Nat /\ MaxCalls \in Nat
  BY ConstantsAssumption DEF IInv, TypeOK
<1>1. PICK k \in 1..MaxRound :
        /\ count + k <= MaxCalls
        /\ count' = count + k
        /\ tracked' = tracked \cup (count + 1 .. count + k)
        /\ \E tool \in [count + 1 .. count + k -> Tools],
              id \in [count + 1 .. count + k -> 1..count + k] :
             rec' = [c \in Calls |-> IF c \in count + 1 .. count + k
                                      THEN Proposed(tool[c], id[c]) ELSE rec[c]]
        /\ BeginRound(count + 1 .. count + k)
  BY DEF ModelCalls
<1> DEFINE new == count + 1 .. count + k
<1>2. k \in Nat /\ k > 0 /\ new \subseteq Calls /\ 1..count \subseteq 1..count'
      /\ new \subseteq 1..count' /\ \A c \in 1..count' : c \in new \/ c \in 1..count
  BY <1>0, <1>1, ConstantsAssumption DEF Calls
<1>3. PICK tool \in [new -> Tools], id \in [new -> 1..count + k] :
        rec' = [c \in Calls |-> IF c \in new THEN Proposed(tool[c], id[c]) ELSE rec[c]]
  BY <1>1
<1> HIDE DEF new
<1>4. UNCHANGED <<token, step, policy, saved, restarts>>
  BY DEF ModelCalls, hostVars
<1>5. \A c \in new : rec'[c] = Proposed(tool[c], id[c]) /\ tool[c] \in Tools /\ id[c] \in Nat
  BY <1>0, <1>1, <1>2, <1>3
<1>6. \A c \in new : c \notin 1..count /\ rec[c] = Unregistered
  BY <1>0, <1>2 DEF ContextOK, new
<1>7. \A c \in Calls : c \notin new => rec'[c] = rec[c]
  BY <1>3
<1>8. \A c \in Calls : RecStep(rec[c], rec'[c])
  BY <1>5, <1>6, <1>7 DEF RecStep
<1>9. \A c \in Calls : rec'[c] \in Record /\ CallOK(rec'[c])
  BY <1>0, <1>8, RecStepOK DEF TypeOK, ContextOK
<1>10. rec' \in [Calls -> Record]
  BY <1>3, <1>9
<1>11. \A c \in new : rec'[c].answers = 0 /\ rec'[c].status = "pending" /\ rec'[c].tool \in Tools
  BY <1>5 DEF Proposed, Unregistered
<1>12. ContextOK(rec, count, tracked)'
  <2>1. tracked' \subseteq 1..count'
    BY <1>0, <1>1, <1>2 DEF ContextOK, new
  <2>2. ASSUME NEW c \in Calls, c \in 1..count' PROVE rec'[c].status # "none" /\ rec'[c].tool \in Tools
    BY <1>0, <1>2, <1>7, <1>11, <2>2 DEF ContextOK
  <2>3. ASSUME NEW c \in Calls, c \notin 1..count' PROVE rec'[c] = Unregistered
    BY <1>0, <1>2, <1>7, <2>3 DEF ContextOK
  <2> QED
    BY <1>9, <2>1, <2>2, <2>3 DEF ContextOK
<1>13. BeginRound(new)
  BY <1>1 DEF new
<1>14. RoundOK'
  BY <1>2, <1>11, <1>13, BeginRoundOK
<1>15. TypeOK'
  <2>1. count' \in 0..MaxCalls /\ tracked' \in SUBSET Calls
    BY <1>0, <1>1, <1>2 DEF TypeOK, new
  <2> QED
    BY <1>0, <1>2, <1>4, <1>10, <1>13, <2>1 DEF TypeOK, BeginRound
<1>16. ContextOK(saved.rec, saved.count, saved.tracked)'
  BY <1>4 DEF IInv, ContextOK
<1>17. ASSUME NEW c \in Calls PROVE StepOK(c)'
  <2>1. CASE c \in new
    BY <1>2, <1>4, <1>6, <2>1 DEF IInv, StepOK
  <2>2. CASE c \notin new
    BY <1>2, <1>4, <1>7, <2>2 DEF IInv, StepOK, Consented, Verdict, Status
  <2> QED
    BY <2>1, <2>2
<1> QED
  BY <1>8, <1>12, <1>14, <1>15, <1>16, <1>17 DEF IInv

LEMMA NextBatchOK == \A S : NextBatch(S) \subseteq S
  BY DEF NextBatch

LEMMA StartBatchKeeps ==
    ASSUME IInv, StartBatch
    PROVE  IInv' /\ RecordsStep
<1>0. TypeOK /\ RoundOK
  BY DEF IInv
<1>1. /\ UNCHANGED <<rec, count, tracked, run, token, round, queued, broken, policy, saved, restarts>>
      /\ batch = {} /\ batch' \subseteq rest /\ rest' = rest \ batch'
      /\ clash' = {c \in batch' : Status(c) = "executing" \/ step[c] # "idle"}
      /\ step' = [c \in Calls |-> IF c \in batch' \ clash' THEN "slot" ELSE step[c]]
  BY NextBatchOK DEF StartBatch, ctxVars, hostVars
<1>2. TypeOK'
  BY <1>0, <1>1 DEF TypeOK, Steps
<1>3. RoundOK' /\ RecordsStep
  BY <1>0, <1>1 DEF RoundOK, RecordsStep, RecStep, TypeOK
<1>4. ContextOK(rec, count, tracked)' /\ ContextOK(saved.rec, saved.count, saved.tracked)'
  BY <1>1 DEF IInv, ContextOK
<1>5. ASSUME NEW c \in Calls PROVE StepOK(c)'
  <2>1. CASE c \in batch' \ clash'
    <3>1. step'[c] = "slot" /\ Status(c) # "executing" /\ c \in 1..count
      BY <1>0, <1>1, <2>1 DEF RoundOK
    <3> QED
      BY <1>1, <3>1 DEF StepOK, Status
  <2>2. CASE c \notin batch' \ clash'
    BY <1>1, <2>2 DEF IInv, StepOK, Consented, Verdict, Status
  <2> QED
    BY <2>1, <2>2
<1> QED
  BY <1>2, <1>3, <1>4, <1>5 DEF IInv

LEMMA CloseBatchKeeps ==
    ASSUME IInv, CloseBatch
    PROVE  IInv' /\ RecordsStep
<1>0. TypeOK /\ RoundOK
  BY DEF IInv
<1>1. /\ UNCHANGED <<rec, count, tracked, run, token, round, rest, clash, broken, policy, saved, restarts>>
      /\ batch' = {} /\ queued' = queued \cup {c \in batch : Status(c) = "consumed"}
      /\ step' = [c \in Calls |-> IF c \in batch THEN "idle" ELSE step[c]]
  BY DEF CloseBatch, ctxVars, hostVars
<1>2. TypeOK'
  BY <1>0, <1>1 DEF TypeOK, Steps
<1>3. RoundOK' /\ RecordsStep
  BY <1>0, <1>1 DEF RoundOK, RecordsStep, RecStep, TypeOK, Status
<1>4. ContextOK(rec, count, tracked)' /\ ContextOK(saved.rec, saved.count, saved.tracked)'
  BY <1>1 DEF IInv, ContextOK
<1>5. \A c \in Calls : StepOK(c)'
  BY <1>1 DEF IInv, StepOK, Consented, Verdict, Status
<1> QED
  BY <1>2, <1>3, <1>4, <1>5 DEF IInv

LEMMA DeliverKeeps ==
    ASSUME IInv, Deliver
    PROVE  IInv' /\ RecordsStep
<1>0. TypeOK /\ RoundOK /\ rec \in [Calls -> Record]
  BY DEF IInv, TypeOK
<1>1. PICK c \in queued : rec' = [rec EXCEPT ![c] = Answer(@)] /\ queued' = queued \ {c}
  BY DEF Deliver
<1>2. UNCHANGED <<count, tracked, run, token, round, rest, batch, clash, broken, step, policy, saved, restarts>>
  BY DEF Deliver, hostVars
<1>3. /\ c \in Calls /\ c \in 1..count /\ c \notin rest /\ c \notin batch
      /\ rec[c] \in Record /\ rec[c].status = "consumed" /\ rec[c].answers = 0
  BY <1>0, <1>1 DEF TypeOK, RoundOK
<1>4. rec'[c] = Answer(rec[c]) /\ \A d \in Calls : d # c => rec'[d] = rec[d]
  BY <1>0, <1>1, <1>3
<1>5. RecordsStep
  BY <1>0, <1>1, <1>3, <1>4 DEF RecordsStep, RecStep
<1>6. rec' \in [Calls -> Record] /\ ContextOK(rec, count, tracked)'
  BY <1>2, <1>5, ContextKept DEF IInv, ContextOK
<1>7. TypeOK'
  BY <1>0, <1>1, <1>2, <1>6 DEF TypeOK
<1>8. RoundOK'
  BY <1>0, <1>1, <1>2, <1>3, <1>4 DEF RoundOK, TypeOK
<1>9. ContextOK(saved.rec, saved.count, saved.tracked)'
  BY <1>2 DEF IInv, ContextOK
<1>10. ASSUME NEW d \in Calls PROVE StepOK(d)'
  <2>1. CASE d = c
    <3>1. rec'[c].status = "consumed"
      BY <1>3, <1>4 DEF Answer, Record
    <3>2. step'[c] \notin {"running", "response", "unwinding"}
      BY <1>2, <1>3 DEF IInv, StepOK, Status
    <3> QED
      BY <1>2, <1>3, <2>1, <3>1, <3>2 DEF StepOK, Status
  <2>2. CASE d # c
    BY <1>2, <1>4, <2>2 DEF IInv, StepOK, Consented, Verdict, Status
  <2> QED
    BY <2>1, <2>2
<1> QED
  BY <1>6, <1>7, <1>8, <1>9, <1>10 , <1>5 DEF IInv

LEMMA EndRoundKeeps ==
    ASSUME IInv, EndRound
    PROVE  IInv' /\ RecordsStep
<1>1. /\ UNCHANGED <<rec, count, tracked, token, rest, batch, clash, queued, broken, step,
                     policy, saved, restarts>>
      /\ rest = {} /\ batch = {} /\ queued = {} /\ round' = {} /\ run' \in {"idle", "model"}
  BY DEF EndRound, ctxVars, hostVars
<1>2. TypeOK' /\ RecordsStep
  BY <1>1 DEF IInv, TypeOK, RecordsStep, RecStep
<1>3. RoundOK' /\ ContextOK(rec, count, tracked)' /\ ContextOK(saved.rec, saved.count, saved.tracked)'
  BY <1>1 DEF IInv, RoundOK, ContextOK
<1>4. \A c \in Calls : StepOK(c)'
  BY <1>1 DEF IInv, StepOK, Consented, Verdict, Status
<1> QED
  BY <1>2, <1>3, <1>4 DEF IInv

\* Closing and answering the calls a run leaves behind: a call that has an
\* answer is among the answered ids, so none is answered twice.
LEMMA AnswerUnansweredStep ==
    ASSUME IInv, NEW c \in Calls, c \in round, rec[c].id \notin AnsweredIds
    PROVE  RecStep(rec[c], AnswerUnanswered(rec[c]))
<1>1. rec[c] \in Record /\ c \in 1..count /\ rec[c].status \in Statuses \ {"none"}
  BY DEF IInv, TypeOK, RoundOK, ContextOK, Record
<1>2. rec[c].answers = 0
  BY <1>1 DEF AnsweredIds, Registered, Record
<1>3. CASE rec[c].status = "executing"
  BY <1>3 DEF AnswerUnanswered, RecStep
<1>4. CASE rec[c].status = "consumed"
  BY <1>2, <1>4 DEF AnswerUnanswered, Closed, RecStep
<1>5. CASE rec[c].status \in Open
  BY <1>5 DEF AnswerUnanswered, Closed, RecStep, Open
<1> QED
  BY <1>1, <1>3, <1>4, <1>5 DEF Statuses, Open

\* What AnswerUnanswered leaves of a status.
LEMMA AnswerUnansweredStatus ==
    ASSUME NEW r \in Record
    PROVE  /\ r.status = "executing" => AnswerUnanswered(r) = r
           /\ r.status # "executing" => AnswerUnanswered(r).status = "consumed"
<1>1. CASE r.status = "executing"
  BY <1>1 DEF AnswerUnanswered
<1>2. CASE r.status # "executing"
  <2>1. Closed(r) \in Record /\ Closed(r).status = "consumed"
    BY <1>2 DEF Closed, Consume, Record, Statuses, Results
  <2> QED
    BY <1>2, <2>1 DEF AnswerUnanswered, Answer, Record
<1> QED
  BY <1>1, <1>2

LEMMA RunFailsKeeps ==
    ASSUME IInv, RunFails
    PROVE  IInv' /\ RecordsStep
<1>0. TypeOK /\ rec \in [Calls -> Record] /\ round \subseteq 1..count
  BY DEF IInv, TypeOK, RoundOK
<1>1. /\ UNCHANGED <<count, tracked, token, policy, saved, restarts>>
      /\ run' = "idle" /\ broken' = FALSE
      /\ round' = {} /\ rest' = {} /\ batch' = {} /\ clash' = {} /\ queued' = {}
      /\ step' = [c \in Calls |-> IF c \in Children /\ step[c] \in {"returned", "raised"}
                                   THEN "idle" ELSE step[c]]
  BY DEF RunFails, hostVars
<1>2. rec' = [c \in Calls |-> IF c \in round /\ rec[c].id \notin AnsweredIds
                               THEN AnswerUnanswered(rec[c]) ELSE rec[c]]
  BY DEF RunFails
<1>3. \A c \in Calls : rec'[c] = rec[c] \/ (c \in round /\ rec'[c] = AnswerUnanswered(rec[c]))
  BY <1>2
<1>4. RecordsStep
  <2>1. ASSUME NEW c \in Calls PROVE RecStep(rec[c], rec'[c])
    <3>1. CASE c \in round /\ rec[c].id \notin AnsweredIds
      BY <1>2, <3>1, AnswerUnansweredStep
    <3>2. CASE ~(c \in round /\ rec[c].id \notin AnsweredIds)
      BY <1>2, <3>2 DEF RecStep
    <3> QED
      BY <3>1, <3>2
  <2> QED
    BY <1>0, <1>2, <1>3, <2>1 DEF RecordsStep
<1>5. rec' \in [Calls -> Record] /\ ContextOK(rec, count, tracked)'
  BY <1>1, <1>4, ContextKept DEF IInv, ContextOK
<1>6. TypeOK'
  BY <1>0, <1>1, <1>5 DEF TypeOK, Steps
<1>7. RoundOK' /\ ContextOK(saved.rec, saved.count, saved.tracked)'
  BY <1>1 DEF IInv, RoundOK, ContextOK
<1>8. ASSUME NEW c \in Calls PROVE StepOK(c)'
  <2>1. rec[c] \in Record /\ StepOK(c) /\ (step'[c] = step[c] \/ step'[c] = "idle")
    BY <1>0, <1>1 DEF IInv
  <2>2. CASE rec'[c] = rec[c]
    BY <1>1, <2>1, <2>2 DEF StepOK, Consented, Verdict, Status
  <2>3. CASE rec'[c] # rec[c]
    <3>1. rec[c].status # "executing" /\ rec'[c].status = "consumed" /\ c \in 1..count
      BY <1>0, <1>3, <2>1, <2>3, AnswerUnansweredStatus
    <3> QED
      BY <1>1, <2>1, <3>1 DEF StepOK, Status
  <2> QED
    BY <2>2, <2>3
<1> QED
  BY <1>4, <1>5, <1>6, <1>7, <1>8 DEF IInv

LEMMA RefuseExecutingKeeps ==
    ASSUME IInv, RefuseExecuting
    PROVE  IInv' /\ RecordsStep
<1>1. /\ UNCHANGED <<rec, count, tracked, run, token, round, rest, batch, clash, queued, step,
                     policy, saved, restarts>>
      /\ broken' = TRUE
  BY DEF RefuseExecuting, Aside, hostVars
<1>2. TypeOK' /\ RecordsStep
  BY <1>1 DEF IInv, TypeOK, RecordsStep, RecStep
<1>3. RoundOK' /\ ContextOK(rec, count, tracked)' /\ ContextOK(saved.rec, saved.count, saved.tracked)'
  BY <1>1 DEF IInv, RoundOK, ContextOK
<1>4. \A c \in Calls : StepOK(c)'
  BY <1>1 DEF IInv, StepOK, Consented, Verdict, Status
<1> QED
  BY <1>2, <1>3, <1>4 DEF IInv

LEMMA InterruptKeeps ==
    ASSUME IInv, Interrupt
    PROVE  IInv' /\ RecordsStep
<1> DEFINE live == {c \in Children : step[c] \in {"slot", "request", "running", "response"}}
<1>0. TypeOK /\ RoundOK /\ rec \in [Calls -> Record]
  BY DEF IInv, TypeOK
<1>1. PICK slow \in SUBSET {c \in live : step[c] = "running"} :
        /\ step' = [c \in Calls |-> IF c \in slow THEN "unwinding"
                                     ELSE IF c \in live THEN "raised" ELSE step[c]]
        /\ rec' = [c \in Calls |-> IF c \in live \ slow /\ step[c] = "running"
                                    THEN Cancelled(rec[c]) ELSE rec[c]]
  BY DEF Interrupt
<1>2. UNCHANGED <<count, tracked, run, token, round, rest, batch, clash, queued, broken, policy, saved, restarts>>
  BY DEF Interrupt, Aside, hostVars
<1>3. \A c \in live : c \in Calls /\ c \in 1..count
  BY <1>0 DEF Children, RoundOK, TypeOK
<1>4. ASSUME NEW c \in Calls
      PROVE  \/ rec'[c] = rec[c]
             \/ /\ c \in live \ slow /\ step[c] = "running" /\ rec[c].status = "executing"
                /\ rec'[c] = Cancelled(rec[c])
  BY <1>1 DEF IInv, StepOK, Status
<1>5. ASSUME NEW c \in Calls
      PROVE  RecStep(rec[c], rec'[c]) /\ rec'[c].answers = rec[c].answers
  <2>1. CASE rec'[c] = rec[c]
    BY <2>1 DEF RecStep
  <2>2. CASE rec'[c] # rec[c]
    <3>1. rec[c] \in Record /\ rec[c].status = "executing" /\ rec'[c] = Cancelled(rec[c])
      BY <1>0, <1>4, <2>2
    <3> QED
      BY <3>1 DEF RecStep, Cancelled, Consume, Record
  <2> QED
    BY <2>1, <2>2
<1>6. RecordsStep
  BY <1>1, <1>3, <1>5 DEF RecordsStep
<1>7. rec' \in [Calls -> Record] /\ ContextOK(rec, count, tracked)'
  BY <1>2, <1>6, ContextKept DEF IInv, ContextOK
<1>8. TypeOK'
  BY <1>0, <1>1, <1>2, <1>7 DEF TypeOK, Steps
<1>9. RoundOK'
  <2>1. \A d \in Calls : rec[d].status = "consumed" => rec'[d].status = "consumed"
    BY <1>4
  <2> QED
    BY <1>0, <1>2, <1>5, <2>1 DEF RoundOK, TypeOK
<1>10. ContextOK(saved.rec, saved.count, saved.tracked)'
  BY <1>2 DEF IInv, ContextOK
<1>11. ASSUME NEW c \in Calls PROVE StepOK(c)'
  <2>1. CASE c \in slow
    BY <1>1, <1>2, <1>3, <2>1 DEF IInv, StepOK, Status
  <2>2. CASE c \in live \ slow
    BY <1>1, <1>2, <1>3, <2>2 DEF StepOK
  <2>3. CASE c \notin live
    BY <1>1, <1>2, <2>3 DEF IInv, StepOK, Consented, Verdict, Status
  <2> QED
    BY <2>1, <2>2, <2>3
<1> QED
  BY <1>6, <1>7, <1>8, <1>9, <1>10, <1>11 DEF IInv

-----------------------------------------------------------------------------
(* IInv is inductive.                                                      *)

LEMMA InitOK == Init => IInv
<1> SUFFICES ASSUME Init PROVE IInv
  OBVIOUS
<1>1. /\ rec = [c \in Calls |-> Unregistered] /\ count = 0 /\ tracked = {}
      /\ saved.rec = rec /\ saved.count = 0 /\ saved.tracked = {}
      /\ saved \in [rec : [Calls -> Record], count : 0..MaxCalls, tracked : SUBSET Calls]
  BY UnregisteredOK, ConstantsAssumption DEF Init, Context
<1>2. TypeOK
  <2>1. rec \in [Calls -> Record] /\ count \in 0..MaxCalls /\ tracked \in SUBSET Calls
    BY <1>1, UnregisteredOK, ConstantsAssumption
  <2>2. policy \in [Tools -> Verdicts] /\ step \in [Calls -> Steps] /\ restarts \in 0..MaxRestarts
    BY ConstantsAssumption DEF Init, Steps
  <2> QED
    BY <1>1, <2>1, <2>2 DEF Init, TypeOK
<1>3. ContextOK(rec, count, tracked) /\ ContextOK(saved.rec, saved.count, saved.tracked)
  BY <1>1, UnregisteredOK DEF ContextOK
<1>4. RoundOK /\ \A c \in Calls : StepOK(c)
  BY DEF Init, RoundOK, StepOK
<1> QED
  BY <1>2, <1>3, <1>4 DEF IInv

\* A step of the program other than Save and Crash.
LEMMA StepKeeps ==
    ASSUME IInv, Next, ~Save, ~Crash
    PROVE  /\ IInv' /\ saved' = saved
           /\ \A c \in Calls : RecStep(rec[c], rec'[c])
<1>1. CASE NewTask
  BY <1>1, AsideKeeps DEF NewTask, RecordsStep, hostVars
<1>2. CASE Resume
  BY <1>2, ResumeKeeps DEF Resume, RecordsStep, hostVars
<1>3. CASE Cancel
  BY <1>3, AsideKeeps DEF Cancel, RecordsStep, hostVars, ctxVars, IInv, TypeOK
<1>4. CASE \E c \in Calls : Approval(c) \/ UserAnswer(c) \/ FailStale(c)
  BY <1>4, ApprovalKeeps, UserAnswerKeeps, FailStaleKeeps
     DEF Approval, UserAnswer, FailStale, HostApplies, RecordsStep, hostVars
<1>5. CASE \E t \in Tools : AllowRule(t)
  BY <1>5, AllowRuleKeeps DEF AllowRule, RecordsStep
<1>6. CASE ModelCalls
  BY <1>6, ModelCallsKeeps DEF ModelCalls, hostVars
<1>7. CASE ModelEnds
  BY <1>7, AsideKeeps DEF ModelEnds, RecordsStep, hostVars, ctxVars, IInv, TypeOK
<1>8. CASE EndRound
  BY <1>8, EndRoundKeeps DEF EndRound, RecordsStep, hostVars
<1>9. CASE FailRound \/ StopRun
  BY <1>9, RunFailsKeeps DEF FailRound, StopRun, RunFails, RecordsStep, hostVars
<1>10. CASE StartBatch
  BY <1>10, StartBatchKeeps DEF StartBatch, RecordsStep, hostVars
<1>11. CASE CloseBatch
  BY <1>11, CloseBatchKeeps DEF CloseBatch, RecordsStep, hostVars
<1>12. CASE Deliver
  BY <1>12, DeliverKeeps DEF Deliver, RecordsStep, hostVars
<1>13. CASE RefuseExecuting
  BY <1>13, RefuseExecutingKeeps DEF RefuseExecuting, RecordsStep, Aside, hostVars
<1>14. CASE Interrupt
  BY <1>14, InterruptKeeps DEF Interrupt, RecordsStep, Aside, hostVars
<1>15. ASSUME NEW c \in Calls, Dispatch(c)
       PROVE  IInv' /\ saved' = saved /\ \A d \in Calls : RecStep(rec[d], rec'[d])
  <2>1. DispatchEffect(c) /\ UNCHANGED Aside /\ IInv'
    BY <1>15, DispatchSteps, DispatchKeeps
  <2>2. \A d \in Calls : d # c => rec'[d] = rec[d]
    BY <2>1 DEF DispatchEffect, IInv, TypeOK
  <2> QED
    BY <2>1, <2>2 DEF DispatchEffect, RecStep, Aside, hostVars
<1> QED
  BY <1>1, <1>2, <1>3, <1>4, <1>5, <1>6, <1>7, <1>8, <1>9, <1>10, <1>11, <1>12, <1>13, <1>14, <1>15
     DEF Next, Host, Loop

LEMMA NextKeeps == IInv /\ [Next]_vars => IInv'
<1> SUFFICES ASSUME IInv, [Next]_vars PROVE IInv'
  OBVIOUS
<1>1. CASE Next
  BY <1>1, StepKeeps, SaveKeeps, CrashKeeps
<1>2. CASE UNCHANGED vars
  <2>1. UNCHANGED <<rec, count, tracked, run, token, round, rest, batch, clash, queued, broken, step,
                    policy, saved, restarts>>
    BY <1>2 DEF vars, ctxVars, roundVars, hostVars
  <2> QED
    BY <2>1 DEF IInv, TypeOK, ContextOK, RoundOK, StepOK, Consented, Verdict, Status
<1> QED
  BY <1>1, <1>2

\* The inductive invariant holds in every reachable state.
THEOREM Invariance == Spec => []IInv
  BY InitOK, NextKeeps, PTL DEF Spec

\* Every variable keeps its type.
THEOREM TypeCorrect == Spec => []TypeOK
<1>1. IInv => TypeOK
  BY DEF IInv
<1> QED
  BY <1>1, Invariance, PTL

\* The transcript answers a call at most once, and only when its record holds
\* the result, whatever is cancelled, refused, orphaned or restarted.
THEOREM AnsweredAtMostOnce == Spec => []AnsweredOnce
<1>1. IInv => AnsweredOnce
  BY DEF IInv, TypeOK, ContextOK, CallOK, AnsweredOnce, Status, Record
<1> QED
  BY <1>1, Invariance, PTL

\* A tool runs at most once per call and its result says whether it ran, also
\* where a hook answers in the tool's place or changes the answer (dispatch).
THEOREM ResultsTellTheTruth == Spec => []ResultTellsTheTruth
<1>1. IInv => ResultTellsTheTruth
  BY DEF IInv, TypeOK, ContextOK, CallOK, ResultTellsTheTruth, Record
<1> QED
  BY <1>1, Invariance, PTL

-----------------------------------------------------------------------------
(* Consent.  A restart never looks like a start or an answer: the stored   *)
(* copy of a record is older than the record it replaces.                  *)

SavedEarlier == \A c \in Calls : /\ saved.rec[c].ran <= rec[c].ran
                                  /\ saved.rec[c].answers <= rec[c].answers

\* What a transition does to the numbers of runs and answers.
LEMMA RecStepRuns ==
    ASSUME NEW r \in Record, CallOK(r), NEW s \in Record, RecStep(r, s)
    PROVE  r.ran <= s.ran /\ r.answers <= s.answers
<1>0. r.answers <= s.answers
  BY RecStepMoves DEF Moves, Record
<1>1. CASE r.ran = 0
  BY <1>0, <1>1 DEF Record
<1>2. CASE r.ran # 0
  <2>1. r.status \in {"executing", "consumed"}
    BY <1>2 DEF CallOK
  <2>2. \/ s = r
        \/ \E result \in Results : s = Consume(r, result)
        \/ s = Answer(r)
    BY <2>1 DEF RecStep, Open, Waiting, Unregistered, Returns, Results
  <2>3. s.ran = r.ran
    BY <2>2 DEF Consume, Answer, Record
  <2> QED
    BY <1>0, <2>3 DEF Record
<1> QED
  BY <1>1, <1>2

LEMMA SavedEarlierKept == IInv /\ SavedEarlier /\ [Next]_vars => SavedEarlier'
<1> SUFFICES ASSUME IInv, SavedEarlier, [Next]_vars PROVE SavedEarlier'
  OBVIOUS
<1>0. /\ \A c \in Calls : rec[c] \in Record /\ CallOK(rec[c]) /\ saved.rec[c] \in Record
      /\ IInv'
  BY NextKeeps DEF IInv, TypeOK, ContextOK
<1>1. CASE Save
  <2>1. rec' = rec /\ saved'.rec = rec
    BY <1>1 DEF Save, ctxVars, Context
  <2> QED
    BY <1>0, <2>1 DEF SavedEarlier, Record
<1>2. CASE Crash
  <2>1. rec' = saved.rec /\ saved' = saved
    BY <1>2 DEF Crash
  <2> QED
    BY <1>0, <2>1 DEF SavedEarlier, Record
<1>3. CASE Next /\ ~Save /\ ~Crash
  <2>1. saved' = saved /\ \A c \in Calls : RecStep(rec[c], rec'[c]) /\ rec'[c] \in Record
    BY <1>0, <1>3, StepKeeps DEF IInv, TypeOK
  <2>2. \A c \in Calls : rec[c].ran <= rec'[c].ran /\ rec[c].answers <= rec'[c].answers
    BY <1>0, <2>1, RecStepRuns
  <2> QED
    BY <1>0, <2>1, <2>2 DEF SavedEarlier, Record
<1>4. CASE UNCHANGED vars
  BY <1>4 DEF vars, ctxVars, hostVars, SavedEarlier
<1> QED
  BY <1>1, <1>2, <1>3, <1>4

\* The start of call c with the consent StartsWithConsent asks for.
MayStart(c) == Starts(c) => Consented(c)

\* The other steps of a coroutine start no tool.
LEMMA QuietDispatch ==
    ASSUME IInv, NEW c \in Calls, Dispatch(c), ~Proceed(c), ~HookPasses(c)
    PROVE  rec'[c].ran = rec[c].ran
<1>0. rec \in [Calls -> Record] /\ rec[c] \in Record
  BY DEF IInv, TypeOK
<1>1. CASE \E result \in Results : Finish(c, result)
  BY <1>0, <1>1 DEF Finish, Consume, Record
<1>2. CASE rec' = rec
  BY <1>2
<1>3. CASE AskUser(c) \/ Unwound(c)
  BY <1>0, <1>3 DEF AskUser, Unwound, AwaitUserInput, Cancelled, Consume, Record
<1>4. CASE ReturnEarly(c)
  <2>1. EarlyResult(rec[c], Verdict(c)) \in Results
    BY DEF EarlyResult, Results
  <2> QED
    BY <1>1, <1>4, <2>1 DEF ReturnEarly
<1>5. CASE HookBlocks(c) \/ ToolEnds(c) \/ HookResponds(c)
  BY <1>1, <1>2, <1>5 DEF HookBlocks, ToolEnds, HookResponds, Results, Returns
<1>6. CASE ReturnExisting(c) \/ AskApproval(c) \/ HookTooLate(c) \/ HookRaises(c)
  BY <1>2, <1>6 DEF ReturnExisting, AskApproval, HookTooLate, HookRaises
<1> QED
  BY <1>3, <1>4, <1>5, <1>6 DEF Dispatch

\* Only Proceed and HookPasses start a tool.
LEMMA DispatchConsent ==
    ASSUME IInv, NEW c \in Calls, Dispatch(c)
    PROVE  \A d \in Calls : MayStart(d)
<1>0. /\ TypeOK /\ rec \in [Calls -> Record] /\ rec[c] \in Record /\ CallOK(rec[c]) /\ StepOK(c)
      /\ \A d \in Calls : rec[d].ran \in Nat
  BY DEF IInv, TypeOK, ContextOK, Record
<1>1. \A d \in Calls : d # c => rec'[d] = rec[d]
  BY <1>0, DispatchSteps DEF DispatchEffect
<1>2. \A d \in Calls : d # c => MayStart(d)
  BY <1>0, <1>1 DEF MayStart, Starts
<1>3. CASE Proceed(c)
  <2>1. rec[c].status \in Open
    BY <1>3, <1>0 DEF Proceed, Undecided, Admitted, StepOK, Status, Open, IInv, ContextOK, Record, Statuses
  <2>2. /\ rec[c].status \in {"pending", "approved", "auto"}
        /\ Verdict(c) # "deny"
        /\ Verdict(c) = "ask" => ~rec[c].auto
        /\ rec[c].status = "pending" => Verdict(c) = "allow"
    BY <1>0, <1>3, <2>1 DEF Proceed, Undecided, EarlyResult, Open, CallOK, Status
  <2>3. Consented(c)
    BY <1>0, <2>2 DEF CallOK, Consented, Status
  <2> QED
    BY <1>2, <2>3 DEF MayStart
<1>4. CASE HookPasses(c)
  BY <1>0, <1>2, <1>4 DEF HookPasses, StepOK, Status, MayStart
<1>5. CASE ~Proceed(c) /\ ~HookPasses(c)
  <2>1. rec'[c].ran = rec[c].ran
    BY <1>5, QuietDispatch
  <2> QED
    BY <1>0, <1>2, <2>1 DEF MayStart, Starts
<1> QED
  BY <1>3, <1>4, <1>5

\* What every other action leaves of the number of runs.
NoStart == \A c \in Calls : rec'[c].ran <= rec[c].ran

LEMMA HostStartsNothing ==
    ASSUME IInv, NEW c \in Calls, Approval(c) \/ UserAnswer(c) \/ FailStale(c)
    PROVE  NoStart
<1>0. rec \in [Calls -> Record]
  BY DEF IInv, TypeOK
<1>1. PICK r \in {Approve(rec[c]), Reject(rec[c]), ApplyUserAnswer(rec[c]), Consume(rec[c], "failed")} :
        rec' = [rec EXCEPT ![c] = r]
  BY DEF Approval, UserAnswer, FailStale, HostApplies
<1>2. r.ran = rec[c].ran
  BY <1>0, <1>1 DEF Approve, Reject, ApplyUserAnswer, Consume, Record
<1> QED
  BY <1>0, <1>1, <1>2 DEF NoStart, Record

LEMMA ModelStartsNothing == ASSUME IInv, ModelCalls PROVE NoStart
<1>0. \A c \in Calls : rec[c].ran \in Nat
  BY DEF IInv, TypeOK, Record
<1>1. \A c \in Calls : rec'[c] = rec[c] \/ \E t, i : rec'[c] = Proposed(t, i)
  BY NewCalls
<1>2. \A t, i : Proposed(t, i).ran = 0
  BY DEF Proposed, Unregistered
<1>3. \A c \in Calls : rec'[c].ran = rec[c].ran \/ rec'[c].ran = 0
  BY <1>1, <1>2
<1> QED
  BY <1>0, <1>3 DEF NoStart

LEMMA RunFailsStartsNothing == ASSUME IInv, RunFails PROVE NoStart
<1>0. \A c \in Calls : rec[c] \in Record
  BY DEF IInv, TypeOK
<1>1. ASSUME NEW c \in Calls PROVE AnswerUnanswered(rec[c]).ran = rec[c].ran
  <2>1. Closed(rec[c]) \in Record /\ Closed(rec[c]).ran = rec[c].ran
    BY <1>0 DEF Closed, Consume, Record, Statuses, Results
  <2> QED
    BY <2>1 DEF AnswerUnanswered, Answer, Record
<1> QED
  BY <1>0, <1>1 DEF RunFails, NoStart, Record

LEMMA LoopStartsNothing ==
    ASSUME IInv, Deliver \/ Interrupt
    PROVE  NoStart
<1>0. rec \in [Calls -> Record]
  BY DEF IInv, TypeOK
<1>1. CASE Deliver
  BY <1>0, <1>1 DEF Deliver, NoStart, Answer, Record
<1>2. CASE Interrupt
  <2>1. \A c \in Calls : rec'[c] \in {rec[c], Cancelled(rec[c])}
    BY <1>2 DEF Interrupt
  <2>2. \A c \in Calls : Cancelled(rec[c]).ran = rec[c].ran /\ rec[c].ran \in Nat
    BY <1>0 DEF Cancelled, Consume, Record
  <2>3. \A c \in Calls : rec'[c].ran = rec[c].ran
    BY <2>1, <2>2
  <2> QED
    BY <2>2, <2>3 DEF NoStart
<1> QED
  BY <1>1, <1>2

LEMMA NextConsent ==
    ASSUME IInv, SavedEarlier, [Next]_vars
    PROVE  \A c \in Calls : MayStart(c)
<1>0. \A c \in Calls : rec[c].ran \in Nat /\ saved.rec[c].ran \in Nat
  BY DEF IInv, TypeOK, Record
<1>1. ASSUME IInv', NoStart PROVE \A c \in Calls : MayStart(c)
  BY <1>0, <1>1 DEF MayStart, Starts, NoStart, IInv, TypeOK, Record
<1>2. ASSUME rec' = rec PROVE \A c \in Calls : MayStart(c)
  BY <1>0, <1>2 DEF MayStart, Starts
<1>3. IInv'
  BY NextKeeps
<1>4. CASE \E c \in Calls : Dispatch(c)
  BY <1>4, DispatchConsent
<1>5. CASE \E c \in Calls : Approval(c) \/ UserAnswer(c) \/ FailStale(c)
  BY <1>1, <1>3, <1>5, HostStartsNothing
<1>6. CASE Crash
  BY <1>0, <1>1, <1>3, <1>6 DEF Crash, SavedEarlier, NoStart
<1>7. CASE ModelCalls \/ FailRound \/ StopRun \/ Deliver \/ Interrupt
  BY <1>1, <1>3, <1>7, ModelStartsNothing, RunFailsStartsNothing, LoopStartsNothing DEF FailRound, StopRun
<1>8. CASE NewTask \/ Resume \/ Save \/ Cancel \/ \E t \in Tools : AllowRule(t)
  BY <1>2, <1>8 DEF NewTask, Resume, Save, Cancel, AllowRule, ctxVars
<1>9. CASE ModelEnds \/ EndRound \/ StartBatch \/ CloseBatch \/ RefuseExecuting
  BY <1>2, <1>9 DEF ModelEnds, EndRound, StartBatch, CloseBatch, RefuseExecuting, ctxVars
<1>10. CASE UNCHANGED vars
  BY <1>2, <1>10 DEF vars, ctxVars
<1> QED
  BY <1>4, <1>5, <1>6, <1>7, <1>8, <1>9, <1>10 DEF Next, Host, Loop

\* No tool starts without the consent of the user or of the policy in force,
\* whatever was approved, saved or changed before.
THEOREM NeverWithoutConsent == Spec => StartsWithConsent
<1>1. Init => SavedEarlier
  BY UnregisteredOK DEF Init, SavedEarlier, Context, Record
<1>2. IInv /\ SavedEarlier /\ [Next]_vars
        => [\A c \in Calls : Starts(c) =>
              /\ Verdict(c) # "deny"
              /\ Verdict(c) = "ask" => Status(c) = "approved" /\ ~rec[c].auto]_vars
  BY NextConsent DEF MayStart, Consented
<1> QED
  BY <1>1, <1>2, SavedEarlierKept, Invariance, PTL DEF Spec, StartsWithConsent

-----------------------------------------------------------------------------
(* Who shares its time with whom.  A batch is one call, or read-only calls;  *)
(* its gather gives up only calls of the second kind, so an orphan reads.    *)

SharedOK ==
    /\ clash \subseteq batch
    /\ \A c, d \in batch : c # d => IsReadOnly(c) /\ IsReadOnly(d)
    /\ run \in {"idle", "model"} => batch = {}
    /\ \A c \in Calls \ Children : step[c] # "idle" => IsReadOnly(c)
    /\ broken => \A c \in Children : step[c] \in {"returned", "raised"} \/ IsReadOnly(c)

\* A registered call keeps its tool until a crash.
ToolsKept == \A c \in 1..count : IsReadOnly(c)' = IsReadOnly(c)

LEMMA StepKeepsTools == ASSUME IInv, Next, ~Save, ~Crash PROVE ToolsKept
<1>1. \A c \in 1..count : c \in Calls
  BY ConstantsAssumption DEF IInv, TypeOK, Calls
<1>2. \A c \in 1..count : rec'[c].tool = rec[c].tool
  BY <1>1, StepKeeps, RecStepKeeps DEF IInv, TypeOK, ContextOK
<1> QED
  BY <1>2 DEF ToolsKept, IsReadOnly

\* The calls in question are registered.
LEMMA SharedRegistered ==
    ASSUME IInv PROVE batch \subseteq 1..count /\ \A c \in Calls : step[c] # "idle" => c \in 1..count
  BY DEF IInv, RoundOK, StepOK

LEMMA SharedAside ==
    ASSUME IInv, SharedOK, ToolsKept, UNCHANGED <<batch, clash, broken, step>>,
           run' \in {"idle", "model"} => batch = {}
    PROVE  SharedOK'
  BY SharedRegistered DEF SharedOK, ToolsKept, Children

\* Before a round no call has a batch.
LEMMA SharedBegins ==
    ASSUME IInv, SharedOK, ToolsKept, run \in {"idle", "model"}, NEW S, BeginRound(S), step' = step
    PROVE  SharedOK'
  BY SharedRegistered DEF SharedOK, ToolsKept, Children, BeginRound

LEMMA NextBatchShares ==
    ASSUME NEW S \in SUBSET Calls, NEW c \in NextBatch(S), NEW d \in NextBatch(S), c # d
    PROVE  IsReadOnly(c) /\ IsReadOnly(d)
<1>1. c \in Nat /\ d \in Nat /\ c \in S /\ d \in S
  BY ConstantsAssumption DEF NextBatch, Calls
<1>2. CASE c < d
  BY <1>1, <1>2 DEF NextBatch
<1>3. CASE d < c
  BY <1>1, <1>3 DEF NextBatch
<1> QED
  BY <1>1, <1>2, <1>3

LEMMA SharedStarts ==
    ASSUME IInv, SharedOK, ToolsKept, StartBatch PROVE SharedOK'
<1>1. /\ batch = {} /\ batch' = NextBatch(rest) /\ ~broken /\ broken' = broken
      /\ rec' = rec /\ run' = "tools"
      /\ clash' = {c \in batch' : Status(c) = "executing" \/ step[c] # "idle"}
      /\ step' = [c \in Calls |-> IF c \in batch' \ clash' THEN "slot" ELSE step[c]]
  BY DEF StartBatch, Producing, ctxVars
<1>2. \A c, d \in batch' : c # d => IsReadOnly(c)' /\ IsReadOnly(d)'
  BY <1>1, NextBatchShares DEF IInv, TypeOK, IsReadOnly
<1>3. \A c \in Calls : c \notin batch' \ clash' => step'[c] = step[c]
  BY <1>1
<1>4. \A c \in Calls : step[c] # "idle" => IsReadOnly(c)'
  BY <1>1 DEF SharedOK, Children, IsReadOnly
<1> QED
  BY <1>1, <1>2, <1>3, <1>4 DEF SharedOK, Children

LEMMA SharedCloses ==
    ASSUME IInv, SharedOK, ToolsKept, CloseBatch PROVE SharedOK'
<1>1. /\ clash = {} /\ clash' = {} /\ batch' = {} /\ ~broken /\ broken' = broken /\ rec' = rec
      /\ step' = [c \in Calls |-> IF c \in batch THEN "idle" ELSE step[c]]
  BY DEF CloseBatch, Producing, ctxVars
<1>2. \A c \in Calls : step'[c] # "idle" => c \notin batch /\ step[c] # "idle"
  BY <1>1
<1> QED
  BY <1>1, <1>2 DEF SharedOK, Children, IsReadOnly

\* What a run that ends leaves running was a batch of read-only calls.
LEMMA SharedAbandons ==
    ASSUME IInv, SharedOK, ToolsKept, FailRound \/ StopRun PROVE SharedOK'
<1>1. /\ batch' = {} /\ clash' = {} /\ ~broken'
      /\ step' = [c \in Calls |-> IF c \in Children /\ step[c] \in {"returned", "raised"}
                                   THEN "idle" ELSE step[c]]
  BY DEF FailRound, StopRun, RunFails
<1>2. ASSUME NEW c \in Calls, step'[c] # "idle" PROVE IsReadOnly(c)
  <2>1. step[c] # "idle" /\ (c \in Children => step[c] \notin {"returned", "raised"})
    BY <1>1, <1>2
  <2>2. CASE c \notin Children
    BY <2>1, <2>2 DEF SharedOK
  <2>3. CASE c \in Children /\ broken
    BY <2>1, <2>3 DEF SharedOK
  <2>4. CASE c \in Children /\ ~broken
    <3>1. PICK d \in Children : step[d] = "raised"
      BY <2>1, <2>4 DEF FailRound, StopRun, ProducerDone
    <3>2. c # d /\ c \in batch /\ d \in batch
      BY <2>1, <2>4, <3>1 DEF Children
    <3> QED
      BY <3>2 DEF SharedOK
  <2> QED
    BY <2>2, <2>3, <2>4
<1>3. \A c \in Calls : step'[c] # "idle" => step[c] # "idle"
  BY <1>1
<1> QED
  BY <1>1, <1>2, <1>3, SharedRegistered DEF SharedOK, Children, ToolsKept

LEMMA SharedInterrupted ==
    ASSUME IInv, SharedOK, ToolsKept, Interrupt PROVE SharedOK'
<1>1. UNCHANGED <<batch, clash, broken, run>> /\ ~broken
  BY DEF Interrupt, Aside
<1>2. \A c \in Calls : c \notin Children => step'[c] = step[c]
  BY DEF Interrupt
<1> QED
  BY <1>1, <1>2, SharedRegistered DEF SharedOK, Children, ToolsKept

\* A coroutine that raises breaks only the gather it is a child of.
LEMMA DispatchBreaks ==
    ASSUME IInv, NEW c \in Calls, Dispatch(c)
    PROVE  /\ step[c] \notin {"idle", "returned", "raised"}
           /\ broken' = broken \/ (c \in Children /\ step'[c] = "raised")
<1>1. step[c] \notin {"idle", "returned", "raised"}
  BY DEF Dispatch, ReturnExisting, ReturnEarly, AskUser, AskApproval, Undecided, Admitted,
         Proceed, HookPasses, HookBlocks, HookTooLate, ToolEnds, HookResponds, HookRaises, Unwound
<1>2. CASE \E how \in {"returned", "raised"} : Settle(c, how)
  <2>1. step \in [Calls -> Steps] /\ broken \in BOOLEAN
    BY DEF IInv, TypeOK
  <2>2. PICK how \in {"returned", "raised"} : Settle(c, how)
    BY <1>2
  <2>3. broken' = broken \/ (c \in Children /\ how = "raised")
    BY <2>1, <2>2 DEF Settle
  <2>4. c \in Children => step'[c] = how
    BY <2>1, <2>2 DEF Settle
  <2> QED
    BY <1>1, <2>3, <2>4
<1>3. CASE UNCHANGED broken
  BY <1>1, <1>3
<1>4. UNCHANGED broken \/ \E how \in {"returned", "raised"} : Settle(c, how)
  BY DEF Dispatch, ReturnExisting, ReturnEarly, AskUser, AskApproval, Finish,
         Proceed, HookPasses, HookBlocks, HookTooLate, ToolEnds, HookResponds, HookRaises, Unwound
<1> QED
  BY <1>1, <1>2, <1>3, <1>4

LEMMA SharedDispatched ==
    ASSUME IInv, SharedOK, ToolsKept, NEW c \in Calls, Dispatch(c) PROVE SharedOK'
<1>1. UNCHANGED <<batch, clash, run>> /\ step' = [step EXCEPT ![c] = step'[c]]
  BY DispatchSteps DEF DispatchEffect, Aside
<1>2. /\ step[c] \notin {"idle", "returned", "raised"}
      /\ broken' = broken \/ (c \in Children /\ step'[c] = "raised")
  BY DispatchBreaks
<1>3. \A d \in Calls : d # c => step'[d] = step[d]
  BY <1>1 DEF IInv, TypeOK
<1>4. \A d \in 1..count : IsReadOnly(d)' = IsReadOnly(d)
  BY DEF ToolsKept
<1>5. ASSUME NEW d \in Calls \ Children, step'[d] # "idle" PROVE IsReadOnly(d)'
  BY <1>2, <1>3, <1>4, <1>5, SharedRegistered DEF SharedOK
<1>6. ASSUME broken', NEW d \in Children, step'[d] \notin {"returned", "raised"} PROVE IsReadOnly(d)'
  <2>1. d \in Calls /\ d \in batch /\ d \in 1..count
    BY SharedRegistered DEF Children, IInv, TypeOK
  <2>2. CASE broken
    BY <1>2, <1>3, <1>4, <1>6, <2>1, <2>2 DEF SharedOK
  <2>3. CASE c \in Children /\ step'[c] = "raised"
    BY <1>4, <1>6, <2>1, <2>3 DEF SharedOK, Children
  <2> QED
    BY <1>2, <1>6, <2>2, <2>3
<1>7. \A d, e \in batch : d # e => IsReadOnly(d)' /\ IsReadOnly(e)'
  BY <1>4, SharedRegistered DEF SharedOK
<1>8. Children' = Children
  BY <1>1 DEF Children
<1> QED
  BY <1>1, <1>5, <1>6, <1>7, <1>8 DEF SharedOK

LEMMA SharedKept == IInv /\ SharedOK /\ [Next]_vars => SharedOK'
<1> SUFFICES ASSUME IInv, SharedOK, [Next]_vars PROVE SharedOK'
  OBVIOUS
<1>1. CASE Save \/ UNCHANGED vars
  <2>1. UNCHANGED <<rec, count, run, batch, clash, broken, step>>
    BY <1>1 DEF Save, vars, ctxVars, roundVars
  <2> QED
    BY <2>1, SharedAside DEF SharedOK, ToolsKept, IsReadOnly
<1>2. CASE Crash
  BY <1>2 DEF Crash, SharedOK, Children
<1>3. CASE Next /\ ~Save /\ ~Crash
  <2>0. ToolsKept
    BY <1>3, StepKeepsTools
  <2>1. CASE NewTask \/ Cancel \/ ModelEnds \/ \E t \in Tools : AllowRule(t)
    BY <2>0, <2>1, SharedAside DEF NewTask, Cancel, ModelEnds, AllowRule, roundVars, SharedOK
  <2>2. CASE \E c \in Calls : Approval(c) \/ UserAnswer(c) \/ FailStale(c)
    BY <2>0, <2>2, SharedAside DEF Approval, UserAnswer, FailStale, HostApplies, roundVars, SharedOK
  <2>3. CASE Deliver \/ EndRound
    BY <2>0, <2>3, SharedAside DEF Deliver, EndRound
  <2>4. CASE Resume
    <3>1. run = "idle" /\ step' = step
      BY <2>4 DEF Resume
    <3>2. (run' = "model" /\ UNCHANGED roundVars) \/ \E S : BeginRound(S)
      BY <2>4 DEF Resume
    <3> QED
      BY <2>0, <3>1, <3>2, SharedAside, SharedBegins DEF roundVars, SharedOK
  <2>5. CASE ModelCalls
    <3>1. run = "model" /\ step' = step /\ \E S : BeginRound(S)
      BY <2>5 DEF ModelCalls
    <3> QED
      BY <2>0, <3>1, SharedBegins
  <2>6. CASE StartBatch \/ CloseBatch \/ FailRound \/ StopRun \/ Interrupt
    BY <2>0, <2>6, SharedStarts, SharedCloses, SharedAbandons, SharedInterrupted
  <2>7. CASE RefuseExecuting
    <3>1. UNCHANGED <<batch, clash, run, step>> /\ clash # {}
      BY <2>7 DEF RefuseExecuting, Aside
    <3>2. \A c \in Children : IsReadOnly(c)
      BY <3>1 DEF SharedOK, Children
    <3> QED
      BY <2>0, <3>1, <3>2, SharedRegistered DEF SharedOK, ToolsKept, Children
  <2>8. CASE \E c \in Calls : Dispatch(c)
    BY <2>0, <2>8, SharedDispatched
  <2> QED
    BY <1>3, <2>1, <2>2, <2>3, <2>4, <2>5, <2>6, <2>7, <2>8 DEF Next, Host, Loop
<1> QED
  BY <1>1, <1>2, <1>3

\* For any number of calls and tools, any policy and all faults: a tool that is
\* not read-only meets at most read-only orphans of an abandoned batch, never
\* another that writes (_batches, run_batch, the EXECUTING check of dispatch).
THEOREM WritesMeetOnlyOrphans == Spec => []WritesMeetOrphansOnly
<1>1. Init => SharedOK
  BY DEF Init, SharedOK, Children
<1>2. SharedOK => WritesMeetOrphansOnly
  BY DEF SharedOK, WritesMeetOrphansOnly, Running, Children
<1> QED
  BY <1>1, <1>2, SharedKept, Invariance, PTL DEF Spec

-----------------------------------------------------------------------------
(* An EXECUTING record has a coroutine that will settle it, except after a   *)
(* hook that raised or was cancelled, or a restart.                          *)

ExecutingHere ==
    \A c \in Calls : Status(c) = "executing" => step[c] \in {"running", "response", "unwinding"}

NoHookFails == Faults \cap {"hook_raises", "hook_cancel"} = {}

LEMMA DispatchSettles ==
    ASSUME IInv, ExecutingHere, NoHookFails, NEW c \in Calls, Dispatch(c)
    PROVE  ExecutingHere'
<1>0. /\ TypeOK /\ rec \in [Calls -> Record] /\ rec[c] \in Record /\ StepOK(c)
      /\ step \in [Calls -> Steps]
  BY DEF IInv, TypeOK
<1>1. DispatchEffect(c)
  BY DispatchSteps
<1>2. \A d \in Calls : d # c => rec'[d] = rec[d] /\ step'[d] = step[d]
  BY <1>0, <1>1 DEF DispatchEffect
<1>3. rec'[c].status = "executing" => step'[c] \in {"running", "response", "unwinding"}
  <2>1. CASE \E result \in Results : Finish(c, result)
    BY <1>0, <2>1 DEF Finish, Consume, Record
  <2>2. CASE ReturnExisting(c) \/ AskApproval(c) \/ HookTooLate(c)
    BY <2>2 DEF ReturnExisting, AskApproval, HookTooLate, Status
  <2>3. CASE ReturnEarly(c) \/ HookBlocks(c) \/ HookResponds(c)
    <3>1. EarlyResult(rec[c], Verdict(c)) \in Results
      BY DEF EarlyResult, Results
    <3> QED
      BY <2>1, <2>3, <3>1 DEF ReturnEarly, HookBlocks, HookResponds, Results, Returns
  <2>4. CASE AskUser(c) \/ Unwound(c)
    BY <1>0, <2>4 DEF AskUser, Unwound, AwaitUserInput, Cancelled, Consume, Record
  <2>5. CASE Proceed(c)
    <3>1. CASE Hooks
      <4>1. rec[c].status # "executing" /\ rec'[c] = Cleared(rec[c])
        BY <1>0, <2>5, <3>1 DEF Proceed, Undecided, Admitted, StepOK, Status
      <4> QED
        BY <1>0, <4>1 DEF Cleared, AutoApprove, Record
    <3>2. CASE ~Hooks
      BY <1>0, <2>5, <3>2 DEF Proceed
    <3> QED
      BY <3>1, <3>2
  <2>6. CASE HookPasses(c)
    BY <1>0, <2>6 DEF HookPasses
  <2>7. CASE ToolEnds(c)
    <3>1. CASE Hooks
      BY <1>0, <2>7, <3>1 DEF ToolEnds
    <3>2. CASE ~Hooks
      BY <2>1, <2>7, <3>2 DEF ToolEnds, Results, Returns
    <3> QED
      BY <3>1, <3>2
  <2>8. ~HookRaises(c)
    BY DEF NoHookFails, HookRaises
  <2> QED
    BY <2>2, <2>3, <2>4, <2>5, <2>6, <2>7, <2>8 DEF Dispatch
<1> QED
  BY <1>2, <1>3 DEF ExecutingHere, Status

LEMMA RoundSettles ==
    ASSUME IInv, ExecutingHere, NoHookFails,
           StartBatch \/ CloseBatch \/ Deliver \/ Interrupt \/ FailRound \/ StopRun
    PROVE  ExecutingHere'
<1>0. TypeOK /\ RoundOK /\ rec \in [Calls -> Record] /\ step \in [Calls -> Steps]
  BY DEF IInv, TypeOK
<1>1. CASE StartBatch
  BY <1>1 DEF StartBatch, ctxVars, ExecutingHere, Status
<1>2. CASE CloseBatch
  <2>1. rec' = rec /\ \A c \in batch : step[c] = "returned"
    BY <1>2 DEF CloseBatch, ctxVars
  <2>2. \A c \in Calls : c \notin batch => step'[c] = step[c]
    BY <1>2 DEF CloseBatch
  <2> QED
    BY <2>1, <2>2 DEF ExecutingHere, Status
<1>3. CASE Deliver
  <2>1. step' = step /\ \A c \in Calls : rec'[c].status = rec[c].status
    BY <1>0, <1>3 DEF Deliver, Answer, Record
  <2> QED
    BY <2>1 DEF ExecutingHere, Status
<1>4. CASE Interrupt
  <2> DEFINE live == {c \in Children : step[c] \in {"slot", "request", "running", "response"}}
  <2>1. PICK slow \in SUBSET {c \in live : step[c] = "running"} :
          /\ step' = [c \in Calls |-> IF c \in slow THEN "unwinding"
                                       ELSE IF c \in live THEN "raised" ELSE step[c]]
          /\ rec' = [c \in Calls |-> IF c \in live \ slow /\ step[c] = "running"
                                      THEN Cancelled(rec[c]) ELSE rec[c]]
    BY <1>4 DEF Interrupt
  <2>2. \A c \in live : step[c] # "response"
    BY <1>4 DEF Interrupt, NoHookFails
  <2>3. \A c \in Calls : Cancelled(rec[c]).status = "consumed"
    BY <1>0 DEF Cancelled, Consume, Record
  <2>4. ASSUME NEW c \in Calls, rec'[c].status = "executing"
        PROVE  step'[c] \in {"running", "response", "unwinding"}
    <3>1. rec'[c] = rec[c] /\ ~(c \in live \ slow /\ step[c] = "running")
      BY <2>1, <2>3, <2>4
    <3>2. step[c] \in {"running", "response", "unwinding"}
      BY <2>4, <3>1 DEF ExecutingHere, Status
    <3> QED
      BY <2>1, <2>2, <3>1, <3>2
  <2> QED
    BY <2>4 DEF ExecutingHere, Status
<1>5. CASE FailRound \/ StopRun
  <2>1. /\ step' = [c \in Calls |-> IF c \in Children /\ step[c] \in {"returned", "raised"}
                                     THEN "idle" ELSE step[c]]
        /\ \A c \in Calls : rec'[c] \in {rec[c], AnswerUnanswered(rec[c])}
    BY <1>5 DEF FailRound, StopRun, RunFails
  <2>2. \A c \in Calls : rec'[c].status = "executing" => rec[c].status = "executing"
    BY <1>0, <2>1, AnswerUnansweredStatus
  <2> QED
    BY <2>1, <2>2 DEF ExecutingHere, Status
<1> QED
  BY <1>1, <1>2, <1>3, <1>4, <1>5

LEMMA ExecutingHereKept ==
    ASSUME NoHookFails, MaxRestarts = 0, IInv, ExecutingHere, [Next]_vars PROVE ExecutingHere'
<1>0. TypeOK /\ rec \in [Calls -> Record]
  BY DEF IInv, TypeOK
<1>1. CASE UNCHANGED <<rec, step>>
  BY <1>1 DEF ExecutingHere, Status
<1>2. CASE NewTask \/ Resume \/ Save \/ Cancel \/ (\E t \in Tools : AllowRule(t)) \/ UNCHANGED vars
  BY <1>1, <1>2 DEF NewTask, Resume, Save, Cancel, AllowRule, ctxVars, vars
<1>3. CASE ModelEnds \/ EndRound \/ RefuseExecuting
  BY <1>1, <1>3 DEF ModelEnds, EndRound, RefuseExecuting, ctxVars
<1>4. CASE Crash
  BY <1>0, <1>4 DEF Crash, TypeOK
<1>5. ASSUME NEW c \in Calls, Approval(c) \/ UserAnswer(c) \/ FailStale(c) PROVE ExecutingHere'
  <2>1. PICK r \in {Approve(rec[c]), Reject(rec[c]), ApplyUserAnswer(rec[c]), Consume(rec[c], "failed")} :
          rec' = [rec EXCEPT ![c] = r]
    BY <1>5 DEF Approval, UserAnswer, FailStale, HostApplies
  <2>2. r.status # "executing" /\ step' = step
    BY <1>0, <1>5, <2>1 DEF Approve, Reject, ApplyUserAnswer, Consume, Record,
                            Approval, UserAnswer, FailStale, HostApplies
  <2> QED
    BY <1>0, <2>1, <2>2 DEF ExecutingHere, Status
<1>6. CASE ModelCalls
  <2>1. step' = step /\ \A c \in Calls : rec'[c] = rec[c] \/ \E t, i : rec'[c] = Proposed(t, i)
    BY <1>6, NewCalls DEF ModelCalls
  <2>2. \A t, i : Proposed(t, i).status = "pending"
    BY DEF Proposed, Unregistered
  <2>3. \A c \in Calls : rec'[c].status = "executing" => rec'[c] = rec[c]
    BY <2>1, <2>2
  <2> QED
    BY <2>1, <2>3 DEF ExecutingHere, Status
<1>7. CASE \E c \in Calls : Dispatch(c)
  BY <1>7, DispatchSettles
<1>8. CASE StartBatch \/ CloseBatch \/ Deliver \/ Interrupt \/ FailRound \/ StopRun
  BY <1>8, RoundSettles
<1> QED
  BY <1>2, <1>3, <1>4, <1>5, <1>6, <1>7, <1>8 DEF Next, Host, Loop

\* While no hook of a middleware raises or is cancelled and the process lives,
\* a record that is EXECUTING between runs has a coroutine that settles it:
\* slow tools, cancelled rounds and repeated ids leave none behind (_dispatch,
\* its except branches, _answer_unanswered).
THEOREM NothingStaysExecuting ==
    ASSUME NoHookFails, MaxRestarts = 0
    PROVE  Spec => []NoStuckExecution
<1>1. Init => ExecutingHere
  BY DEF Init, ExecutingHere, Status, Unregistered
<1>2. IInv /\ ExecutingHere => NoStuckExecution
  BY DEF IInv, ContextOK, TypeOK, ExecutingHere, NoStuckExecution
<1>3. IInv /\ ExecutingHere /\ [Next]_vars => ExecutingHere'
  BY ExecutingHereKept
<1> QED
  BY <1>1, <1>2, <1>3, Invariance, PTL DEF Spec

-----------------------------------------------------------------------------
(* Order.  While ids are unique, the batches leave a round from its first    *)
(* call on, what left is over or waits for the user, and what an abandoned   *)
(* round left in front of a tool finds its record closed.                    *)

NoRepeats == "repeat_ids" \notin Faults

IdsOK(calls, n) == \A c \in 1..n : calls[c].id = c

Dispatched == round \ (rest \cup batch)

\* Where the calls of the round are.
PlacesOK ==
    /\ run \in {"idle", "model"} => round = {}
    /\ \A c \in round \ rest : \A d \in rest : c < d
    /\ \A c \in Dispatched :
          /\ \A d \in batch : c < d
          /\ step[c] = "idle"
          /\ \/ Status(c) \in Waiting
             \/ Status(c) = "consumed" /\ (c \in queued \/ rec[c].answers > 0)

\* Where the coroutines are.
CoroutineOK(c) ==
    /\ c \notin Children /\ step[c] \in {"slot", "request"} => Status(c) = "consumed"
    /\ step[c] = "returned" => c \in Children /\ Status(c) \in Waiting \cup {"consumed"}

OrderOK ==
    /\ IdsOK(rec, count) /\ IdsOK(saved.rec, saved.count)
    /\ PlacesOK
    /\ \A c \in Calls : CoroutineOK(c)

Sound == IInv /\ SharedOK /\ OrderOK

LEMMA StepKeepsIds ==
    ASSUME Sound, NoRepeats, Next, ~Save, ~Crash
    PROVE  IdsOK(rec, count)' /\ IdsOK(saved.rec, saved.count)'
<1>0. 1..count \subseteq Calls
  BY ConstantsAssumption DEF Sound, IInv, TypeOK, Calls
<1>1. saved' = saved /\ \A c \in 1..count : rec'[c].id = c
  BY <1>0, StepKeeps, RecStepKeeps DEF Sound, IInv, TypeOK, ContextOK, OrderOK, IdsOK
<1>2. CASE count' = count
  BY <1>1, <1>2 DEF Sound, OrderOK, IdsOK
<1>3. CASE ModelCalls
  <2>0. count \in Nat /\ MaxCalls \in Nat
    BY ConstantsAssumption DEF Sound, IInv, TypeOK
  <2>1. PICK k \in 1..MaxRound :
          /\ count + k <= MaxCalls /\ count' = count + k
          /\ \A c \in Calls : c \in count + 1 .. count + k =>
                \E t, i : FreshId(i, c) /\ rec'[c] = Proposed(t, i)
    BY <1>3, NewCalls
  <2>2. k \in Nat
    BY <2>1, ConstantsAssumption
  <2>3. ASSUME NEW c \in count + 1 .. count + k PROVE rec'[c].id = c
    <3>1. PICK t, i : FreshId(i, c) /\ rec'[c] = Proposed(t, i)
      BY <2>0, <2>1, <2>2, <2>3 DEF Calls
    <3>2. i = c
      BY <3>1 DEF FreshId, NoRepeats
    <3> QED
      BY <3>1, <3>2 DEF Proposed, Unregistered
  <2>4. \A c \in 1..count' : c \in 1..count \/ c \in count + 1 .. count + k
    BY <2>0, <2>1, <2>2
  <2> QED
    BY <1>1, <2>3, <2>4 DEF Sound, OrderOK, IdsOK
<1>4. count' = count \/ ModelCalls
  BY DispatchSteps DEF Next, Host, Loop, NewTask, Resume, Cancel, Approval, UserAnswer, FailStale,
     HostApplies, AllowRule, ModelEnds, EndRound, FailRound, StopRun, RunFails, StartBatch,
     CloseBatch, Deliver, RefuseExecuting, Interrupt, Aside, ctxVars, Sound
<1> QED
  BY <1>2, <1>3, <1>4

\* Between two rounds there is no call to place and no child.
LEMMA BetweenRounds ==
    ASSUME Sound, run \in {"idle", "model"}
    PROVE  round = {} /\ batch = {} /\ Children = {} /\ \A c \in Calls : step[c] # "returned"
  BY DEF Sound, SharedOK, OrderOK, PlacesOK, Children, CoroutineOK

LEMMA PlacedAside ==
    ASSUME Sound, UNCHANGED <<rec, round, rest, batch, clash, queued, step>>,
           run' \in {"idle", "model"} => round = {}
    PROVE  PlacesOK' /\ \A c \in Calls : CoroutineOK(c)'
  BY DEF Sound, OrderOK, PlacesOK, CoroutineOK, Dispatched, Children, Status

LEMMA PlacedHost ==
    ASSUME Sound, NEW c \in Calls, Approval(c) \/ UserAnswer(c) \/ FailStale(c)
    PROVE  PlacesOK' /\ \A d \in Calls : CoroutineOK(d)'
<1>1. /\ run = "idle" /\ UNCHANGED <<run, round, rest, batch, clash, queued, step>>
      /\ \A d \in Calls : d # c => rec'[d] = rec[d]
      /\ Status(c) \in {"pending", "input"} \/ step[c] = "idle"
  BY DEF Approval, UserAnswer, FailStale, HostApplies, roundVars, Sound, IInv, TypeOK
<1>2. round = {} /\ Children = {} /\ \A d \in Calls : step[d] # "returned"
  BY <1>1, BetweenRounds
<1>3. PlacesOK'
  BY <1>1, <1>2 DEF PlacesOK, Dispatched
<1>4. \A d \in Calls : d # c => CoroutineOK(d)'
  BY <1>1, <1>2 DEF Sound, OrderOK, CoroutineOK, Children, Status
<1>5. step[c] \notin {"slot", "request"}
  BY <1>1, <1>2 DEF Sound, OrderOK, CoroutineOK
<1> QED
  BY <1>1, <1>2, <1>3, <1>4, <1>5 DEF CoroutineOK

LEMMA PlacedBegins ==
    ASSUME Sound, run \in {"idle", "model"}, NEW S, BeginRound(S), step' = step,
           \A c \in Calls : step[c] # "idle" => rec'[c] = rec[c]
    PROVE  PlacesOK' /\ \A c \in Calls : CoroutineOK(c)'
<1>1. Children = {} /\ Children' = {} /\ \A c \in Calls : step[c] # "returned"
  BY BetweenRounds DEF BeginRound, Children
<1>2. PlacesOK'
  BY DEF PlacesOK, Dispatched, BeginRound
<1> QED
  BY <1>1, <1>2 DEF Sound, OrderOK, CoroutineOK, Status

\* NextBatch takes the first calls.
LEMMA NextBatchFirst ==
    ASSUME NEW S \in SUBSET Calls, NEW c \in NextBatch(S), NEW d \in S \ NextBatch(S)
    PROVE  c < d
<1>1. c \in Nat /\ d \in Nat /\ \A e \in S : e \in Nat
  BY ConstantsAssumption DEF NextBatch, Calls
<1>2. ASSUME d < c PROVE d \in NextBatch(S)
  <2>1. ASSUME NEW e \in S, e < d PROVE IsReadOnly(e) /\ IsReadOnly(d)
    BY <1>1, <1>2, <2>1 DEF NextBatch
  <2> QED
    BY <2>1 DEF NextBatch
<1> QED
  BY <1>1, <1>2

LEMMA PlacedStarts ==
    ASSUME Sound, StartBatch
    PROVE  PlacesOK' /\ \A c \in Calls : CoroutineOK(c)'
<1>0. rest \in SUBSET Calls /\ batch = {}
  BY DEF Sound, IInv, TypeOK, StartBatch
<1>1. /\ rec' = rec /\ round' = round /\ queued' = queued /\ run' = "tools"
      /\ batch' = NextBatch(rest) /\ rest' = rest \ batch' /\ batch' \subseteq rest
      /\ clash' \subseteq batch'
      /\ step' = [c \in Calls |-> IF c \in batch' \ clash' THEN "slot" ELSE step[c]]
  BY NextBatchOK DEF StartBatch, Producing, ctxVars
<1>2. \A c \in Calls : c \notin Children' => step'[c] = step[c]
  BY <1>1 DEF Children
<1>3. ASSUME NEW c \in Calls PROVE CoroutineOK(c)'
  <2>1. CASE c \in Children'
    BY <1>1, <2>1 DEF CoroutineOK, Children
  <2>2. CASE c \notin Children'
    <3>1. c \notin Children
      BY <1>0 DEF Children
    <3> QED
      BY <1>1, <1>2, <2>2, <3>1 DEF Sound, OrderOK, CoroutineOK, Status
  <2> QED
    BY <2>1, <2>2
<1>4. Dispatched' = round \ rest /\ Dispatched = round \ rest
  BY <1>0, <1>1 DEF Dispatched
<1>5. \A c \in round' \ rest' : \A d \in rest' : c < d
  BY <1>0, <1>1, NextBatchFirst DEF Sound, OrderOK, PlacesOK
<1>6. ASSUME NEW c \in Dispatched'
      PROVE  /\ \A d \in batch' : c < d
             /\ step'[c] = "idle"
             /\ \/ Status(c)' \in Waiting
                \/ Status(c)' = "consumed" /\ (c \in queued' \/ rec'[c].answers > 0)
  <2>1. c \in Calls /\ c \notin batch'
    BY <1>1, <1>4 DEF Sound, IInv, TypeOK
  <2> QED
    BY <1>1, <1>4, <2>1 DEF Sound, OrderOK, PlacesOK, Status
<1> QED
  BY <1>1, <1>3, <1>5, <1>6 DEF PlacesOK

LEMMA PlacedCloses ==
    ASSUME Sound, CloseBatch
    PROVE  PlacesOK' /\ \A c \in Calls : CoroutineOK(c)'
<1>1. /\ rec' = rec /\ round' = round /\ rest' = rest /\ run' = "tools"
      /\ clash = {} /\ clash' = {} /\ batch' = {} /\ Children = batch
      /\ queued' = queued \cup {c \in batch : Status(c) = "consumed"}
      /\ \A c \in batch : step[c] = "returned"
      /\ step' = [c \in Calls |-> IF c \in batch THEN "idle" ELSE step[c]]
  BY DEF CloseBatch, Producing, ctxVars, Children
<1>2. batch \subseteq Calls /\ batch \subseteq round /\ round \subseteq Calls
  BY DEF Sound, IInv, TypeOK, RoundOK
<1>3. \A c \in Calls : CoroutineOK(c)'
  BY <1>1 DEF Sound, OrderOK, CoroutineOK, Status, Children
<1>4. ASSUME NEW c \in Dispatched'
      PROVE  /\ step'[c] = "idle"
             /\ \/ Status(c)' \in Waiting
                \/ Status(c)' = "consumed" /\ (c \in queued' \/ rec'[c].answers > 0)
  <2>1. c \in Calls /\ (c \in batch \/ c \in Dispatched)
    BY <1>1, <1>2 DEF Dispatched
  <2>2. CASE c \in batch
    BY <1>1, <1>2, <2>1, <2>2 DEF Sound, OrderOK, CoroutineOK, Status
  <2>3. CASE c \in Dispatched /\ c \notin batch
    BY <1>1, <2>1, <2>3 DEF Sound, OrderOK, PlacesOK, Status
  <2> QED
    BY <2>1, <2>2, <2>3
<1> QED
  BY <1>1, <1>3, <1>4 DEF PlacesOK, Sound, OrderOK

LEMMA PlacedDelivers ==
    ASSUME Sound, Deliver
    PROVE  PlacesOK' /\ \A c \in Calls : CoroutineOK(c)'
<1>0. rec \in [Calls -> Record] /\ queued \subseteq Calls /\ round \subseteq Calls
  BY DEF Sound, IInv, TypeOK
<1>1. PICK c \in queued : rec' = [rec EXCEPT ![c] = Answer(@)] /\ queued' = queued \ {c}
  BY DEF Deliver
<1>2. UNCHANGED <<run, round, rest, batch, clash, step>> /\ run' = "tools"
  BY DEF Deliver
<1>3. /\ \A d \in Calls : rec'[d].status = rec[d].status /\ rec'[d].answers >= rec[d].answers
      /\ rec'[c].answers > 0
  BY <1>0, <1>1 DEF Answer, Record
<1>4. \A d \in Calls : CoroutineOK(d)'
  BY <1>2, <1>3 DEF Sound, OrderOK, CoroutineOK, Status, Children
<1>5. ASSUME NEW d \in Dispatched
      PROVE  \/ Status(d)' \in Waiting
             \/ Status(d)' = "consumed" /\ (d \in queued' \/ rec'[d].answers > 0)
  <2>1. d \in Calls /\ rec[d].answers \in Nat /\ rec'[d].answers \in Nat
    BY <1>0, <1>1 DEF Dispatched, Record, Answer
  <2> QED
    BY <1>1, <1>3, <2>1 DEF Sound, OrderOK, PlacesOK, Status
<1>6. Dispatched' = Dispatched
  BY <1>2 DEF Dispatched
<1> QED
  BY <1>2, <1>4, <1>5, <1>6 DEF Sound, OrderOK, PlacesOK

\* A call that has no answer is none of the answered ids.
LEMMA UnansweredId ==
    ASSUME Sound, NEW c \in 1..count, rec[c].answers = 0 PROVE rec[c].id \notin AnsweredIds
<1> SUFFICES ASSUME NEW d \in 1..count, rec[d].answers > 0, rec[d].id = rec[c].id PROVE FALSE
  BY DEF AnsweredIds, Registered
<1>1. d = c
  BY DEF Sound, OrderOK, IdsOK
<1> QED
  BY <1>1

\* An abandoned call in front of its tool is closed.
LEMMA PlacedAbandons ==
    ASSUME Sound, FailRound \/ StopRun
    PROVE  PlacesOK' /\ \A c \in Calls : CoroutineOK(c)'
<1>0. rec \in [Calls -> Record] /\ Children \subseteq round /\ round \subseteq 1..count
  BY DEF Sound, IInv, TypeOK, RoundOK, Children
<1>1. /\ round' = {} /\ Children' = {}
      /\ step' = [c \in Calls |-> IF c \in Children /\ step[c] \in {"returned", "raised"}
                                   THEN "idle" ELSE step[c]]
      /\ rec' = [c \in Calls |-> IF c \in round /\ rec[c].id \notin AnsweredIds
                                  THEN AnswerUnanswered(rec[c]) ELSE rec[c]]
  BY DEF FailRound, StopRun, RunFails, Children
<1>2. ASSUME NEW c \in Calls, step'[c] \in {"slot", "request"} PROVE rec'[c].status = "consumed"
  <2>1. step[c] = step'[c] /\ rec[c] \in Record
    BY <1>0, <1>1, <1>2
  <2>2. CASE c \notin Children
    <3>1. rec[c].status = "consumed"
      BY <1>2, <2>1, <2>2 DEF Sound, OrderOK, CoroutineOK, Status
    <3> QED
      BY <1>1, <2>1, <3>1, AnswerUnansweredStatus
  <2>3. CASE c \in Children
    <3>1. c \in round /\ c \in 1..count /\ rec[c].answers = 0
      BY <1>0, <2>3 DEF Sound, IInv, RoundOK, Children
    <3>2. rec'[c] = AnswerUnanswered(rec[c])
      BY <1>1, <3>1, UnansweredId
    <3>3. rec[c].status # "executing"
      BY <1>2, <2>1 DEF Sound, IInv, StepOK, Status
    <3> QED
      BY <2>1, <3>2, <3>3, AnswerUnansweredStatus
  <2> QED
    BY <2>2, <2>3
<1>3. \A c \in Calls : step'[c] # "returned"
  BY <1>1 DEF Sound, OrderOK, CoroutineOK
<1>4. PlacesOK'
  BY <1>1 DEF PlacesOK, Dispatched
<1> QED
  BY <1>2, <1>3, <1>4 DEF CoroutineOK, Status

LEMMA PlacedInterrupts ==
    ASSUME Sound, Interrupt
    PROVE  PlacesOK' /\ \A c \in Calls : CoroutineOK(c)'
<1>1. UNCHANGED <<run, round, rest, batch, clash, queued>> /\ Children' = Children
  BY DEF Interrupt, Aside, Children
<1>2. \A c \in Calls : c \notin Children \/ step[c] = "returned" => step'[c] = step[c] /\ rec'[c] = rec[c]
  BY DEF Interrupt
<1>3. \A c \in Calls : step'[c] # step[c] => step'[c] \in {"unwinding", "raised"}
  BY DEF Interrupt
<1>4. ASSUME NEW c \in Calls PROVE CoroutineOK(c)'
  <2>1. CASE step'[c] = step[c] /\ rec'[c] = rec[c]
    BY <1>1, <2>1 DEF Sound, OrderOK, CoroutineOK, Status
  <2>2. CASE ~(step'[c] = step[c] /\ rec'[c] = rec[c])
    <3>1. c \in Children /\ step[c] # "returned"
      BY <1>2, <2>2
    <3>2. step'[c] # "returned"
      BY <1>3, <3>1
    <3> QED
      BY <1>1, <3>1, <3>2 DEF CoroutineOK
  <2> QED
    BY <2>1, <2>2
<1>5. Dispatched' = Dispatched /\ \A c \in Dispatched : c \in Calls /\ c \notin Children
  BY <1>1 DEF Dispatched, Children, Sound, IInv, TypeOK
<1> QED
  BY <1>1, <1>2, <1>4, <1>5 DEF Sound, OrderOK, PlacesOK, Status

\* A coroutine enters no slot, reaches a hook only with an open record, and
\* returns to its gather when its record is consumed or waits for the user.
LEMMA DispatchReturns ==
    ASSUME IInv, NEW c \in Calls, Dispatch(c)
    PROVE  /\ step'[c] # "slot"
           /\ step'[c] = "request" => step[c] = "slot" /\ Status(c) # "consumed"
           /\ step'[c] = "returned" => c \in Children /\ Status(c)' \in Waiting \cup {"consumed"}
<1>0. /\ rec \in [Calls -> Record] /\ step \in [Calls -> Steps] /\ rec[c] \in Record
  BY DEF IInv, TypeOK
<1>1. ASSUME NEW how \in {"returned", "raised"}, Settle(c, how)
      PROVE  /\ step'[c] \in {"idle", how}
             /\ step'[c] = "returned" => c \in Children
  BY <1>0, <1>1 DEF Settle
<1>2. ASSUME NEW result, Finish(c, result) PROVE Status(c)' = "consumed" /\ Settle(c, "returned")
  BY <1>0, <1>2 DEF Finish, Consume, Status, Record
<1>3. CASE ReturnExisting(c)
  BY <1>1, <1>3 DEF ReturnExisting, Status
<1>4. CASE ReturnEarly(c) \/ HookBlocks(c) \/ HookResponds(c)
  BY <1>1, <1>2, <1>4 DEF ReturnEarly, HookBlocks, HookResponds
<1>5. CASE AskUser(c)
  <2>1. Status(c)' = "input" /\ Settle(c, "returned")
    BY <1>0, <1>5 DEF AskUser, AwaitUserInput, Status, Record
  <2> QED
    BY <1>1, <2>1 DEF Waiting
<1>6. CASE AskApproval(c)
  BY <1>1, <1>6 DEF AskApproval, Status, Waiting
<1>7. CASE Proceed(c)
  <2>1. step'[c] \in {"request", "running"} /\ step[c] = "slot" /\ Status(c) # "consumed"
    BY <1>0, <1>7 DEF Proceed, Undecided, Admitted
  <2> QED
    BY <2>1
<1>8. CASE HookPasses(c)
  BY <1>0, <1>8 DEF HookPasses
<1>9. CASE HookTooLate(c) \/ HookRaises(c) \/ Unwound(c)
  BY <1>1, <1>9 DEF HookTooLate, HookRaises, Unwound
<1>10. CASE ToolEnds(c)
  BY <1>0, <1>1, <1>2, <1>10 DEF ToolEnds
<1> QED
  BY <1>3, <1>4, <1>5, <1>6, <1>7, <1>8, <1>9, <1>10 DEF Dispatch

LEMMA PlacedDispatches ==
    ASSUME Sound, NEW c \in Calls, Dispatch(c)
    PROVE  PlacesOK' /\ \A d \in Calls : CoroutineOK(d)'
<1>0. step[c] # "idle" /\ IInv
  BY DispatchBreaks DEF Sound
<1>1. /\ UNCHANGED <<run, round, rest, batch, clash, queued>>
      /\ rec' = [rec EXCEPT ![c] = rec'[c]] /\ step' = [step EXCEPT ![c] = step'[c]]
  BY <1>0, DispatchSteps DEF DispatchEffect, Aside
<1>2. \A d \in Calls : d # c => rec'[d] = rec[d] /\ step'[d] = step[d]
  BY <1>0, <1>1 DEF IInv, TypeOK
<1>3. Children' = Children /\ Dispatched' = Dispatched
  BY <1>1 DEF Children, Dispatched
<1>4. \A d \in Calls : d # c => CoroutineOK(d)'
  BY <1>2, <1>3 DEF Sound, OrderOK, CoroutineOK, Status
<1>5. CoroutineOK(c)'
  <2>1. /\ step'[c] # "slot"
        /\ step'[c] = "request" => step[c] = "slot" /\ Status(c) # "consumed"
        /\ step'[c] = "returned" => c \in Children /\ Status(c)' \in Waiting \cup {"consumed"}
    BY <1>0, DispatchReturns
  <2>2. step[c] = "slot" /\ Status(c) # "consumed" => c \in Children
    BY DEF Sound, OrderOK, CoroutineOK
  <2> QED
    BY <1>3, <2>1, <2>2 DEF CoroutineOK
<1>6. \A d \in Dispatched : d # c /\ d \in Calls
  BY <1>0 DEF Sound, OrderOK, PlacesOK, Dispatched, IInv, TypeOK
<1>7. PlacesOK'
  BY <1>1, <1>2, <1>3, <1>6 DEF Sound, OrderOK, PlacesOK, Status
<1> QED
  BY <1>4, <1>5, <1>7

LEMMA OrderKept == NoRepeats /\ Sound /\ [Next]_vars => Sound'
<1> SUFFICES ASSUME NoRepeats, Sound, [Next]_vars PROVE Sound'
  OBVIOUS
<1>1. IInv' /\ SharedOK'
  BY NextKeeps, SharedKept DEF Sound
<1>2. CASE UNCHANGED vars
  <2>1. UNCHANGED <<rec, count, run, round, rest, batch, clash, queued, step, saved>>
    BY <1>2 DEF vars, ctxVars, roundVars, hostVars
  <2>2. PlacesOK' /\ \A c \in Calls : CoroutineOK(c)'
    BY <2>1, PlacedAside DEF Sound, OrderOK, PlacesOK
  <2> QED
    BY <1>1, <2>1, <2>2 DEF Sound, OrderOK, IdsOK
<1>3. CASE Save
  <2>1. /\ UNCHANGED <<rec, count, run, round, rest, batch, clash, queued, step>>
        /\ saved'.rec = rec /\ saved'.count = count
    BY <1>3 DEF Save, ctxVars, roundVars, Context
  <2>2. PlacesOK' /\ \A c \in Calls : CoroutineOK(c)'
    BY <2>1, PlacedAside DEF Sound, OrderOK, PlacesOK
  <2> QED
    BY <1>1, <2>1, <2>2 DEF Sound, OrderOK, IdsOK
<1>4. CASE Crash
  <2>1. /\ rec' = saved.rec /\ count' = saved.count /\ saved' = saved
        /\ round' = {} /\ step' = [c \in Calls |-> "idle"]
    BY <1>4 DEF Crash
  <2>2. PlacesOK' /\ \A c \in Calls : CoroutineOK(c)'
    BY <2>1 DEF PlacesOK, CoroutineOK, Dispatched
  <2> QED
    BY <1>1, <2>1, <2>2 DEF Sound, OrderOK, IdsOK
<1>5. CASE Next /\ ~Save /\ ~Crash
  <2>1. IdsOK(rec, count)' /\ IdsOK(saved.rec, saved.count)'
    BY <1>5, StepKeepsIds
  <2>2. SUFFICES PlacesOK' /\ \A c \in Calls : CoroutineOK(c)'
    BY <1>1, <2>1 DEF Sound, OrderOK
  <2>3. CASE NewTask \/ Cancel \/ ModelEnds \/ RefuseExecuting \/ \E t \in Tools : AllowRule(t)
    <3>1. UNCHANGED <<rec, round, rest, batch, clash, queued, step>>
      BY <2>3 DEF NewTask, Cancel, ModelEnds, RefuseExecuting, AllowRule, Aside, ctxVars, roundVars
    <3>2. run' \in {"idle", "model"} => run \in {"idle", "model"}
      BY <2>3 DEF NewTask, Cancel, ModelEnds, RefuseExecuting, AllowRule, Aside
    <3> QED
      BY <3>1, <3>2, PlacedAside, BetweenRounds
  <2>4. CASE EndRound
    <3>1. /\ UNCHANGED <<rec, batch, clash, step>> /\ round' = {}
      BY <2>4 DEF EndRound, ctxVars
    <3> QED
      BY <3>1 DEF Sound, OrderOK, PlacesOK, CoroutineOK, Dispatched, Children, Status
  <2>5. CASE \E c \in Calls : Approval(c) \/ UserAnswer(c) \/ FailStale(c)
    BY <2>5, PlacedHost
  <2>6. CASE Resume
    <3>1. run = "idle" /\ step' = step /\ rec' = rec
      BY <2>6 DEF Resume, ctxVars
    <3>2. (run' = "model" /\ UNCHANGED <<round, rest, batch, clash, queued>>) \/ \E S : BeginRound(S)
      BY <2>6 DEF Resume, roundVars
    <3> QED
      BY <3>1, <3>2, PlacedAside, PlacedBegins, BetweenRounds
  <2>7. CASE ModelCalls
    <3>1. run = "model" /\ step' = step /\ \E S : BeginRound(S)
      BY <2>7 DEF ModelCalls
    <3>2. \A c \in 1..count : c \in Calls => rec'[c] = rec[c]
      <4>1. PICK k \in 1..MaxRound :
              \A c \in Calls : c \notin count + 1 .. count + k => rec'[c] = rec[c]
        BY <2>7, NewCalls
      <4>2. count \in Nat /\ k \in Nat
        BY ConstantsAssumption DEF Sound, IInv, TypeOK
      <4>3. \A c \in 1..count : c \notin count + 1 .. count + k
        BY <4>2
      <4> QED
        BY <4>1, <4>3
    <3>3. \A c \in Calls : step[c] # "idle" => rec'[c] = rec[c]
      BY <3>2, SharedRegistered DEF Sound
    <3> QED
      BY <3>1, <3>3, PlacedBegins
  <2>8. CASE StartBatch \/ CloseBatch \/ Deliver \/ FailRound \/ StopRun \/ Interrupt
    BY <2>8, PlacedStarts, PlacedCloses, PlacedDelivers, PlacedAbandons, PlacedInterrupts
  <2>9. CASE \E c \in Calls : Dispatch(c)
    BY <2>9, PlacedDispatches
  <2> QED
    BY <1>5, <2>3, <2>4, <2>5, <2>6, <2>7, <2>8, <2>9 DEF Next, Host, Loop
<1> QED
  BY <1>2, <1>3, <1>4, <1>5

LEMMA OrderInvariant == ASSUME NoRepeats PROVE Spec => []Sound
<1>1. Init => Sound
  <2> SUFFICES ASSUME Init PROVE Sound
    OBVIOUS
  <2>1. IInv
    BY InitOK
  <2>2. SharedOK /\ PlacesOK /\ \A c \in Calls : CoroutineOK(c)
    BY DEF Init, SharedOK, Children, PlacesOK, CoroutineOK, Dispatched
  <2>3. IdsOK(rec, count) /\ IdsOK(saved.rec, saved.count)
    BY DEF Init, Context, IdsOK
  <2> QED
    BY <2>1, <2>2, <2>3 DEF Sound, OrderOK
<1> QED
  BY <1>1, OrderKept, PTL DEF Spec

-----------------------------------------------------------------------------
\* A tool is started by the coroutine of its call.
LEMMA StartsByDispatch ==
    ASSUME IInv, SavedEarlier, [Next]_vars, NEW c \in Calls, Starts(c)
    PROVE  Proceed(c) \/ HookPasses(c)
<1>0. /\ \A d \in Calls : rec[d].ran \in Nat /\ rec'[d].ran \in Nat /\ saved.rec[d].ran \in Nat
      /\ rec'[c].ran > rec[c].ran
  BY NextKeeps DEF IInv, TypeOK, Record, Starts
<1>1. ~NoStart
  BY <1>0 DEF NoStart
<1>2. rec' # rec
  BY <1>0
<1>3. ~Crash
  BY <1>0 DEF Crash, SavedEarlier
<1>4. ~ModelCalls /\ ~FailRound /\ ~StopRun /\ ~Deliver /\ ~Interrupt
  BY <1>1, ModelStartsNothing, RunFailsStartsNothing, LoopStartsNothing DEF FailRound, StopRun
<1>5. \A d \in Calls : ~Approval(d) /\ ~UserAnswer(d) /\ ~FailStale(d)
  BY <1>1, HostStartsNothing
<1>6. ~NewTask /\ ~Resume /\ ~Save /\ ~Cancel /\ (\A t \in Tools : ~AllowRule(t)) /\ ~UNCHANGED vars
  BY <1>2 DEF NewTask, Resume, Save, Cancel, AllowRule, ctxVars, vars
<1>7. ~ModelEnds /\ ~EndRound /\ ~StartBatch /\ ~CloseBatch /\ ~RefuseExecuting
  BY <1>2 DEF ModelEnds, EndRound, StartBatch, CloseBatch, RefuseExecuting, ctxVars
<1>8. PICK d \in Calls : Dispatch(d)
  BY <1>3, <1>4, <1>5, <1>6, <1>7 DEF Next, Host, Loop
<1>9. d = c
  BY <1>0, <1>8, DispatchSteps DEF DispatchEffect, IInv, TypeOK
<1> QED
  BY <1>0, <1>8, <1>9, QuietDispatch

LEMMA NextStartsInOrder ==
    ASSUME Sound, SavedEarlier, [Next]_vars, NEW c \in Calls, Starts(c),
           NEW d \in round, d < c, ~(IsReadOnly(c) /\ IsReadOnly(d))
    PROVE  d \notin rest \cup batch /\ Status(d) \in Waiting \cup {"consumed"}
<1>1. step[c] \in {"slot", "request"} /\ Status(c) # "consumed"
  BY StartsByDispatch DEF Sound, Proceed, HookPasses, Undecided, Admitted
<1>2. c \in Children
  BY <1>1 DEF Sound, OrderOK, CoroutineOK
<1>3. c \in batch /\ c \in round /\ c \notin rest /\ c \in Nat /\ d \in Nat
  BY <1>2, ConstantsAssumption DEF Children, Sound, IInv, RoundOK, TypeOK, Calls
<1>4. d \notin batch
  BY <1>3 DEF Sound, SharedOK
<1>5. d \notin rest
  BY <1>3 DEF Sound, OrderOK, PlacesOK
<1> QED
  BY <1>4, <1>5 DEF Sound, OrderOK, PlacesOK, Dispatched

\* For any number of calls, any policy, crash and fault but repeated ids: of two
\* calls of a reply one of which is not read-only, the later starts when the
\* earlier is over or waits for the user (_batches, and the calls
\* _answer_unanswered closes before their hooks let them through).
THEOREM CallsStartInOrder == ASSUME NoRepeats PROVE Spec => StartsInOrder
<1>1. Init => SavedEarlier
  BY UnregisteredOK DEF Init, SavedEarlier, Context, Record
<1>2. Sound /\ SavedEarlier /\ [Next]_vars => SavedEarlier'
  BY SavedEarlierKept DEF Sound
<1>3. Sound /\ SavedEarlier /\ [Next]_vars
        => [\A c \in Calls : Starts(c) =>
              \A d \in round : d < c /\ ~(IsReadOnly(c) /\ IsReadOnly(d)) =>
                  d \notin rest \cup batch /\ Status(d) \in Waiting \cup {"consumed"}]_vars
  BY NextStartsInOrder
<1> QED
  BY <1>1, <1>2, <1>3, OrderInvariant, PTL DEF Spec, StartsInOrder

\* A call is answered by the loop.
LEMMA AnswersByLoop ==
    ASSUME IInv, SavedEarlier, [Next]_vars, NEW c \in Calls, Answers(c)
    PROVE  Deliver \/ FailRound \/ StopRun
<1>0. /\ \A d \in Calls : rec[d].answers \in Nat /\ rec'[d].answers \in Nat /\ saved.rec[d].answers \in Nat
      /\ rec'[c].answers > rec[c].answers /\ rec \in [Calls -> Record]
  BY NextKeeps DEF IInv, TypeOK, Record, Answers
<1>1. rec' # rec /\ rec'[c].answers # rec[c].answers
  BY <1>0
<1>2. ~Crash
  BY <1>0 DEF Crash, SavedEarlier
<1>3. \A d \in Calls : ~Dispatch(d)
  <2> SUFFICES ASSUME NEW d \in Calls, Dispatch(d) PROVE FALSE
    OBVIOUS
  <2>1. DispatchEffect(d)
    BY DispatchSteps
  <2> QED
    BY <1>0, <1>1, <2>1 DEF DispatchEffect
<1>4. \A d \in Calls : ~Approval(d) /\ ~UserAnswer(d) /\ ~FailStale(d)
  <2> SUFFICES ASSUME NEW d \in Calls, Approval(d) \/ UserAnswer(d) \/ FailStale(d) PROVE FALSE
    OBVIOUS
  <2>1. PICK r \in {Approve(rec[d]), Reject(rec[d]), ApplyUserAnswer(rec[d]), Consume(rec[d], "failed")} :
          rec' = [rec EXCEPT ![d] = r]
    BY DEF Approval, UserAnswer, FailStale, HostApplies
  <2>2. r.answers = rec[d].answers
    BY <1>0, <2>1 DEF Approve, Reject, ApplyUserAnswer, Consume, Record
  <2> QED
    BY <1>0, <1>1, <2>1, <2>2
<1>5. ~ModelCalls
  <2> SUFFICES ASSUME ModelCalls PROVE FALSE
    OBVIOUS
  <2>1. rec'[c] = rec[c] \/ \E t, i : rec'[c] = Proposed(t, i)
    BY NewCalls
  <2>2. \A t, i : Proposed(t, i).answers = 0
    BY DEF Proposed, Unregistered
  <2> QED
    BY <1>0, <2>1, <2>2
<1>6. ~Interrupt
  <2> SUFFICES ASSUME Interrupt PROVE FALSE
    OBVIOUS
  <2>1. rec'[c] \in {rec[c], Cancelled(rec[c])}
    BY DEF Interrupt
  <2> QED
    BY <1>0, <1>1, <2>1 DEF Cancelled, Consume, Record
<1>7. ~NewTask /\ ~Resume /\ ~Save /\ ~Cancel /\ (\A t \in Tools : ~AllowRule(t)) /\ ~UNCHANGED vars
  BY <1>1 DEF NewTask, Resume, Save, Cancel, AllowRule, ctxVars, vars
<1>8. ~ModelEnds /\ ~EndRound /\ ~StartBatch /\ ~CloseBatch /\ ~RefuseExecuting
  BY <1>1 DEF ModelEnds, EndRound, StartBatch, CloseBatch, RefuseExecuting, ctxVars
<1> QED
  BY <1>2, <1>3, <1>4, <1>5, <1>6, <1>7, <1>8 DEF Next, Host, Loop

LEMMA NextAnswersInOrder ==
    ASSUME Sound, SavedEarlier, [Next]_vars, NEW c \in round, NEW d \in round, d < c,
           Answers(c), rec'[d].status = "consumed"
    PROVE  rec'[d].answers > 0
<1>0. /\ rec \in [Calls -> Record] /\ round \subseteq Calls /\ round \subseteq 1..count
      /\ c \in Calls /\ d \in Calls /\ c \in Nat /\ d \in Nat
  BY ConstantsAssumption DEF Sound, IInv, TypeOK, RoundOK, Calls
<1>1. rec[d].answers \in Nat /\ rec[d] \in Record
  BY <1>0 DEF Record
<1>2. CASE Deliver
  <2>1. PICK e \in queued : Oldest(e) /\ rec' = [rec EXCEPT ![e] = Answer(@)]
    BY <1>2 DEF Deliver
  <2>2. c = e /\ rec'[d] = rec[d]
    BY <1>0, <2>1 DEF Answers, Record
  <2>3. d \notin queued
    BY <1>0, <2>1, <2>2 DEF Oldest
  <2>4. c \notin rest /\ c \notin batch
    BY <2>1, <2>2 DEF Sound, IInv, RoundOK
  <2>5. d \notin rest
    BY <1>0, <2>4 DEF Sound, OrderOK, PlacesOK
  <2>6. d \notin batch
    BY <1>0, <2>4 DEF Sound, OrderOK, PlacesOK, Dispatched
  <2> QED
    BY <1>1, <2>2, <2>3, <2>5, <2>6 DEF Sound, OrderOK, PlacesOK, Dispatched, Status, Waiting
<1>3. CASE FailRound \/ StopRun
  <2>1. rec' = [e \in Calls |-> IF e \in round /\ rec[e].id \notin AnsweredIds
                                 THEN AnswerUnanswered(rec[e]) ELSE rec[e]]
    BY <1>3 DEF FailRound, StopRun, RunFails
  <2>2. CASE rec[d].answers # 0
    <3>1. d \in 1..count /\ rec[d].id \in AnsweredIds
      BY <1>0, <1>1, <2>2 DEF AnsweredIds, Registered
    <3> QED
      BY <1>0, <1>1, <2>1, <2>2, <3>1
  <2>3. CASE rec[d].answers = 0
    <3>1. rec'[d] = AnswerUnanswered(rec[d])
      BY <1>0, <2>1, <2>3, UnansweredId
    <3>2. rec[d].status # "executing"
      BY <1>1, <3>1, AnswerUnansweredStatus
    <3>3. Closed(rec[d]) \in Record /\ Closed(rec[d]).answers = 0
      BY <1>1, <2>3 DEF Closed, Consume, Record, Statuses, Results
    <3> QED
      BY <3>1, <3>2, <3>3 DEF AnswerUnanswered, Answer, Record
  <2> QED
    BY <2>2, <2>3
<1> QED
  BY <1>0, <1>2, <1>3, AnswersByLoop DEF Sound

\* For any number of calls, any policy, crash and fault but repeated ids: the
\* results of a round enter the transcript in the order of its calls
\* (dispatch_many, its queue, and _answer_unanswered).
THEOREM ResultsEnterInOrder == ASSUME NoRepeats PROVE Spec => AnswersInOrder
<1>1. Init => SavedEarlier
  BY UnregisteredOK DEF Init, SavedEarlier, Context, Record
<1>2. Sound /\ SavedEarlier /\ [Next]_vars => SavedEarlier'
  BY SavedEarlierKept DEF Sound
<1>3. Sound /\ SavedEarlier /\ [Next]_vars
        => [\A c, d \in round : d < c /\ Answers(c) /\ rec'[d].status = "consumed"
              => rec'[d].answers > 0]_vars
  BY NextAnswersInOrder
<1> QED
  BY <1>1, <1>2, <1>3, OrderInvariant, PTL DEF Spec, AnswersInOrder

-----------------------------------------------------------------------------
(* ToolRounds implements ToolCallLifecycle.                                *)

LEMMA ProgressOfSteps ==
    ASSUME IInv, saved' = saved, \A c \in Calls : RecStep(rec[c], rec'[c])
    PROVE  Lifecycle!Progress
<1>1. \A c \in Calls : Moves(rec[c], rec'[c])
  BY RecStepMoves DEF IInv, TypeOK, ContextOK
<1>2. \A c \in Calls : /\ Phase(rec)[c] = PhaseOf(rec[c]) /\ Phase(rec)'[c] = PhaseOf(rec'[c])
                       /\ Answered(rec)[c] = rec[c].answers /\ Answered(rec)'[c] = rec'[c].answers
  BY DEF Phase, Answered
<1>3. Phase(rec)' \in [Calls -> Lifecycle!Phases] /\ Answered(rec)' \in [Calls -> Nat]
  BY <1>1 DEF Phase, Answered, Moves
<1>4. \A c \in Calls : Lifecycle!Move(c)
  BY <1>1, <1>2 DEF Lifecycle!Move, Lifecycle!Final, Moves
<1> QED
  BY <1>3, <1>4 DEF Lifecycle!Progress, Phase, Answered

LEMMA LifecycleInit == Init => Lifecycle!Init
  BY DEF Init, Lifecycle!Init, Phase, Answered, PhaseOf, Unregistered, Context

LEMMA LifecycleNext == IInv /\ [Next]_vars => [Lifecycle!Next]_(Lifecycle!vars)
<1> SUFFICES ASSUME IInv, [Next]_vars PROVE [Lifecycle!Next]_(Lifecycle!vars)
  OBVIOUS
<1>1. CASE Save
  <2>1. rec' = rec /\ saved' = Context
    BY <1>1 DEF Save, ctxVars
  <2> QED
    BY <2>1 DEF Lifecycle!Next, Lifecycle!Keep, Phase, Answered, Context
<1>2. CASE Crash
  <2>1. rec' = saved.rec /\ saved' = saved
    BY <1>2 DEF Crash
  <2> QED
    BY <2>1 DEF Lifecycle!Next, Lifecycle!Return, Phase, Answered
<1>3. CASE Next /\ ~Save /\ ~Crash
  BY <1>3, StepKeeps, ProgressOfSteps DEF Lifecycle!Next
<1>4. CASE UNCHANGED vars
  BY <1>4 DEF vars, ctxVars, hostVars, Lifecycle!vars, Phase, Answered
<1> QED
  BY <1>1, <1>2, <1>3, <1>4

\* Every call of every behaviour lives the life its record promises.
THEOREM KeepsTheLifecycle == Spec => LifecycleSpec
  BY LifecycleInit, LifecycleNext, Invariance, PTL DEF Spec, LifecycleSpec, Lifecycle!Spec

-----------------------------------------------------------------------------
(* What a request knows of the calls before it.  Without faults nobody is    *)
(* orphaned and no gather breaks, so a round ends with every call answered   *)
(* or waiting for the user, and what waits outside the round keeps a next    *)
(* task from starting.                                                       *)

NoFaults == Faults = {} /\ MaxRestarts = 0

\* The coroutines are those of the batch, and end together when interrupted.
Calm ==
    /\ ~broken /\ clash = {}
    /\ \A c \in Calls : /\ step[c] # "idle" <=> c \in batch
                        /\ step[c] # "unwinding"
                        /\ step[c] = "raised" => run = "stopping"
                        /\ step[c] = "request" => Status(c) # "consumed"
    /\ (\E c \in Calls : step[c] = "raised") => \A d \in batch : step[d] \in {"returned", "raised"}

Gap(c) == HumanInput /\ Status(c) \in Waiting /\ \E d \in tracked : rec[d].result \in Denials

\* An unanswered call belongs to the task; outside the round it is not over,
\* and while the loop goes on it waits beside a denial.
GapsOK ==
    /\ round \subseteq tracked
    /\ \A c \in 1..count : rec[c].answers = 0 =>
         /\ c \in tracked
         /\ c \notin round => Status(c) # "consumed" /\ (run \in {"model", "tools"} => Gap(c))

Steady == Sound /\ ExecutingHere /\ Calm /\ GapsOK

LEMMA SteadyParts ==
    ASSUME Steady
    PROVE  /\ IInv /\ rec \in [Calls -> Record] /\ step \in [Calls -> Steps] /\ 1..count \subseteq Calls
           /\ tracked \subseteq 1..count /\ round \subseteq 1..count
           /\ rest \subseteq round /\ batch \subseteq round /\ queued \subseteq round
           /\ Children = batch
           /\ (\A c \in Calls : c \notin batch => step[c] = "idle")
           /\ (run \in {"idle", "model"} => round = {} /\ batch = {} /\ \A c \in Calls : step[c] = "idle")
<1>1. IInv /\ rec \in [Calls -> Record] /\ step \in [Calls -> Steps] /\ 1..count \subseteq Calls
  BY ConstantsAssumption DEF Steady, Sound, IInv, TypeOK, Calls
<1>2. /\ tracked \subseteq 1..count /\ round \subseteq 1..count
      /\ rest \subseteq round /\ batch \subseteq round /\ queued \subseteq round
  BY <1>1 DEF IInv, ContextOK, RoundOK
<1>3. Children = batch /\ \A c \in Calls : c \notin batch => step[c] = "idle"
  BY DEF Steady, Calm, Children
<1>4. run \in {"idle", "model"} => round = {} /\ batch = {}
  BY BetweenRounds DEF Steady
<1> QED
  BY <1>1, <1>2, <1>3, <1>4

\* Nothing runs, nothing is batched.
LEMMA CalmAtRest ==
    ASSUME ~broken', clash' = {}, batch' = {}, \A c \in Calls : step'[c] = "idle"
    PROVE  Calm'
BY DEF Calm

LEMMA CalmAside ==
    ASSUME Calm, UNCHANGED <<broken, clash, batch, step>>, run = "stopping" => run' = "stopping",
           \A c \in Calls : step[c] = "request" => rec'[c].status = rec[c].status
    PROVE  Calm'
BY DEF Calm, Status

\* The coroutine of a call goes on or returns; none raises.
LEMMA DispatchCalm ==
    ASSUME NoFaults, Steady, NEW c \in Calls, Dispatch(c)
    PROVE  /\ step[c] \in {"slot", "request", "running", "response"} /\ c \in batch
           /\ step'[c] \in {"returned", "request", "running", "response"}
           /\ ~broken'
           /\ step'[c] = "request" => rec'[c].status # "consumed"
<1>0. /\ rec \in [Calls -> Record] /\ step \in [Calls -> Steps] /\ rec[c] \in Record
      /\ Children = batch /\ ~broken /\ (step[c] # "idle" => c \in batch)
      /\ step[c] # "unwinding" /\ (step[c] = "request" => Status(c) # "consumed")
  BY SteadyParts DEF Steady, Calm
<1>1. ASSUME Settle(c, "returned"), c \in batch
      PROVE  step'[c] = "returned" /\ ~broken'
  BY <1>0, <1>1 DEF Settle
<1>2. ASSUME NEW result, Finish(c, result), c \in batch
      PROVE  step'[c] = "returned" /\ ~broken'
  BY <1>1, <1>2 DEF Finish
<1>3. CASE ReturnExisting(c) \/ AskApproval(c) \/ AskUser(c)
  BY <1>0, <1>1, <1>3 DEF ReturnExisting, AskApproval, AskUser, Undecided, Admitted
<1>4. CASE ReturnEarly(c) \/ HookBlocks(c) \/ HookResponds(c)
  BY <1>0, <1>2, <1>4 DEF ReturnEarly, HookBlocks, HookResponds, Admitted
<1>5. CASE Proceed(c)
  <2>1. step[c] = "slot" /\ Status(c) # "consumed" /\ ~broken'
    BY <1>0, <1>5 DEF Proceed, Undecided, Admitted
  <2>2. step'[c] = IF Hooks THEN "request" ELSE "running"
    BY <1>0, <1>5 DEF Proceed
  <2>3. Hooks => rec'[c] = Cleared(rec[c])
    BY <1>0, <1>5 DEF Proceed
  <2>4. Cleared(rec[c]).status # "consumed"
    BY <1>0, <2>1 DEF Cleared, AutoApprove, Status, Record
  <2> QED
    BY <1>0, <2>1, <2>2, <2>3, <2>4
<1>6. CASE HookPasses(c)
  BY <1>0, <1>6 DEF HookPasses
<1>7. CASE ToolEnds(c)
  BY <1>0, <1>2, <1>7 DEF ToolEnds
<1>8. ~HookTooLate(c) /\ ~HookRaises(c) /\ ~Unwound(c)
  BY <1>0 DEF HookTooLate, HookRaises, Unwound, NoFaults
<1> QED
  BY <1>3, <1>4, <1>5, <1>6, <1>7, <1>8 DEF Dispatch

LEMMA CalmDispatched ==
    ASSUME NoFaults, Steady, NEW c \in Calls, Dispatch(c)
    PROVE  Calm'
<1>1. /\ step[c] \in {"slot", "request", "running", "response"} /\ c \in batch
      /\ step'[c] \in {"returned", "request", "running", "response"}
      /\ ~broken' /\ (step'[c] = "request" => rec'[c].status # "consumed")
  BY DispatchCalm
<1>2. DispatchEffect(c) /\ UNCHANGED Aside
  BY DispatchSteps, SteadyParts
<1>3. \A d \in Calls : d # c => step'[d] = step[d] /\ rec'[d] = rec[d]
  BY <1>2, SteadyParts DEF DispatchEffect
<1>4. UNCHANGED <<run, batch, clash>>
  BY <1>2 DEF Aside
<1>5. \A d \in Calls : step[d] # "raised"
  BY <1>1 DEF Steady, Calm
<1>6. \A d \in Calls : step'[d] # "raised"
  BY <1>1, <1>3, <1>5
<1> QED
  BY <1>1, <1>3, <1>4, <1>6 DEF Steady, Calm, Status

\* No record is EXECUTING when a batch begins.
LEMMA CalmStarts ==
    ASSUME Steady, StartBatch PROVE Calm'
<1>1. /\ batch = {} /\ batch' = NextBatch(rest) /\ ~broken' /\ rec' = rec
      /\ clash' = {c \in batch' : Status(c) = "executing" \/ step[c] # "idle"}
      /\ step' = [c \in Calls |-> IF c \in batch' \ clash' THEN "slot" ELSE step[c]]
  BY DEF StartBatch, Producing, ctxVars
<1>2. \A c \in Calls : step[c] = "idle" /\ Status(c) # "executing"
  BY <1>1, SteadyParts DEF Steady, ExecutingHere
<1>3. batch' \subseteq Calls
  BY <1>1, NextBatchOK, SteadyParts
<1>4. clash' = {} /\ \A c \in Calls : step'[c] = IF c \in batch' THEN "slot" ELSE "idle"
  BY <1>1, <1>2, <1>3
<1> QED
  BY <1>1, <1>4 DEF Calm

LEMMA CalmInterrupted ==
    ASSUME NoFaults, Steady, Interrupt PROVE Calm'
<1> DEFINE live == {c \in Children : step[c] \in {"slot", "request", "running", "response"}}
<1>1. /\ run = "stopping" /\ UNCHANGED <<run, batch, clash, broken>>
      /\ step' = [c \in Calls |-> IF c \in live THEN "raised" ELSE step[c]]
  BY DEF Interrupt, Aside, NoFaults
<1>2. \A d \in batch : d \in Calls /\ step[d] \in Steps \ {"idle", "unwinding"}
  BY SteadyParts DEF Steady, Calm
<1>3. \A d \in batch : step'[d] \in {"returned", "raised"}
  BY <1>1, <1>2, SteadyParts DEF Steps
<1>4. \A c \in Calls : c \notin batch => step'[c] = "idle"
  BY <1>1, SteadyParts
<1>5. \A c \in Calls : step'[c] # "idle" <=> c \in batch
  BY <1>3, <1>4
<1>6. \A c \in Calls : step'[c] \in {"idle", "returned", "raised"}
  BY <1>3, <1>4
<1> QED
  BY <1>1, <1>3, <1>5, <1>6 DEF Steady, Calm

LEMMA CalmStops ==
    ASSUME Steady, StopRun PROVE Calm'
<1>1. \A c \in batch : step[c] \in {"returned", "raised"}
  BY SteadyParts DEF StopRun, ProducerDone, Steady, Calm
<1>2. \A c \in Calls : step'[c] = "idle"
  BY <1>1, SteadyParts DEF StopRun, RunFails
<1> QED
  BY <1>2, CalmAtRest DEF StopRun, RunFails

\* Nobody loads a conversation and nothing fails the producer.
LEMMA FaultlessSteps ==
    ASSUME NoFaults, Steady, Next
    PROVE  /\ ~Save /\ ~Crash /\ ~FailRound /\ ~RefuseExecuting
           /\ \A c \in Calls : ~FailStale(c)
           /\ \A c \in Calls : RecStep(rec[c], rec'[c])
<1>1. ~Save /\ ~Crash
  BY SteadyParts DEF NoFaults, IInv, TypeOK, Save, Crash
<1>2. ~FailRound /\ ~RefuseExecuting
  BY DEF Steady, Calm, FailRound, RefuseExecuting
<1>3. \A c \in Calls : ~FailStale(c)
  BY DEF Steady, ExecutingHere, FailStale
<1> QED
  BY <1>1, <1>2, <1>3, StepKeeps, SteadyParts

LEMMA CalmKept == ASSUME NoFaults, Steady, Next PROVE Calm'
<1>0. /\ ~Save /\ ~Crash /\ ~FailRound /\ ~RefuseExecuting
      /\ \A c \in Calls : ~FailStale(c)
  BY FaultlessSteps
<1>c. Calm /\ ~broken /\ clash = {}
  BY DEF Steady, Calm
<1>1. CASE run \in {"idle", "model"} /\ step' = step /\ (UNCHANGED roundVars \/ \E S : BeginRound(S))
  <2>1. ~broken' /\ clash' = {} /\ batch' = {}
    BY <1>1, <1>c, SteadyParts DEF roundVars, BeginRound
  <2> QED
    BY <1>1, <2>1, SteadyParts, CalmAtRest
<1>2. CASE NewTask \/ Resume \/ ModelEnds \/ ModelCalls \/ \E t \in Tools : AllowRule(t)
  BY <1>1, <1>2 DEF NewTask, Resume, ModelEnds, ModelCalls, AllowRule
<1>3. CASE \E c \in Calls : Approval(c) \/ UserAnswer(c)
  BY <1>1, <1>3 DEF Approval, UserAnswer, HostApplies
<1>4. CASE Cancel
  BY <1>4, <1>c, CalmAside DEF Cancel, roundVars, ctxVars
<1>5. CASE Deliver
  <2>1. \A c \in Calls : rec'[c].status = rec[c].status
    BY <1>5, SteadyParts DEF Deliver, Answer, Record
  <2> QED
    BY <1>5, <1>c, <2>1, CalmAside DEF Deliver
<1>6. CASE EndRound
  <2>1. batch = {} /\ batch' = {} /\ clash' = clash /\ ~broken' /\ step' = step
    BY <1>6, <1>c DEF EndRound
  <2> QED
    BY <1>c, <2>1, SteadyParts, CalmAtRest
<1>7. CASE CloseBatch
  <2>1. batch' = {} /\ clash' = clash /\ ~broken'
        /\ step' = [c \in Calls |-> IF c \in batch THEN "idle" ELSE step[c]]
    BY <1>7, <1>c DEF CloseBatch
  <2> QED
    BY <1>c, <2>1, SteadyParts, CalmAtRest
<1>8. CASE StartBatch \/ StopRun \/ Interrupt \/ \E c \in Calls : Dispatch(c)
  BY <1>8, CalmStarts, CalmStops, CalmInterrupted, CalmDispatched
<1> QED
  BY <1>0, <1>2, <1>3, <1>4, <1>5, <1>6, <1>7, <1>8 DEF Next, Host, Loop

-----------------------------------------------------------------------------
(* The gaps.                                                                 *)

\* Outside the round a step leaves statuses alone, a denial stays one, and no
\* answer is taken back.
LEMMA GapsStay ==
    ASSUME NoFaults, Steady, Next, UNCHANGED <<count, tracked, round>>,
           \A c \in 1..count : c \notin round => rec'[c].status = rec[c].status,
           \A c \in 1..count : rec[c].answers > 0 => rec'[c].answers # 0,
           run' \in {"model", "tools"} => run \in {"model", "tools"}
    PROVE  GapsOK'
<1>0. \A c \in Calls : rec[c] \in Record /\ CallOK(rec[c]) /\ RecStep(rec[c], rec'[c])
  BY FaultlessSteps, SteadyParts DEF IInv, ContextOK
<1>1. \A d \in tracked : rec[d].result \in Denials => rec'[d].result \in Denials
  BY <1>0, SteadyParts, RecStepKeeps DEF CallOK, Denials
<1>2. ASSUME NEW c \in 1..count, rec'[c].answers = 0
      PROVE  /\ c \in tracked
             /\ c \notin round => rec'[c].status # "consumed" /\ (run' \in {"model", "tools"} => Gap(c)')
  <2>1. rec[c] \in Record /\ rec[c].answers = 0
    BY <1>0, <1>2, SteadyParts DEF Record
  <2>2. c \in tracked /\ (c \notin round => Status(c) # "consumed" /\ (run \in {"model", "tools"} => Gap(c)))
    BY <2>1 DEF Steady, GapsOK
  <2>3. c \notin round /\ Gap(c) => Gap(c)'
    BY <1>1 DEF Gap, Status
  <2> QED
    BY <2>2, <2>3 DEF Status
<1> QED
  BY <1>2 DEF Steady, GapsOK, Status

\* Before a task or the rest of one begins every call has its answer, or is
\* among the calls the run finishes first.
LEMMA GapsBegin ==
    ASSUME Steady, NewTask \/ Resume PROVE GapsOK'
<1>1. run = "idle" /\ round = {} /\ rec' = rec /\ count' = count
  BY SteadyParts DEF NewTask, Resume, ctxVars
<1>2. \A c \in 1..count : rec[c].answers = 0 => c \in tracked /\ Status(c) # "consumed"
  BY <1>1 DEF Steady, GapsOK
<1>3. CASE NewTask
  <2>1. \A c \in 1..count : rec[c].answers # 0
    BY <1>2, <1>3 DEF NewTask
  <2> QED
    BY <1>1, <1>3, <2>1 DEF GapsOK, NewTask, roundVars
<1>4. CASE Resume
  <2> DEFINE left == {c \in tracked : Status(c) # "consumed"}
  <2>1. tracked' = tracked
    BY <1>4 DEF Resume, ctxVars
  <2>2. CASE left = {}
    <3>1. \A c \in 1..count : rec[c].answers # 0
      BY <1>2, <2>2
    <3>2. round' = {}
      BY <1>1, <1>4, <2>2 DEF Resume, roundVars
    <3> QED
      BY <1>1, <3>1, <3>2 DEF GapsOK
  <2>3. CASE left # {}
    <3>1. round' = left
      BY <1>4, <2>3 DEF Resume, BeginRound
    <3> QED
      BY <1>1, <1>2, <2>1, <3>1 DEF GapsOK
  <2> QED
    BY <2>2, <2>3
<1> QED
  BY <1>3, <1>4

LEMMA GapsHost ==
    ASSUME Steady, NEW c \in Calls, Approval(c) \/ UserAnswer(c) PROVE GapsOK'
<1>1. /\ run = "idle" /\ run' = "idle" /\ UNCHANGED <<count, tracked, round>>
      /\ \E r \in {Approve(rec[c]), Reject(rec[c]), ApplyUserAnswer(rec[c])} : rec' = [rec EXCEPT ![c] = r]
  BY DEF Approval, UserAnswer, HostApplies, roundVars
<1>2. /\ \A d \in Calls : d # c => rec'[d] = rec[d]
      /\ rec'[c].status # "consumed" /\ rec'[c].answers = rec[c].answers
  <2>1. rec[c] \in Record
    BY SteadyParts
  <2>2. PICK r \in {Approve(rec[c]), Reject(rec[c]), ApplyUserAnswer(rec[c])} :
          rec' = [rec EXCEPT ![c] = r]
    BY <1>1
  <2>3. r.status # "consumed" /\ r.answers = rec[c].answers
    BY <2>1 DEF Approve, Reject, ApplyUserAnswer, Record
  <2> QED
    BY <2>2, <2>3, SteadyParts
<1> QED
  BY <1>1, <1>2, SteadyParts DEF Steady, GapsOK, Status

LEMMA GapsModelCalls ==
    ASSUME Steady, ModelCalls PROVE GapsOK'
<1>0. run = "model" /\ round = {}
  BY SteadyParts DEF ModelCalls
<1>1. PICK k \in 1..MaxRound :
        /\ count + k <= MaxCalls /\ count' = count + k
        /\ tracked' = tracked \cup (count + 1 .. count + k)
        /\ round' = count + 1 .. count + k
  BY DEF ModelCalls, BeginRound
<1>2. /\ count \in Nat /\ k \in Nat /\ MaxCalls \in Nat
  BY <1>1, SteadyParts, ConstantsAssumption DEF IInv, TypeOK
<1>3. \A c \in 1..count : rec'[c] = rec[c]
  <2>1. PICK j \in 1..MaxRound :
          /\ count' = count + j
          /\ \A c \in Calls : c \notin count + 1 .. count + j => rec'[c] = rec[c]
    BY NewCalls
  <2> QED
    BY <1>2, <2>1, SteadyParts, ConstantsAssumption
<1>4. \A c \in 1..count' : c \in 1..count \/ c \in round'
  BY <1>1, <1>2
<1>5. ASSUME NEW c \in 1..count, rec'[c].answers = 0
      PROVE  c \in tracked' /\ rec'[c].status # "consumed" /\ Gap(c)'
  <2>1. c \in tracked /\ Status(c) # "consumed" /\ Gap(c)
    BY <1>0, <1>3, <1>5 DEF Steady, GapsOK
  <2>2. Gap(c)'
    BY <1>1, <1>3, <2>1, SteadyParts DEF Gap, Status
  <2> QED
    BY <1>1, <1>3, <2>1, <2>2 DEF Status
<1> QED
  BY <1>1, <1>4, <1>5 DEF GapsOK, Status

\* The round is over: what has no answer waits, and if the model is called
\* again, then because of a denial.
LEMMA GapsEndRound ==
    ASSUME Steady, EndRound PROVE GapsOK'
<1>1. /\ rest = {} /\ batch = {} /\ queued = {} /\ round' = {} /\ run = "tools"
      /\ UNCHANGED <<rec, count, tracked>>
      /\ run' = IF Denied # {} THEN IF HumanInput THEN "model" ELSE "idle"
                ELSE IF Paused # {} THEN "idle" ELSE "model"
  BY DEF EndRound, Producing, ctxVars
<1>2. ASSUME NEW c \in round, rec[c].answers = 0 PROVE Status(c) \in Waiting
  <2>1. c \in Dispatched /\ rec[c] \in Record
    BY <1>1, SteadyParts DEF Dispatched
  <2> QED
    BY <1>1, <1>2, <2>1 DEF Steady, Sound, OrderOK, PlacesOK, Record
<1>3. ASSUME NEW c \in 1..count, rec[c].answers = 0
      PROVE  c \in tracked /\ Status(c) # "consumed" /\ (run' = "model" => Gap(c))
  <2>1. CASE c \notin round
    BY <1>1, <1>3, <2>1 DEF Steady, GapsOK
  <2>2. CASE c \in round
    <3>1. c \in Paused /\ Status(c) \in Waiting
      BY <1>2, <1>3, <2>2 DEF Paused
    <3>2. run' = "model" => HumanInput /\ \E d \in tracked : rec[d].result \in Denials
      BY <1>1, <3>1 DEF Denied, Steady, GapsOK
    <3> QED
      BY <1>3, <2>2, <3>1, <3>2 DEF Steady, GapsOK, Gap, Waiting
  <2> QED
    BY <2>1, <2>2
<1>4. run' # "tools"
  BY <1>1
<1> QED
  BY <1>1, <1>3, <1>4 DEF GapsOK, Gap, Status

\* A run that stops answers the calls of its round.
LEMMA GapsStopRun ==
    ASSUME NoFaults, Steady, StopRun PROVE GapsOK'
<1>1. /\ run' = "idle" /\ round' = {} /\ UNCHANGED <<count, tracked>>
      /\ rec' = [c \in Calls |-> IF c \in round /\ rec[c].id \notin AnsweredIds
                                  THEN AnswerUnanswered(rec[c]) ELSE rec[c]]
  BY DEF StopRun, RunFails
<1>2. \A c \in Calls : Status(c) # "executing"
  <2>1. \A c \in Calls : step[c] \in {"idle", "returned", "raised"}
    BY SteadyParts DEF StopRun, ProducerDone, Steady, Calm
  <2> QED
    BY <2>1 DEF Steady, ExecutingHere
<1>3. ASSUME NEW c \in round, rec[c].answers = 0 PROVE rec'[c].answers # 0
  <2>1. c \in 1..count /\ c \in Calls /\ rec[c] \in Record /\ rec[c].id \notin AnsweredIds
    BY <1>3, SteadyParts, UnansweredId DEF Steady
  <2>2. rec'[c] = Answer(Closed(rec[c]))
    BY <1>1, <1>2, <2>1 DEF AnswerUnanswered, Status
  <2>3. Closed(rec[c]) \in Record /\ Closed(rec[c]).answers = 0
    BY <1>3, <2>1 DEF Closed, Consume, Record, Statuses, Results
  <2> QED
    BY <2>2, <2>3 DEF Answer, Record
<1>4. ASSUME NEW c \in 1..count, rec'[c].answers = 0
      PROVE  c \in tracked /\ rec'[c].status # "consumed"
  <2>1. CASE c \in round /\ rec[c].answers # 0
    <3>1. rec[c] \in Record /\ rec[c].answers > 0 /\ CallOK(rec[c]) /\ c \in Calls
      BY <2>1, SteadyParts DEF Record, IInv, ContextOK
    <3>2. rec'[c] = rec[c]
      BY <1>1, <3>1 DEF AnsweredIds, Registered
    <3> QED
      BY <1>4, <2>1, <3>2
  <2>2. CASE c \in round /\ rec[c].answers = 0
    BY <1>3, <1>4, <2>2
  <2>3. CASE c \notin round
    <3>1. rec'[c] = rec[c]
      BY <1>1, <2>3, SteadyParts
    <3> QED
      BY <1>4, <2>3, <3>1 DEF Steady, GapsOK, Status
  <2> QED
    BY <2>1, <2>2, <2>3
<1> QED
  BY <1>1, <1>4 DEF GapsOK, Status

LEMMA GapsInRound ==
    ASSUME NoFaults, Steady, Next, Interrupt \/ \E c \in Calls : Dispatch(c) PROVE GapsOK'
<1>1. UNCHANGED <<count, tracked, round, run>>
  BY DispatchSteps, SteadyParts DEF Interrupt, Aside
<1>2. ASSUME NEW d \in Calls PROVE rec'[d].answers = rec[d].answers /\ (d \notin round => rec'[d] = rec[d])
  <2>1. CASE Interrupt
    <3>1. rec'[d] = rec[d] \/ (d \in Children /\ rec'[d] = Cancelled(rec[d]))
      BY <2>1 DEF Interrupt
    <3>2. Cancelled(rec[d]).answers = rec[d].answers
      BY SteadyParts DEF Cancelled, Consume, Record
    <3>3. Children \subseteq round
      BY SteadyParts
    <3> QED
      BY <3>1, <3>2, <3>3
  <2>2. ASSUME NEW c \in Calls, Dispatch(c) PROVE rec'[d].answers = rec[d].answers /\ (d \notin round => rec'[d] = rec[d])
    <3>1. DispatchEffect(c) /\ c \in round
      BY <2>2, DispatchSteps, DispatchCalm, SteadyParts
    <3>2. rec' = [rec EXCEPT ![c] = rec'[c]] /\ rec'[c].answers = rec[c].answers
      BY <3>1 DEF DispatchEffect
    <3>3. d # c => rec'[d] = rec[d]
      BY <3>2, SteadyParts
    <3> QED
      BY <3>1, <3>2, <3>3
  <2> QED
    BY <2>1, <2>2
<1> QED
  BY <1>1, <1>2, GapsStay, SteadyParts

LEMMA GapsKept == ASSUME NoFaults, Steady, Next PROVE GapsOK'
<1>0. ~Save /\ ~Crash /\ ~FailRound /\ ~RefuseExecuting /\ \A c \in Calls : ~FailStale(c)
  BY FaultlessSteps
<1>1. CASE Cancel \/ ModelEnds \/ StartBatch \/ CloseBatch \/ \E t \in Tools : AllowRule(t)
  <2>1. UNCHANGED <<rec, count, tracked, round>>
    BY <1>1 DEF Cancel, ModelEnds, StartBatch, CloseBatch, AllowRule, ctxVars, roundVars
  <2>2. run' \in {"model", "tools"} => run \in {"model", "tools"}
    BY <1>1 DEF Cancel, ModelEnds, StartBatch, CloseBatch, AllowRule, Producing
  <2>3. \A c \in 1..count : rec[c].answers \in Nat
    BY SteadyParts DEF Record
  <2> QED
    BY <2>1, <2>2, <2>3, GapsStay
<1>2. CASE Deliver
  <2>1. UNCHANGED <<count, tracked, round, run>>
    BY <1>2 DEF Deliver
  <2>2. \A c \in Calls : rec'[c].status = rec[c].status /\ (rec[c].answers > 0 => rec'[c].answers # 0)
    BY <1>2, SteadyParts DEF Deliver, Answer, Record
  <2> QED
    BY <2>1, <2>2, GapsStay, SteadyParts
<1>3. CASE NewTask \/ Resume \/ ModelCalls \/ EndRound \/ StopRun
  BY <1>3, GapsBegin, GapsModelCalls, GapsEndRound, GapsStopRun
<1>4. CASE Interrupt \/ \E c \in Calls : Dispatch(c)
  BY <1>4, GapsInRound
<1>5. CASE \E c \in Calls : Approval(c) \/ UserAnswer(c)
  BY <1>5, GapsHost
<1> QED
  BY <1>0, <1>1, <1>2, <1>3, <1>4, <1>5 DEF Next, Host, Loop

\* For any number of calls, any policy and any middlewares: without faults and
\* restarts a request leaves no call unanswered but one that waits for the user
\* beside a denial, in a conversation that can ask the user (loop.py, the
\* TOOL_DENIED branches; _answer_unanswered).
THEOREM OnlyWaitingCallsAreOpen ==
    ASSUME NoFaults PROVE Spec => []OnlyWaitingGaps
<1>1. Init => Calm /\ GapsOK
  BY DEF Init, Calm, GapsOK
<1>2. NoRepeats /\ NoHookFails /\ MaxRestarts = 0
  BY DEF NoFaults, NoRepeats, NoHookFails
<1>3. Steady /\ [Next]_vars => Calm' /\ GapsOK'
  <2>1. Steady /\ UNCHANGED vars => Calm' /\ GapsOK'
    <3>1. UNCHANGED vars => UNCHANGED <<rec, count, tracked, run, round, batch, clash, broken, step>>
      BY DEF vars, ctxVars, roundVars
    <3> QED
      BY <3>1 DEF Steady, Calm, GapsOK, Gap, Status
  <2> QED
    BY <2>1, CalmKept, GapsKept
<1>4. Init => ExecutingHere
  BY DEF Init, ExecutingHere, Status, Unregistered
<1>5. Sound /\ ExecutingHere /\ [Next]_vars => ExecutingHere'
  BY <1>2, ExecutingHereKept DEF Sound
<1>6. Steady => OnlyWaitingGaps
  <2> SUFFICES ASSUME Steady, run = "model", NEW c \in Registered, rec[c].answers = 0
               PROVE  HumanInput /\ Status(c) \in Waiting /\ \E d \in tracked : rec[d].result \in Denials
    BY DEF OnlyWaitingGaps
  <2>1. round = {}
    BY SteadyParts
  <2> QED
    BY <2>1 DEF Steady, GapsOK, Gap, Registered
<1>7. Spec => []Sound
  BY <1>2, OrderInvariant
<1> QED
  BY <1>1, <1>3, <1>4, <1>5, <1>6, <1>7, PTL DEF Spec, Steady
=============================================================================
