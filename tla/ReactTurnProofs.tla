--------------------------- MODULE ReactTurnProofs ---------------------------
(***************************************************************************)
(* Theorems about ReactTurn, for every iteration limit and cut-off limit.  *)
(*                                                                         *)
(* What makes the properties inductive is what a run takes along from the  *)
(* pause before it: the stash holds the iterations that were spent and the *)
(* verdict of an answer that waits, it is empty while a run is under way,  *)
(* and past the preamble a call is open only beside a denied one.          *)
(***************************************************************************)
EXTENDS ReactTurn, TLAPS

\* TypeOK in two parts: the SMT solver has the one, Zenon the Booleans.
Flags == /\ inbox \in BOOLEAN /\ asks \in BOOLEAN /\ unseen \in BOOLEAN /\ missed \in BOOLEAN
         /\ denials \in BOOLEAN /\ held \in BOOLEAN /\ finished \in BOOLEAN

Sorts == /\ pc \in Places /\ iteration \in 0..MaxIter /\ decision \in Decisions
         /\ cuts \in 0..MaxCutOffs /\ finish \in Reasons
         /\ stash \in [iteration : 0..MaxIter, decision : Decisions]
         /\ open \in SUBSET {"asked", "decided"} /\ spent \in Nat

\* Between runs the stash of a pause holds the iterations of the task; a run
\* has taken them out, and one with MaxCutOffs cut-offs is over.
BudgetOK ==
    /\ spent <= MaxIter
    /\ pc # "idle" => /\ spent = iteration /\ stash = Fresh /\ finish = "none"
                      /\ cuts < MaxCutOffs
    /\ pc = "idle" => IF finish \in Pauses THEN stash.iteration = spent ELSE stash = Fresh

\* An answer is shaped only when nothing is open.
SettledOK == SettledWhenCompleted /\ (pc = "shape" => open = {})

\* The verdict an answer waits for comes along to the recheck.
HeldOK ==
    held => \/ pc = "idle" /\ (finish \in Pauses => stash.decision = "waiting")
            \/ pc \in {"preamble", "recheck"} /\ decision = "waiting"

\* Past the preamble no answer waits, and a call is open beside a denied one.
OpenOK ==
    /\ pc \in {"top", "model", "tools", "gate", "shape", "limit"} => decision # "waiting"
    /\ pc \notin {"idle", "preamble"} /\ open # {} => denials
    /\ pc = "preamble" /\ decision = "waiting" /\ open # {} => denials
    /\ pc = "idle" /\ stash.decision = "waiting" /\ open # {} => denials

Current == ~missed /\ (unseen => denials)

\* The answer that is judged knows all there was, also after a pause.
CurrentOK ==
    /\ finish = "completed" => Current
    /\ pc \in {"gate", "shape", "recheck"} => Current
    /\ pc \in {"model", "gate", "shape"} => ~unseen
    /\ pc = "preamble" /\ decision = "waiting" => Current
    /\ pc = "idle" /\ stash.decision = "waiting" => Current

IInv == Sorts /\ BudgetOK /\ SettledOK /\ HeldOK /\ OpenOK /\ CurrentOK

\* What a verdict leads to, in the recheck and in the main loop.
RecheckEnds(verdict) ==
    /\ held' = (verdict = "waiting")
    /\ IF verdict = "incomplete"
         THEN pc' = "top" /\ decision' = verdict /\ UNCHANGED <<finish, stash>>
         ELSE End(verdict, verdict)

JudgeEnds(verdict) ==
    /\ held' = (verdict = "waiting")
    /\ IF verdict = "waiting"
         THEN End(verdict, verdict)
         ELSE /\ pc' = IF verdict = "completed" THEN "shape" ELSE "top"
              /\ decision' = verdict
              /\ UNCHANGED <<finish, stash>>

-----------------------------------------------------------------------------
LEMMA FlagsHold == Spec => []Flags
<1>1. Init => Flags
  BY DEF Init, Flags
<1>2. Flags /\ [Next]_vars => Flags'
  <2> SUFFICES ASSUME Flags, [Next]_vars PROVE Flags'
    OBVIOUS
  <2> USE DEF Flags
  <2>1. CASE NewTask \/ Resume \/ Decide \/ Send \/ Fail
    BY <2>1, Zenon DEF NewTask, Resume, Decide, Send, Fail, pastVars
  <2>2. CASE NothingPending \/ FinishPending \/ Recheck
    BY <2>2, Zenon DEF NothingPending, FinishPending, Recheck, pastVars
  <2>3. CASE Request \/ RequestAtLimit \/ AnswerAtLimit \/ CutOff \/ CallTools \/ AnswerText
    BY <2>3, Zenon DEF Request, RequestAtLimit, AnswerAtLimit, CutOff, CallTools, AnswerText, pastVars
  <2>4. CASE RunTools \/ Judge \/ Shape
    BY <2>4, Zenon DEF RunTools, Judge, Shape
  <2>5. CASE UNCHANGED vars
    BY <2>5, Zenon DEF vars, pastVars
  <2> QED BY <2>1, <2>2, <2>3, <2>4, <2>5 DEF Next, Work
<1> QED BY <1>1, <1>2, PTL DEF Spec

LEMMA Initially == Init => IInv
BY ConstantsAssumption DEF ConstantsAssumption, Init, IInv, Sorts, BudgetOK, SettledOK,
   SettledWhenCompleted, HeldOK, OpenOK, CurrentOK, Current, Places, Decisions, Reasons, Pauses, Fresh

\* What the host does between the steps of a run.
LEMMA HostKeeps == ASSUME IInv, NewTask \/ Resume \/ Decide \/ Send PROVE IInv'
<1> USE ConstantsAssumption DEF ConstantsAssumption, IInv,
        Places, Decisions, Reasons, Pauses, Fresh
<1>1. CASE NewTask
  BY <1>1 DEF NewTask, Sorts, BudgetOK, SettledOK,
     SettledWhenCompleted, HeldOK, OpenOK, CurrentOK, Current
<1>2. CASE Resume
  <2>1. Sorts'
    BY <1>2 DEF Resume, Sorts, BudgetOK
  <2>2. BudgetOK'
    BY <1>2 DEF Resume, Sorts, BudgetOK
  <2>3. SettledOK'
    BY <1>2 DEF Resume, SettledOK, SettledWhenCompleted
  <2>4. HeldOK'
    BY <1>2 DEF Resume, Sorts, BudgetOK, HeldOK
  <2>5. OpenOK'
    BY <1>2 DEF Resume, Sorts, BudgetOK, OpenOK
  <2>6. CurrentOK'
    BY <1>2 DEF Resume, Sorts, BudgetOK, OpenOK, CurrentOK, Current
  <2> QED BY <2>1, <2>2, <2>3, <2>4, <2>5, <2>6 DEF IInv
<1>3. CASE Decide
  BY <1>3 DEF Decide, loopVars, pastVars, Sorts, BudgetOK, SettledOK,
     SettledWhenCompleted, HeldOK, OpenOK, CurrentOK, Current
<1>4. CASE Send
  BY <1>4 DEF Send, loopVars, pastVars, Sorts, BudgetOK, SettledOK,
     SettledWhenCompleted, HeldOK, OpenOK, CurrentOK, Current
<1> QED BY <1>1, <1>2, <1>3, <1>4

\* A run up to its first request, and its failure.
LEMMA PreambleKeeps ==
    ASSUME IInv, Fail \/ NothingPending \/ FinishPending \/ Recheck PROVE IInv'
<1> USE ConstantsAssumption DEF ConstantsAssumption, IInv,
        Places, Decisions, Reasons, Pauses, Fresh, End, Go, Kept
<1>1. CASE Fail
  BY <1>1 DEF Fail, Sorts, BudgetOK, SettledOK,
     SettledWhenCompleted, HeldOK, OpenOK, CurrentOK, Current
<1>2. CASE NothingPending
  BY <1>2 DEF NothingPending, AfterPreamble, pastVars, Sorts, BudgetOK, SettledOK,
     SettledWhenCompleted, HeldOK, OpenOK, CurrentOK, Current
<1>3. CASE FinishPending
  <2>1. Sorts'
    BY <1>3 DEF FinishPending, RoundOver, AfterPreamble, Sorts, BudgetOK
  <2>2. BudgetOK'
    BY <1>3 DEF FinishPending, RoundOver, AfterPreamble, Sorts, BudgetOK
  <2>3. SettledOK'
    BY <1>3 DEF FinishPending, RoundOver, AfterPreamble, SettledOK, SettledWhenCompleted
  <2>4. HeldOK'
    BY <1>3 DEF FinishPending, RoundOver, AfterPreamble, Sorts, BudgetOK, HeldOK
  <2>5. OpenOK'
    <3>1. PICK waiting \in SUBSET (open \cap {"asked"}), denied \in BOOLEAN :
            /\ open' = waiting
            /\ denials' = (denials \/ denied)
            /\ RoundOver(denied, waiting # {}, AfterPreamble)
      BY <1>3 DEF FinishPending
    <3>2. (denials => denials') /\ (denied => denials')
      BY <3>1, Zenon
    <3>3. /\ open' = waiting /\ waiting \subseteq open
          /\ RoundOver(denied, waiting # {}, AfterPreamble)
      BY <3>1
    <3> QED
      BY <1>3, <3>2, <3>3 DEF FinishPending, RoundOver, AfterPreamble, Sorts, BudgetOK, OpenOK
  <2>6. CurrentOK'
    BY <1>3 DEF FinishPending, RoundOver, AfterPreamble, Sorts, BudgetOK, OpenOK, CurrentOK, Current
  <2> QED BY <2>1, <2>2, <2>3, <2>4, <2>5, <2>6 DEF IInv
<1>4. CASE Recheck
  <2>1. Sorts'
    BY <1>4 DEF Recheck, Verdicts, Sorts, BudgetOK
  <2>2. BudgetOK'
    BY <1>4 DEF Recheck, Verdicts, Sorts, BudgetOK
  <2>3. SettledOK'
    BY <1>4 DEF Recheck, Verdicts, SettledOK, SettledWhenCompleted
  <2>4. HeldOK'
    <3>1. held' => decision' = "waiting" /\ pc' = "idle" /\ stash'.decision = "waiting"
      <4> SUFFICES ASSUME held' PROVE decision' = "waiting" /\ pc' = "idle" /\ stash'.decision = "waiting"
        OBVIOUS
      <4>1. PICK verdict \in Verdicts : RecheckEnds(verdict)
        BY <1>4 DEF Recheck, RecheckEnds
      <4>2. verdict = "waiting"
        BY <4>1, Zenon DEF RecheckEnds
      <4> QED BY <4>1, <4>2 DEF RecheckEnds
    <3> QED BY <3>1 DEF HeldOK
  <2>5. OpenOK'
    BY <1>4 DEF Recheck, Verdicts, Sorts, BudgetOK, OpenOK
  <2>6. CurrentOK'
    BY <1>4 DEF Recheck, Verdicts, Sorts, BudgetOK, OpenOK, CurrentOK, Current
  <2> QED BY <2>1, <2>2, <2>3, <2>4, <2>5, <2>6 DEF IInv
<1> QED BY <1>1, <1>2, <1>3, <1>4

\* The main loop.
LEMMA LoopKeeps ==
    ASSUME IInv, \/ Request \/ RequestAtLimit \/ AnswerAtLimit
                 \/ CutOff \/ CallTools \/ AnswerText \/ RunTools \/ Judge \/ Shape
    PROVE  IInv'
<1> USE ConstantsAssumption DEF ConstantsAssumption, IInv,
        Places, Decisions, Reasons, Pauses, Fresh, End, Go, Kept
<1>1. CASE Request
  BY <1>1 DEF Request, AtLimit, Sorts, BudgetOK, SettledOK,
     SettledWhenCompleted, HeldOK, OpenOK, CurrentOK, Current
<1>2. CASE RequestAtLimit
  BY <1>2 DEF RequestAtLimit, Sorts, BudgetOK, SettledOK,
     SettledWhenCompleted, HeldOK, OpenOK, CurrentOK, Current
<1>3. CASE AnswerAtLimit
  BY <1>3 DEF AnswerAtLimit, pastVars, Sorts, BudgetOK, SettledOK,
     SettledWhenCompleted, HeldOK, OpenOK, CurrentOK, Current
<1>4. CASE CutOff
  <2>1. Sorts'
    BY <1>4 DEF CutOff, Sorts, BudgetOK
  <2>2. BudgetOK'
    BY <1>4 DEF CutOff, Sorts, BudgetOK
  <2>3. SettledOK'
    BY <1>4 DEF CutOff, SettledOK, SettledWhenCompleted
  <2>4. HeldOK'
    BY <1>4 DEF CutOff, Sorts, BudgetOK, HeldOK
  <2>5. OpenOK'
    BY <1>4 DEF CutOff, Sorts, BudgetOK, OpenOK
  <2>6. CurrentOK'
    BY <1>4 DEF CutOff, Sorts, BudgetOK, OpenOK, CurrentOK, Current
  <2> QED BY <2>1, <2>2, <2>3, <2>4, <2>5, <2>6 DEF IInv
<1>5. CASE CallTools
  BY <1>5 DEF CallTools, Sorts, BudgetOK, SettledOK,
     SettledWhenCompleted, HeldOK, OpenOK, CurrentOK, Current
<1>6. CASE AnswerText
  BY <1>6 DEF AnswerText, WroteMeanwhile, Sorts, BudgetOK, SettledOK,
     SettledWhenCompleted, HeldOK, OpenOK, CurrentOK, Current
<1>7. CASE RunTools
  <2>1. Sorts'
    BY <1>7 DEF RunTools, RoundOver, Sorts, BudgetOK
  <2>2. BudgetOK'
    BY <1>7 DEF RunTools, RoundOver, Sorts, BudgetOK
  <2>3. SettledOK'
    BY <1>7 DEF RunTools, RoundOver, Sorts, BudgetOK, SettledOK, SettledWhenCompleted
  <2>4. HeldOK'
    BY <1>7 DEF RunTools, RoundOver, Sorts, BudgetOK, HeldOK
  <2>5. OpenOK'
    <3>1. PICK asked \in BOOLEAN, denied \in BOOLEAN :
            /\ open' = IF asked THEN open \cup {"asked"} ELSE open
            /\ denials' = (denials \/ denied)
            /\ RoundOver(denied, asked, "top")
      BY <1>7 DEF RunTools
    <3>2. (denials => denials') /\ (denied => denials')
      BY <3>1, Zenon
    <3>3. /\ ~asked => open' = open
          /\ RoundOver(denied, asked, "top")
      BY <3>1
    <3> QED BY <1>7, <3>2, <3>3 DEF RunTools, RoundOver, Sorts, BudgetOK, OpenOK
  <2>6. CurrentOK'
    BY <1>7 DEF RunTools, RoundOver, Sorts, BudgetOK, OpenOK, CurrentOK, Current
  <2> QED BY <2>1, <2>2, <2>3, <2>4, <2>5, <2>6 DEF IInv
<1>8. CASE Judge
  <2>1. Sorts'
    BY <1>8 DEF Judge, Verdicts, Sorts, BudgetOK
  <2>2. BudgetOK'
    BY <1>8 DEF Judge, Verdicts, Sorts, BudgetOK
  <2>3. SettledOK'
    BY <1>8 DEF Judge, Verdicts, SettledOK, SettledWhenCompleted
  <2>4. HeldOK'
    <3>1. held' => decision' = "waiting" /\ pc' = "idle" /\ stash'.decision = "waiting"
      <4> SUFFICES ASSUME held' PROVE decision' = "waiting" /\ pc' = "idle" /\ stash'.decision = "waiting"
        OBVIOUS
      <4>1. PICK verdict \in Verdicts : JudgeEnds(verdict)
        BY <1>8 DEF Judge, JudgeEnds
      <4>2. verdict = "waiting"
        BY <4>1, Zenon DEF JudgeEnds
      <4> QED BY <4>1, <4>2 DEF JudgeEnds
    <3> QED BY <3>1 DEF HeldOK
  <2>5. OpenOK'
    BY <1>8 DEF Judge, Verdicts, Sorts, BudgetOK, OpenOK
  <2>6. CurrentOK'
    BY <1>8 DEF Judge, Verdicts, Sorts, BudgetOK, OpenOK, CurrentOK, Current
  <2> QED BY <2>1, <2>2, <2>3, <2>4, <2>5, <2>6 DEF IInv
<1>9. CASE Shape
  BY <1>9 DEF Shape, Sorts, BudgetOK, SettledOK,
     SettledWhenCompleted, HeldOK, OpenOK, CurrentOK, Current
<1> QED BY <1>1, <1>2, <1>3, <1>4, <1>5, <1>6, <1>7, <1>8, <1>9

LEMMA StutterKeeps == ASSUME IInv, UNCHANGED vars PROVE IInv'
BY DEF IInv, Sorts, BudgetOK, SettledOK, SettledWhenCompleted, HeldOK, OpenOK, CurrentOK,
       Current, vars, loopVars, pastVars

\* The invariant all theorems below follow from.
THEOREM Invariance == Spec => []IInv
<1>1. IInv /\ [Next]_vars => IInv'
  BY HostKeeps, PreambleKeeps, LoopKeeps, StutterKeeps DEF Next, Work
<1> QED BY Initially, <1>1, PTL DEF Spec

-----------------------------------------------------------------------------
\* Every variable keeps its type; iteration never passes max_loop_iterations.
THEOREM TypeCorrect == Spec => []TypeOK
<1>1. IInv /\ Flags => TypeOK
  BY DEF IInv, Sorts, Flags, TypeOK
<1> QED BY Invariance, FlagsHold, <1>1, PTL

\* Pauses and resumes never give a task more requests than one run has
\* (execute_reasoning_loop, the metrics in shared_state).
THEOREM PausesKeepTheBudget == Spec => []BudgetKept
<1>1. IInv => BudgetKept
  BY DEF IInv, BudgetOK, BudgetKept
<1> QED BY Invariance, <1>1, PTL

\* A completed turn has no open call, on the gate's path and on the recheck's.
THEOREM CompletedIsSettled == Spec => []SettledWhenCompleted
<1>1. IInv => SettledWhenCompleted
  BY DEF IInv, SettledOK
<1> QED BY Invariance, <1>1, PTL

\* An accepted answer knows the whole conversation, unless a call was denied.
THEOREM AcceptedIsCurrent == Spec => []AnswerIsCurrent
<1>1. IInv => AnswerIsCurrent
  BY DEF IInv, CurrentOK, Current, AnswerIsCurrent
<1> QED BY Invariance, <1>1, PTL

\* An answer that waits is judged before the next request of its task.
THEOREM HeldIsJudgedFirst == Spec => []HeldAnswerFirst
<1>1. IInv => HeldAnswerFirst
  BY DEF IInv, HeldOK, HeldAnswerFirst
<1> QED BY Invariance, <1>1, PTL
=============================================================================
