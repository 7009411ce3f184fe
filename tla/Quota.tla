-------------------------------- MODULE Quota --------------------------------
(***************************************************************************)
(* The budget of a task and the quota of its user: runs of one user check  *)
(* and charge one store while others do.                                   *)
(*                                                                         *)
(*   capabilities/middleware/budget.py     BudgetMiddleware                *)
(*   core/model/quota.py                   QuotaLimits, QuotaUsage         *)
(*   capabilities/quota_store/local        one file, a lock, two threads   *)
(*   capabilities/quota_store/mongodb      one update in the database      *)
(*                                                                         *)
(* One step is the code between two awaits.  Cost is a second token        *)
(* counter in the code and is left out, as are seconds of active time;     *)
(* a day is the period.                                                    *)
(***************************************************************************)
EXTENDS Integers, FiniteSets

CONSTANTS
    Payers,         \* the runs the user can have at once
    QuotaTokens,    \* QuotaLimits.max_tokens
    QuotaTasks,     \* QuotaLimits.max_tasks
    TaskTokens,     \* BudgetConfig.max_tokens
    TaskModelCalls, \* BudgetConfig.max_model_calls
    TaskToolCalls,  \* BudgetConfig.max_tool_calls
    Prices,         \* the tokens a response may cost
    LastDay,        \* bound: the days that pass
    KeepPeriods     \* LocalQuotaStore.keep_periods

Days == 1..LastDay

ASSUME QuotaAssumption ==
    /\ IsFiniteSet(Payers) /\ Prices \subseteq Nat \ {0}
    /\ \E dearest \in Prices : \A n \in Prices : n <= dearest
    /\ {QuotaTokens, QuotaTasks, TaskTokens, TaskModelCalls, TaskToolCalls,
        LastDay, KeepPeriods} \subseteq Nat \ {0}

VARIABLES
    backend,    \* "local" or "mongodb"
    today,      \* the period of _now()
    ledger,     \* what the store holds per period
    payer,      \* where each run is
    fresh,      \* it runs a new task, not a resume
    spent,      \* its task's counters
    seen,       \* its quota_used
    due,        \* the charge it is about to add
    copy,       \* the ledger as _add has read it
    charged,    \* history: the sums of all charges
    abandoned   \* history: a run was cancelled while its add was writing (bound: one)

storeVars == <<backend, ledger, charged, abandoned>>
quotaVars == <<backend, today, ledger, payer, fresh, spent, seen, due, copy, charged, abandoned>>

-----------------------------------------------------------------------------
Usage    == [tokens : Nat, tasks : Nat]
NoUsage  == [tokens |-> 0, tasks |-> 0]
Plus(u, v) == [tokens |-> u.tokens + v.tokens, tasks |-> u.tasks + v.tasks]

\* A period the store has no entry for.
NoEntry == [tokens |-> -1, tasks |-> -1]
NoLedger == [d \in Days |-> NoEntry]
UsageOf(l, d) == IF l[d] = NoEntry THEN NoUsage ELSE l[d]

Charges  == [day : Days, sum : Usage]
NoCharge == [day |-> 1, sum |-> NoUsage]

Counters == [tokens : Nat, models : Nat, tools : Nat, blocked : BOOLEAN]
Cleared  == [tokens |-> 0, models |-> 0, tools |-> 0, blocked |-> FALSE]

\* adding: holds the lock of the local store.  gone: cancelled there, the
\* thread writes on.
PayerStates == {"idle", "paused", "starting", "working", "asking", "charging",
                "adding", "gone"}

QuotaTypeOK ==
    /\ backend \in {"local", "mongodb"} /\ today \in Days
    /\ ledger \in [Days -> Usage \cup {NoEntry}]
    /\ payer \in [Payers -> PayerStates] /\ fresh \in [Payers -> BOOLEAN]
    /\ spent \in [Payers -> Counters] /\ seen \in [Payers -> Usage]
    /\ due \in [Payers -> Charges]
    /\ copy \in [Payers -> [Days -> Usage \cup {NoEntry}]]
    /\ charged \in [Days -> Usage] /\ abandoned \in BOOLEAN

QuotaInit ==
    /\ backend \in {"local", "mongodb"} /\ today = 1
    /\ ledger = NoLedger
    /\ payer = [p \in Payers |-> "idle"] /\ fresh = [p \in Payers |-> TRUE]
    /\ spent = [p \in Payers |-> Cleared] /\ seen = [p \in Payers |-> NoUsage]
    /\ due = [p \in Payers |-> NoCharge]
    /\ copy = [p \in Payers |-> NoLedger]
    /\ charged = [d \in Days |-> NoUsage] /\ abandoned = FALSE

-----------------------------------------------------------------------------
(* The checks.                                                             *)

\* QuotaLimits.exceeded: the task limit counts only when a task starts.
QuotaExceeded(used, starting) ==
    \/ used.tokens >= QuotaTokens
    \/ starting /\ used.tasks >= QuotaTasks

\* Slip: the quota is checked when a run starts, not before each request.
ExhaustedTask(s, used) ==
    s.blocked \/ s.tokens >= TaskTokens \/ s.models >= TaskModelCalls

\* BudgetMiddleware._exhausted
Exhausted(s, used) ==
    \/ s.blocked
    \/ s.tokens >= TaskTokens
    \/ s.models >= TaskModelCalls
    \/ QuotaExceeded(used, FALSE)

-----------------------------------------------------------------------------
(* The hooks.                                                              *)

Goes(p, place) == payer' = [payer EXCEPT ![p] = place]

\* The run is over.  What no later step reads is forgotten.
Leaves(p) ==
    /\ Goes(p, "idle")
    /\ spent' = [spent EXCEPT ![p] = Cleared]
    /\ seen' = [seen EXCEPT ![p] = NoUsage]
    /\ due' = [due EXCEPT ![p] = NoCharge]
    /\ copy' = [copy EXCEPT ![p] = NoLedger]

\* A charge goes to the period of the moment it is made, whatever was checked.
Charge(p, sum) ==
    /\ due' = [due EXCEPT ![p] = [day |-> today, sum |-> sum]]
    /\ Goes(p, "charging")

\* on_run_start of a new task: the counters start from zero.
StartTask(p) ==
    /\ payer[p] = "idle"
    /\ Goes(p, "starting") /\ fresh' = [fresh EXCEPT ![p] = TRUE]
    /\ spent' = [spent EXCEPT ![p] = Cleared]
    /\ UNCHANGED <<today, storeVars, seen, due, copy>>

\* on_run_start of a resume: it goes on counting.
ResumeTask(p) ==
    /\ payer[p] = "paused"
    /\ Goes(p, "starting") /\ fresh' = [fresh EXCEPT ![p] = FALSE]
    /\ UNCHANGED <<today, storeVars, spent, seen, due, copy>>

\* The store has answered: StopRun, the charge of a new task, or the run.
CheckQuota(p) ==
    /\ payer[p] = "starting"
    /\ LET used == UsageOf(ledger, today) IN
       IF (fresh[p] /\ QuotaExceeded(used, TRUE)) \/ Exhausted(spent[p], used)
       THEN Leaves(p)
       ELSE /\ seen' = [seen EXCEPT ![p] = used]
            /\ IF fresh[p] THEN Charge(p, [tokens |-> 0, tasks |-> 1])
                           ELSE Goes(p, "working") /\ UNCHANGED due
            /\ UNCHANGED <<spent, copy>>
    /\ UNCHANGED <<today, storeVars, fresh>>

\* on_model_request
AskModel(p) ==
    /\ payer[p] = "working"
    /\ IF Exhausted(spent[p], seen[p])
       THEN Leaves(p)
       ELSE /\ Goes(p, "asking") /\ spent' = [spent EXCEPT ![p].models = @ + 1]
            /\ UNCHANGED <<seen, due, copy>>
    /\ UNCHANGED <<today, storeVars, fresh>>

\* on_model_response
ModelAnswers(p) ==
    /\ payer[p] = "asking"
    /\ \E n \in Prices :
          /\ spent' = [spent EXCEPT ![p].tokens = @ + n]
          /\ Charge(p, [tokens |-> n, tasks |-> 0])
    /\ UNCHANGED <<today, storeVars, fresh, seen, copy>>

\* on_tool_request: the call is counted, or refused and the task blocked.
UseTool(p) ==
    /\ payer[p] = "working"
    /\ spent' = IF Exhausted(spent[p], seen[p]) \/ spent[p].tools >= TaskToolCalls
                THEN [spent EXCEPT ![p].blocked = TRUE]
                ELSE [spent EXCEPT ![p].tools = @ + 1]
    /\ UNCHANGED <<today, storeVars, payer, fresh, seen, due, copy>>

\* on_run_end after the answer, a failed request or a cancellation: nothing
\* is charged for a request without a response.
EndRun(p) ==
    /\ payer[p] \in {"starting", "working", "asking", "charging"}
    /\ Leaves(p)
    /\ UNCHANGED <<today, storeVars, fresh>>

\* The run waits for its user; the counters stay in the session's state.
PauseRun(p) ==
    /\ payer[p] = "working"
    /\ Goes(p, "paused")
    /\ UNCHANGED <<today, storeVars, fresh, spent, seen, due, copy>>

-----------------------------------------------------------------------------
(* The stores' add.                                                        *)

\* LocalQuotaStore._add: the entry of its period replaced, the newest kept.
Newest(l) == LET held == {d \in Days : l[d] # NoEntry}
             IN  [d \in Days |-> IF Cardinality({e \in held : e > d}) < KeepPeriods
                                 THEN l[d] ELSE NoEntry]
Added(l, charge) ==
    [l EXCEPT ![charge.day] = Plus(UsageOf(l, charge.day), charge.sum)]

\* Slip: add without its lock.
StoreOpen == FALSE

\* _locks: one lock per user and store object.
StoreLocked == \E p \in Payers : payer[p] = "adding"

\* _charge keeps the total that the store returns.
Settles(p, l) ==
    /\ seen' = [seen EXCEPT ![p] = l[due[p].day]]
    /\ due' = [due EXCEPT ![p] = NoCharge] /\ copy' = [copy EXCEPT ![p] = NoLedger]
    /\ Goes(p, "working") /\ UNCHANGED spent

AddReads(p) ==
    /\ payer[p] = "charging" /\ backend = "local" /\ ~StoreLocked
    /\ copy' = [copy EXCEPT ![p] = ledger]
    /\ Goes(p, "adding")
    /\ UNCHANGED <<today, storeVars, fresh, spent, seen, due>>

AddWrites(p) ==
    /\ payer[p] \in {"adding", "gone"}
    /\ ledger' = Newest(Added(copy[p], due[p]))
    /\ charged' = Added(charged, due[p])
    /\ IF payer[p] = "gone" THEN Leaves(p) ELSE Settles(p, Added(copy[p], due[p]))
    /\ UNCHANGED <<backend, today, fresh, abandoned>>

\* The run is cancelled in the await of the thread: the lock is free again,
\* the thread still writes.
AbandonAdd(p) ==
    /\ payer[p] = "adding" /\ ~abandoned
    /\ Goes(p, "gone") /\ abandoned' = TRUE
    /\ UNCHANGED <<backend, today, ledger, fresh, spent, seen, due, copy, charged>>

\* MongoDBQuotaStore._add: find_one_and_update with $inc, all periods kept.
AddInDatabase(p) ==
    /\ payer[p] = "charging" /\ backend = "mongodb"
    /\ ledger' = Added(ledger, due[p]) /\ charged' = Added(charged, due[p])
    /\ Settles(p, ledger')
    /\ UNCHANGED <<backend, today, fresh, abandoned>>

NextDay ==
    /\ today < LastDay /\ today' = today + 1
    /\ UNCHANGED <<storeVars, payer, fresh, spent, seen, due, copy>>

QuotaNext ==
    \/ \E p \in Payers :
          \/ StartTask(p) \/ ResumeTask(p) \/ CheckQuota(p) \/ AskModel(p)
          \/ ModelAnswers(p) \/ UseTool(p) \/ EndRun(p) \/ PauseRun(p)
          \/ AddReads(p) \/ AddWrites(p) \/ AbandonAdd(p) \/ AddInDatabase(p)
    \/ NextDay

QuotaSpec == QuotaInit /\ [][QuotaNext]_quotaVars

-----------------------------------------------------------------------------
\* However the runs of a user interleave their checks and charges, each can
\* pass the limit by one response only: its own charge tells it the total
\* (_charge), and the next check stops it.  New tasks may pass theirs by as
\* many as read the store at once.
Dearest == CHOOSE n \in Prices : \A m \in Prices : m <= n

OvershootBounded == ~abandoned =>
    \A d \in Days :
        /\ charged[d].tokens < QuotaTokens + Cardinality(Payers) * Dearest
        /\ charged[d].tasks  < QuotaTasks + Cardinality(Payers)

\* No charge is lost between reading and writing the file, as long as nobody
\* is cancelled in between, and the periods dropped are older than all kept.
ChargesKept == ~abandoned =>
    \A d \in Days :
        /\ ledger[d] # NoEntry => ledger[d] = charged[d]
        /\ ledger[d] = NoEntry /\ charged[d] # NoUsage =>
              Cardinality({e \in Days : e > d /\ ledger[e] # NoEntry}) >= KeepPeriods

\* The quota holds, up to what runs at once may add to it, and the store
\* remembers every charge of the periods it keeps.
QuotaKept == OvershootBounded /\ ChargesKept
=============================================================================
