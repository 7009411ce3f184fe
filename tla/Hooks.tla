--------------------------------- MODULE Hooks ---------------------------------
(***************************************************************************)
(* The middlewares around a run, its model call and its tool calls: requests *)
(* go through them in order and responses in reverse, any hook may cut a     *)
(* pass short, and one of them traces: it opens a span at a request and ends *)
(* it at what answers.                                                       *)
(*                                                                         *)
(*   core/middleware/chain.py              MiddlewareChain                   *)
(*   capabilities/middleware/tracing.py    TracingMiddleware                 *)
(*   agents/agent.py, base/reasoning.py, core/tool/dispatcher.py: the calls  *)
(***************************************************************************)
EXTENDS Naturals

CONSTANTS
    Chain,      \* how many middlewares there are
    ToolCalls,  \* tool calls that may run at once
    MaxRuns,    \* bound: the run and its resumes
    MaxModels   \* bound: model calls of one run

ASSUME HooksAssumption == Chain \in Nat \ {0} /\ MaxRuns \in Nat /\ MaxModels \in Nat

VARIABLES
    tracer,     \* the place of the tracing middleware in the chain
    run,        \* how far the run is
    runs,       \* run_start was called this often
    models,     \* model calls of this run
    runSpan,    \* the span in _runs
    unheard,    \* a hook ended the last pass of the run before the tracer
    model,      \* the model call and its span
    tools       \* the tool calls and their spans

hookVars == <<tracer, run, runs, models, runSpan, unheard, model, tools>>

-----------------------------------------------------------------------------
RunStates == {"idle", "running", "ending", "failing", "paused", "over"}
CallStates == {"none", "asked", "recovered", "answered", "failed", "refused", "cut", "cancelled"}
Spans == {"none", "open", "ended", "twice"}
NoCall == [state |-> "none", span |-> "none"]

HooksTypeOK ==
    /\ tracer \in 1..Chain /\ run \in RunStates /\ runs \in 0..MaxRuns /\ models \in 0..MaxModels
    /\ runSpan \in Spans /\ unheard \in BOOLEAN
    /\ model \in [state : CallStates, span : Spans]
    /\ tools \in [ToolCalls -> [state : CallStates, span : Spans]]

HooksInit ==
    /\ tracer \in 1..Chain /\ run = "idle" /\ runs = 0 /\ models = 0
    /\ runSpan = "none" /\ unheard = FALSE
    /\ model = NoCall /\ tools = [c \in ToolCalls |-> NoCall]

\* The middleware that ends a pass; none does at Chain + 1 or at 0.
Cuts == (0..Chain + 1) \ {tracer}
Passes(cut) == cut \notin 1..Chain

HeardInOrder(cut) == cut = 0 \/ tracer < cut
HeardInReverse(cut) == cut = Chain + 1 \/ tracer > cut

Opened(heard) == IF heard THEN "open" ELSE "none"
Ended(span, heard) ==
    IF ~heard \/ span = "none" THEN span ELSE IF span = "open" THEN "ended" ELSE "twice"

\* request.metadata.pop: the span of a call is ended by what pops it.
Popped(span, heard) == IF span = "open" /\ heard THEN "ended" ELSE span

Running == run = "running"

\* StopRun ends the turn; anything else that is raised ends the run.  What a
\* call raises that outlived its round reaches no one.
AfterCut(cut, how) ==
    run' = IF Passes(cut) \/ ~Running THEN run ELSE IF how = "stop" THEN "ending" ELSE "failing"

NoTool == \A c \in ToolCalls : tools[c].state # "asked"

-----------------------------------------------------------------------------
RunStart(cut, how) ==
    /\ run \in {"idle", "paused"} /\ runs < MaxRuns
    /\ runs' = runs + 1 /\ models' = 0 /\ unheard' = FALSE
    /\ runSpan' = Opened(HeardInOrder(cut))
    /\ run' = IF Passes(cut) THEN "running" ELSE IF how = "stop" THEN "ending" ELSE "failing"
    /\ model' = NoCall /\ tools' = [c \in ToolCalls |-> NoCall]
    /\ UNCHANGED tracer

\* on_run_end, of a turn that closed, paused or was stopped: a hook that
\* raises ends the run there, and the rest hears of nothing.
RunEnd(cut, next) ==
    /\ run = "ending"
    /\ runSpan' = Ended(runSpan, HeardInReverse(cut))
    /\ unheard' = ~HeardInReverse(cut)
    /\ run' = IF Passes(cut) THEN next ELSE "over"
    /\ UNCHANGED <<tracer, runs, models, model, tools>>

\* Slip: a hook that fails hides the error from the ones after it.
HearsErrorUntil(cut, how) == HeardInReverse(cut)

\* on_run_error: a hook that fails is passed over, a cancelled one is not.
HearsError(cut, how) == how = "raise" \/ HeardInReverse(cut)

RunError(cut, how) ==
    /\ run = "failing"
    /\ runSpan' = Ended(runSpan, HearsError(cut, how))
    /\ unheard' = (how = "cancel" /\ ~HeardInReverse(cut))
    /\ run' = "over"
    /\ UNCHANGED <<tracer, runs, models, model, tools>>

-----------------------------------------------------------------------------
AskModel(cut, how) ==
    /\ Running /\ NoTool /\ models < MaxModels
    /\ model.state \in {"none", "answered"}
    /\ models' = models + 1
    /\ model' = [state |-> IF Passes(cut) THEN "asked" ELSE "refused",
                 span |-> Opened(HeardInOrder(cut))]
    /\ tools' = [c \in ToolCalls |-> NoCall]
    /\ AfterCut(cut, how)
    /\ UNCHANGED <<tracer, runs, runSpan, unheard>>

\* The model answered, or a middleware did in its place.
ModelResponds(cut, how) ==
    /\ Running /\ model.state \in {"asked", "recovered"}
    /\ model' = [state |-> IF Passes(cut) THEN "answered" ELSE "cut",
                 span |-> Popped(model.span, HeardInReverse(cut))]
    /\ AfterCut(cut, how)
    /\ UNCHANGED <<tracer, runs, models, runSpan, unheard, tools>>

\* The call failed after its retries, or in a hook on a chunk: the first that
\* recovers wins, and the ones after it hear only of the response.
ModelError(cut, how) ==
    /\ Running /\ model.state = "asked"
    /\ model' = [state |-> IF Passes(cut) THEN "failed"
                           ELSE IF how = "recover" THEN "recovered" ELSE "cut",
                 span |-> Popped(model.span, HeardInReverse(cut))]
    /\ run' = IF ~Passes(cut) /\ how = "recover" THEN run
              ELSE IF how = "stop" THEN "ending" ELSE "failing"
    /\ UNCHANGED <<tracer, runs, models, runSpan, unheard, tools>>

\* A cancelled call tells no one.
ModelCancelled ==
    /\ Running /\ model.state = "asked"
    /\ model' = [model EXCEPT !.state = "cancelled"] /\ run' = "failing"
    /\ UNCHANGED <<tracer, runs, models, runSpan, unheard, tools>>

-----------------------------------------------------------------------------
\* A middleware may answer in the tool's place; the others hear no response.
\* A call that waited for a slot may begin when a sibling has ended the run.
UseTool(c, cut, how) ==
    /\ run # "idle" /\ model.state = "answered" /\ tools[c].state = "none"
    /\ tools' = [tools EXCEPT ![c] =
         [state |-> IF Passes(cut) THEN "asked" ELSE IF how = "answer" THEN "refused" ELSE "cut",
          span |-> Opened(HeardInOrder(cut))]]
    /\ IF how = "answer" THEN run' = run ELSE AfterCut(cut, how)
    /\ UNCHANGED <<tracer, runs, models, runSpan, unheard, model>>

\* The tool returned, failed or ran out of time, maybe when the run was over:
\* what a sibling raised ended the round, and this one goes on.
ToolReturns(c, cut, how) ==
    /\ tools[c].state = "asked"
    /\ tools' = [tools EXCEPT ![c] =
         [state |-> IF Passes(cut) THEN "answered" ELSE "cut",
          span |-> Popped(tools[c].span, HeardInReverse(cut))]]
    /\ AfterCut(cut, how)
    /\ UNCHANGED <<tracer, runs, models, runSpan, unheard, model>>

\* The run is cancelled.
ToolCancelled(c) ==
    /\ run \in {"running", "failing"} /\ tools[c].state = "asked"
    /\ tools' = [tools EXCEPT ![c].state = "cancelled"] /\ run' = "failing"
    /\ UNCHANGED <<tracer, runs, models, runSpan, unheard, model>>

\* The gates accepted the answer, or the turn waits for the user.
FinalResponse(cut, how) ==
    /\ Running /\ model.state = "answered" /\ NoTool
    /\ run' = IF Passes(cut) \/ how = "stop" THEN "ending" ELSE "failing"
    /\ UNCHANGED <<tracer, runs, models, runSpan, unheard, model, tools>>

HooksNext ==
    \/ \E cut \in Cuts :
         \/ \E how \in {"stop", "raise"} :
              \/ RunStart(cut, how) \/ AskModel(cut, how) \/ ModelResponds(cut, how)
              \/ FinalResponse(cut, how)
         \/ \E next \in {"paused", "over"} : RunEnd(cut, next)
         \/ \E how \in {"raise", "cancel"} : RunError(cut, how)
         \/ \E how \in {"recover", "stop", "raise"} : ModelError(cut, how)
         \/ \E c \in ToolCalls :
              \/ \E how \in {"answer", "stop", "raise"} : UseTool(c, cut, how)
              \/ \E how \in {"stop", "raise"} : ToolReturns(c, cut, how)
    \/ ModelCancelled \/ \E c \in ToolCalls : ToolCancelled(c)

HooksSpec == HooksInit /\ [][HooksNext]_hookVars

-----------------------------------------------------------------------------
\* A call keeps its span open while it is under way, and for good when it was
\* cancelled or a hook cut it short: nothing else ends the span of a call.
MayBeOpen == {"asked", "recovered", "refused", "cut", "cancelled"}

\* However hooks cut the passes short, no span is ended twice; that of a run is
\* ended when the run is over, unless a hook of its last pass stopped the pass
\* before the tracer; that of a model call that was answered, also by a
\* middleware that recovered it, or that failed for good is ended, and so is
\* that of a tool call whose result all heard, also after its run; and while a
\* run goes on its calls are traced under it.
SpansEnded ==
    /\ run \in {"paused", "over"} /\ ~unheard => runSpan # "open"
    /\ model.span = "open" => model.state \in MayBeOpen
    /\ \A c \in ToolCalls : tools[c].span = "open" => tools[c].state \in MayBeOpen
    /\ "twice" \notin {runSpan, model.span} \cup {tools[c].span : c \in ToolCalls}
    /\ Running => runSpan = "open"
    /\ model.state \in {"asked", "recovered", "answered"} => model.span # "none"

=============================================================================
