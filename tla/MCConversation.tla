---------------------------- MODULE MCConversation ----------------------------
(* From the terminal to the model, one component in each behaviour: the      *)
(* initial state chooses it, the others rest.                                *)
EXTENDS Terminal, Permissions, ModelCall, Components, Hooks, TLC

VARIABLE part    \* the component that runs in this behaviour

CONSTANTS one, two     \* two of a kind, whatever the component
CONSTANTS here, there   \* two conversations

Alike == Permutations({one, two}) \cup Permutations({here, there})

\* Lines of commands; sudo is denied, and reached in every way there is: also
\* by a script the scan of the options does not find and by an expansion.
Seg(words, script) == [words |-> words, script |-> script, hidden |-> <<>>]
Alone(words) == <<Seg(words, <<>>)>>
EvalSudo == <<Seg(<<"eval">>, Alone(<<"sudo">>))>>
Push == Seg(<<"git", "push">>, <<>>)
Single ==
    {Seg(<<"ls">>, <<>>), Seg(<<"git">>, <<>>), Push, Seg(<<"sudo", "ls">>, <<>>),
     Seg(<<"env">>, <<>>), Seg(<<"env", "A=1", "/sudo">>, <<>>), Seg(<<"then", "sudo">>, <<>>), Seg(<<"A=1">>, <<>>),
     Seg(<<"env", "sh", "-e", "-c">>, Alone(<<"sudo">>)), Seg(<<"sh", "-c">>, EvalSudo),
     Seg(<<"sh", "-c", "-e">>, Alone(<<"sudo">>)), Seg(<<"sh", "-o", "x", "-c">>, Alone(<<"sudo">>)),
     [Seg(<<"ls">>, <<>>) EXCEPT !.hidden = Alone(<<"sudo">>)]}

MCScripts ==
    {<<>>, Alone(<<"sudo">>), EvalSudo} \cup {<<seg>> : seg \in Single}
      \cup {<<Seg(<<"ls">>, <<>>), seg>> :
              seg \in {Seg(<<"git">>, <<>>), Push, Seg(<<"sudo", "ls">>, <<>>)}}

MCPolicies ==
    {[allow |-> <<Rule(<<"git">>, FALSE), Rule(<<"ls">>, TRUE)>>, ask |-> {Rule(Push.words, TRUE)},
      deny |-> {Rule(<<"sudo">>, TRUE)}],
     [allow |-> <<Rule(<<>>, TRUE)>>, ask |-> {}, deny |-> {Rule(<<"sudo">>, TRUE)}]}

MCQualified == [word \in {"/sudo"} |-> "sudo"]

\* Where the components rest that have many initial states.
OnePolicy == rules = (CHOOSE r \in MCPolicies : r.ask = {}) /\ ~isolated /\ ~auto

OneRequest ==
    /\ provider = "openai" /\ features = {}
    /\ request = [media |-> "text", tools |-> FALSE, streaming |-> FALSE]

\* The media of a request matter only until it is sent.
Sampled == request.media # "text" => ~request.streaming

NoComponent ==
    /\ built = NoData /\ stored = Nothing("none") /\ loaded = Nothing("none")
    /\ release = [defaults |-> FALSE, versions |-> FALSE]

-----------------------------------------------------------------------------
Init ==
    /\ part \in {"terminal", "permissions", "model", "components", "hooks"}
    /\ TerminalInit
    /\ PermissionsInit /\ (part # "permissions" => OnePolicy)
    /\ ModelCallInit /\ IF part = "model" THEN Sampled ELSE OneRequest
    /\ IF part = "components" THEN ComponentsInit ELSE NoComponent
    /\ HooksInit /\ (part # "hooks" => tracer = 1)

Next ==
    \/ /\ part = "terminal" /\ TerminalNext
       /\ UNCHANGED <<part, permissionVars, modelCallVars, componentVars,
                      hookVars>>
    \/ /\ part = "permissions" /\ PermissionsNext
       /\ UNCHANGED <<part, <<hostVars, logVars>>, modelCallVars, componentVars,
                      hookVars>>
    \/ /\ part = "model" /\ ModelCallNext
       /\ UNCHANGED <<part, <<hostVars, logVars>>, permissionVars,
                      componentVars, hookVars>>
    \/ /\ part = "components" /\ ComponentsNext
       /\ UNCHANGED <<part, <<hostVars, logVars>>, permissionVars,
                      modelCallVars, hookVars>>
    \/ /\ part = "hooks" /\ HooksNext
       /\ UNCHANGED <<part, <<hostVars, logVars>>, permissionVars,
                      modelCallVars, componentVars>>

Spec == Init /\ [][Next]_<<part, <<hostVars, logVars>>, permissionVars,
                        modelCallVars, componentVars, hookVars>>
=============================================================================
