----------------------------- MODULE MCRemembered -----------------------------
(* What an agent reads and remembers, one component in each behaviour: the   *)
(* initial state chooses it, the others rest.                                *)
EXTENDS FileTools, FilePaths, Registries, Logbook, Skills, Compaction

VARIABLE part    \* the component that runs in this behaviour

CONSTANTS one, two     \* two of a kind, whatever the component
CONSTANT first          \* a third that differs

Alike == Permutations({one, two})

\* A folder with one of everything, where some names are used twice.
MCNodes ==
    {[path |-> p, kind |-> "dir"] : p \in
        {<<"workspace">>, <<"skills">>, <<"tools">>, <<"workspace", "skills">>,
         <<"workspace", "d">>, <<".d">>}}
      \cup {[path |-> p, kind |-> "file"] : p \in
        {<<"workspace", "a">>, <<"workspace", "d", "a">>, <<"skills", "a">>,
         <<"workspace", "skills", "a">>, <<"b">>}}
      \cup {[path |-> <<"workspace", "l">>, kind |-> "link"],
            [path |-> <<"workspace", "long">>, kind |-> "long"]}

\* One result of one candidate, or the two that say just what was asked.
Tight == [results |-> 1, candidates |-> 1, score |-> 0]
Wide == [results |-> 2, candidates |-> 2, score |-> 1]
MCLimits == {Tight, Wide}
MCCloseness == [pair \in Texts \X Texts |-> IF pair[1] = pair[2] THEN 2 ELSE 1]

\* Under the tight limits all can embed, under the wide ones who asks; one of
\* the two is enough for the knowledge.
Searchable ==
    /\ embeds = IF registry.limits = Tight THEN Rows ELSE Askers
    /\ registry.holds = "knowledge" => registry.limits = Tight

\* Where the components rest that have many initial states.
NoFiles ==
    /\ tree = {} /\ asked = [tool |-> "none", path |-> <<>>]
    /\ answer = [paths |-> {}, truncated |-> FALSE]

OneRegistry ==
    /\ registry.holds = "memory" /\ registry.backend = "local" /\ registry.limits = Tight /\ embeds = {}
    /\ memories = [r \in Rows |-> NoMemory]

-----------------------------------------------------------------------------
Init ==
    /\ part \in {"files", "paths", "registries", "logbook", "skills",
                 "compaction"}
    /\ FileToolsInit /\ (part # "files" => process = [t \in Talks |-> 1])
    /\ IF part = "paths" THEN FilePathsInit ELSE NoFiles
    /\ RegistriesInit /\ IF part = "registries" THEN Searchable ELSE OneRegistry
    /\ LogbookInit /\ (part # "logbook" => logbook = "local")
    /\ SkillsInit /\ (part # "skills" => source = 0 /\ ~installed)
    /\ CompactionInit /\ (part # "compaction" => strategy = "window" /\ history = 0)

Next ==
    \/ /\ part = "files" /\ FileToolsNext
       /\ UNCHANGED <<part, filePathsVars, registriesVars, logbookVars,
                      skillsVars, compactionVars>>
    \/ /\ part = "paths" /\ FilePathsNext
       /\ UNCHANGED <<part, fileToolsVars, registriesVars, logbookVars,
                      skillsVars, compactionVars>>
    \/ /\ part = "registries" /\ RegistriesNext
       /\ UNCHANGED <<part, fileToolsVars, filePathsVars, logbookVars,
                      skillsVars, compactionVars>>
    \/ /\ part = "logbook" /\ LogbookNext
       /\ UNCHANGED <<part, fileToolsVars, filePathsVars, registriesVars,
                      skillsVars, compactionVars>>
    \/ /\ part = "skills" /\ SkillsNext
       /\ UNCHANGED <<part, fileToolsVars, filePathsVars, registriesVars,
                      logbookVars, compactionVars>>
    \/ /\ part = "compaction" /\ CompactionNext
       /\ UNCHANGED <<part, fileToolsVars, filePathsVars, registriesVars,
                      logbookVars, skillsVars>>

Spec == Init /\ [][Next]_<<part, fileToolsVars, filePathsVars,
                        registriesVars, logbookVars, skillsVars,
                        compactionVars>>
=============================================================================
