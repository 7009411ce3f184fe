------------------------------ MODULE Permissions ------------------------------
(***************************************************************************)
(* Whether a bash line runs: how the line is read, what the Policy decides,  *)
(* what the person is asked, and what "always allow" adds.                   *)
(*                                                                         *)
(*   core/policy.py                            Policy                        *)
(*   capabilities/tools/bash/_permissions.py   split_command, ...            *)
(*   core/tool/dispatcher.py                   ToolDispatcher.prepare        *)
(*   cli/app.py                                _resolve_requests             *)
(*                                                                         *)
(* A line is its segments, as split_command cuts it, and whether it has a    *)
(* character or an operator that makes it `odd`.  A segment is its words; the *)
(* script in its last word, a line itself; and what an expansion within a     *)
(* word starts ("$(...)", backticks, a computed word), which stays part of   *)
(* that word.  An expansion outside quotes is cut into segments of its own.  *)
(* The options of a wrapper command (env -u X ...) and the globs of a        *)
(* pattern are left out.                                                     *)
(***************************************************************************)
EXTENDS Naturals, Sequences, FiniteSets, FiniteSetsExt

CONSTANTS
    Scripts,     \* sequences of segments, closed under the scripts they carry
    Policies,    \* the rules an agent may have: [allow, ask, deny], allow in its order
    Wrappers,    \* words that run their arguments: env, nohup, ...
    Shells,      \* shells, which run the script they are given
    Evals,       \* eval: runs its arguments, which are its script here
    Options,     \* options of a shell that announce no script: -e, --login
    ScriptOptions,   \* those that do: -c, -lc
    Assignments, \* words that set a variable: A=1
    Keywords,    \* control words: if, then, ...
    Qualified,       \* a path-qualified word and the name it ends in
    MaxNesting,  \* _MAX_NESTING: scripts in scripts that are read
    MaxDepth,    \* bound: scripts in scripts that the shell runs
    MaxCalls     \* bound: bash calls of the conversation

ASSUME PermissionsAssumption ==
    /\ MaxNesting \in Nat /\ MaxDepth \in Nat /\ MaxCalls \in Nat
    /\ \A segs \in Scripts : segs \in Seq([words : Seq(STRING), script : Scripts, hidden : Scripts])
    /\ \A word \in DOMAIN Qualified : Qualified[word] \notin DOMAIN Qualified
    /\ \A policy \in Policies : policy.allow \in Seq([words : Seq(STRING), more : BOOLEAN])

VARIABLES
    rules,      \* the agent's Policy
    isolated,   \* the executor is a sandbox
    auto,       \* the tool's approval_mode is AUTO_APPROVED
    allowed,    \* allowed_rules: what the user always allows
    calls,      \* the bash calls, in the order of the model's replies
    batch       \* calls before this one belong to answered replies

permissionVars == <<rules, isolated, auto, allowed, calls, batch>>

-----------------------------------------------------------------------------
Commands(segs) == {segs[i] : i \in DOMAIN segs}

\* An expansion makes a line odd.
Lines == {line \in [segs : Scripts, odd : BOOLEAN] :
            (\E seg \in Commands(line.segs) : seg.hidden # <<>>) => line.odd}

\* A rule `Tool(pattern)`; one without words names the whole tool.
Rule(words, more) == [words |-> words, more |-> more]
Whole(rule) == rule.words = <<>>

\* "new", "asked", "approved", "denied" or "ran", and whether the person
\* saw the call, a rule allowed it, or an earlier "always" of its batch did.
Call(line, status, by) == [line |-> line, status |-> status, by |-> by]
CallStatus == {"new", "asked", "approved", "denied", "ran"}

PermissionsTypeOK ==
    /\ rules \in Policies /\ isolated \in BOOLEAN /\ auto \in BOOLEAN
    /\ calls \in Seq([line : Lines, status : CallStatus,
                      by : {"nobody", "rule", "person", "batch"}])
    /\ Len(calls) <= MaxCalls /\ batch \in 0..MaxCalls
    /\ \A rule \in allowed : rule.more /\ Len(rule.words) <= 1

PermissionsInit ==
    /\ rules \in Policies /\ isolated \in BOOLEAN /\ auto \in BOOLEAN
    /\ allowed = {} /\ calls = <<>> /\ batch = 0

-----------------------------------------------------------------------------
(* Reading a line.                                                           *)

Base(word) == IF word \in DOMAIN Qualified THEN Qualified[word] ELSE word

\* Where the command that a wrapper or an assignment leads to begins.
Begins(words) ==
    CHOOSE i \in 1..Len(words) + 1 :
        /\ \A j \in 1..i - 1 : words[j] \in Assignments \/ Base(words[j]) \in Wrappers
        /\ i <= Len(words) => words[i] \notin Assignments /\ Base(words[i]) \notin Wrappers

\* What the command really runs, its word reduced to the name.
Wrapped(words) ==
    LET i == Begins(words) IN
    IF i > Len(words) THEN <<>>
    ELSE <<Base(words[i])>> \o SubSeq(words, i + 1, Len(words))

\* Slip: a command is read as it is written.
AsWritten(words) == {words}

\* The command as written and, where that differs, what it runs.
Candidates(words) == {words} \cup ({Wrapped(words)} \ {<<>>})

\* Where the scan of a shell's options finds the one that announces a script:
\* it gives up at the first word that is no option.
Announces(words, i) ==
    /\ Base(words[1]) \in Shells
    /\ words[i] \in ScriptOptions /\ \A j \in 2..i - 1 : words[j] \in Options

\* Scripts passed as strings: all of what eval is given, and the word after
\* the option.
ReadsScript(words) ==
    \/ Base(words[1]) \in Evals
    \/ Len(words) > 1 /\ Announces(words, Len(words))

InlineScripts(seg) ==
    {seg.script : words \in {w \in Candidates(seg.words) : seg.script # <<>> /\ ReadsScript(w)}}

\* Where another option follows (sh -c -- ...), that is taken for the script.
WordsAsScripts(seg) ==
    UNION {{<<words[i + 1]>> : i \in {m \in 2..Len(words) - 1 : Announces(words, m)}}
           : words \in Candidates(seg.words)}

\* A script that is carried counts as one more word of its command.
Subject(words, seg) == IF seg.script = <<>> THEN words ELSE words \o <<"...">>

\* What a script is read as, with so many levels of nesting left.
Read[n \in 0..MaxNesting] == [segs \in Scripts |->
    UNION {{Subject(w, seg) : w \in Candidates(seg.words)}
             \cup (IF n > 0 THEN WordsAsScripts(seg) \cup UNION {Read[n - 1][script] : script \in InlineScripts(seg)}
                   ELSE {})
           : seg \in Commands(segs)}]

Subjects(line) == Read[MaxNesting][line.segs]

\* No subject stands for a call that could not be read.
SubjectsOrNone(line) == IF Subjects(line) = {} THEN {<<>>} ELSE Subjects(line)

\* The subjects are all of the line.
Certain(line) ==
    /\ line.segs # <<>> /\ ~line.odd
    /\ \A seg \in Commands(line.segs) :
         /\ seg.words[1] \notin Assignments \cup Keywords
         /\ Candidates(seg.words) = {seg.words}
         /\ InlineScripts(seg) = {} /\ WordsAsScripts(seg) = {}

-----------------------------------------------------------------------------
(* The Policy.                                                               *)

Matches(rule, subject) ==
    \/ Whole(rule)
    \/ /\ Len(rule.words) <= Len(subject)
       /\ rule.more \/ Len(rule.words) = Len(subject)
       /\ SubSeq(subject, 1, Len(rule.words)) = rule.words

AnyMatches(some, line) ==
    \E rule \in some, subject \in SubjectsOrNone(line) : Matches(rule, subject)

\* What covers a subject is the first rule of `first` that matches, or the
\* one of `then`: at most one rule of the user names its first word.
Covering(first, then, subject) ==
    LET places == {i \in DOMAIN first : Matches(first[i], subject)}
    IN  IF places # {} THEN {first[Min(places)]} ELSE {rule \in then : Matches(rule, subject)}

Covers(first, then, line) ==
    \A subject \in SubjectsOrNone(line) :
        \E rule \in Covering(first, then, subject) : Certain(line) \/ Whole(rule)

\* One of the rules that cover the line is the user's, or reads the same.
ByUser(line) ==
    \E subject \in SubjectsOrNone(line) :
        Covering(rules.allow, allowed, subject) \cap allowed # {}

\* Without a sandbox, commands run on the user's machine: always ask.
OnHost(verdict) == IF verdict = "allow" /\ ~isolated THEN "ask" ELSE verdict

Decide(line) ==
    IF AnyMatches(rules.deny, line) THEN "deny"
    ELSE IF AnyMatches(rules.ask, line) THEN "ask"
    ELSE IF Covers(rules.allow, {}, line) \/ Covers(rules.allow, allowed, line)
    THEN IF ByUser(line) THEN "allow" ELSE OnHost("allow")
    ELSE OnHost(IF auto THEN "allow" ELSE "ask")

\* What "always allow" adds: the first word of each command of the line.
RulesFor(line) ==
    IF Certain(line) THEN {Rule(<<subject[1]>>, TRUE) : subject \in Subjects(line)} ELSE {}

-----------------------------------------------------------------------------
(* The conversation.                                                         *)

Is(i, status) == i \in DOMAIN calls /\ calls[i].status = status

Becomes(i, status, by) ==
    calls' = [calls EXCEPT ![i] = Call(@.line, status, by)]

\* The model calls the tool; a reply may hold several calls.
Propose(line) ==
    /\ Len(calls) < MaxCalls
    /\ \A i \in batch + 1..Len(calls) : calls[i].status = "new"
    /\ calls' = Append(calls, Call(line, "new", "nobody"))
    /\ UNCHANGED <<rules, isolated, auto, allowed, batch>>

\* The dispatcher decides on the calls of a reply, in order.
Dispatch(i) ==
    /\ Is(i, "new") /\ i > batch /\ \A j \in 1..i - 1 : calls[j].status # "new"
    /\ CASE Decide(calls[i].line) = "deny"  -> Becomes(i, "denied", "rule")
         [] Decide(calls[i].line) = "allow" -> Becomes(i, "ran", "rule")
         [] Decide(calls[i].line) = "ask"   -> Becomes(i, "asked", "nobody")
    /\ UNCHANGED <<rules, isolated, auto, allowed, batch>>

Prepared == \A j \in DOMAIN calls : calls[j].status # "new"
Asking(i) == Prepared /\ Is(i, "asked") /\ \A j \in 1..i - 1 : calls[j].status # "asked"

\* "Always allow" earlier in this batch covers the call: only the rules of
\* the user are looked at.
CoveredByUser(line) == Covers(<<>>, allowed, line)

ApprovedInBatch(i) ==
    /\ Asking(i) /\ CoveredByUser(calls[i].line)
    /\ Becomes(i, "approved", "batch")
    /\ UNCHANGED <<rules, isolated, auto, allowed, batch>>

AllowOnce(i) ==
    /\ Asking(i) /\ ~CoveredByUser(calls[i].line)
    /\ Becomes(i, "approved", "person")
    /\ UNCHANGED <<rules, isolated, auto, allowed, batch>>

AlwaysAllow(i) ==
    /\ Asking(i) /\ ~CoveredByUser(calls[i].line) /\ RulesFor(calls[i].line) # {}
    /\ Becomes(i, "approved", "person")
    /\ allowed' = allowed \cup RulesFor(calls[i].line)
    /\ UNCHANGED <<rules, isolated, auto, batch>>

DenyCall(i) ==
    /\ Asking(i) /\ ~CoveredByUser(calls[i].line)
    /\ Becomes(i, "denied", "person")
    /\ UNCHANGED <<rules, isolated, auto, allowed, batch>>

\* The run resumes: the Policy is asked again, and an approval stands.
Resume(i) ==
    /\ Prepared /\ ~\E j \in DOMAIN calls : calls[j].status = "asked"
    /\ Is(i, "approved")
    /\ Becomes(i, IF Decide(calls[i].line) = "deny" THEN "denied" ELSE "ran", calls[i].by)
    /\ UNCHANGED <<rules, isolated, auto, allowed, batch>>

\* The reply is answered; the next one may call again.
NextReply ==
    /\ batch < Len(calls) /\ \A j \in DOMAIN calls : calls[j].status \in {"denied", "ran"}
    /\ batch' = Len(calls)
    /\ UNCHANGED <<rules, isolated, auto, allowed, calls>>

PermissionsNext ==
    \/ \E line \in Lines : Propose(line)
    \/ \E i \in 1..MaxCalls :
         \/ Dispatch(i) \/ ApprovedInBatch(i) \/ AllowOnce(i) \/ AlwaysAllow(i)
         \/ DenyCall(i) \/ Resume(i)
    \/ NextReply

PermissionsSpec == PermissionsInit /\ [][PermissionsNext]_permissionVars

-----------------------------------------------------------------------------
(* What the shell starts, told apart from how the line is read.              *)

\* The command a command comes down to: behind wrappers and assignments.
Reaches(words, i) ==
    /\ words[i] \notin Assignments /\ Base(words[i]) \notin Wrappers
    /\ \A j \in 1..i - 1 : words[j] \in Assignments \/ Base(words[j]) \in Wrappers

\* A shell and eval run the script they are given, wherever it stands.
RunsScript(word) == Base(word) \in Shells \cup Evals

\* The commands a script starts, with so many levels of scripts and
\* expansions left.
Started[n \in 0..MaxDepth] == [segs \in Scripts |->
    UNION {(IF n > 0 THEN Started[n - 1][seg.hidden] ELSE {})
             \cup UNION {{Subject(<<Base(seg.words[i])>> \o SubSeq(seg.words, i + 1, Len(seg.words)), seg)}
                           \cup (IF n > 0 /\ RunsScript(seg.words[i]) THEN Started[n - 1][seg.script] ELSE {})
                         : i \in {m \in DOMAIN seg.words : Reaches(seg.words, m)}}
           : seg \in Commands(segs)}]

Starts(line) == Started[MaxDepth][line.segs]

\* No command hides behind a control word or in an expansion, the scan finds
\* every script, and scripts are not carried in scripts deeper than is read:
\* only then does the Policy see every command.
Plain[n \in 0..MaxNesting] == [segs \in Scripts |->
    \A seg \in Commands(segs) :
        /\ seg.words[1] \notin Keywords
        /\ seg.hidden = <<>>
        /\ seg.script # <<>> => n > 0 /\ InlineScripts(seg) # {} /\ Plain[n - 1][seg.script]]

Seen(line) == Plain[MaxNesting][line.segs]

StartsOneOf(some, line) ==
    \E command \in Starts(line), rule \in some : ~Whole(rule) /\ Matches(rule, command)

\* What a line that may run without a question is asked about command by
\* command: all it starts, but of a line that was read for certain and gives a
\* shell a script the scan does not find only the commands of the line itself.
Vetted(line) == IF Certain(line) /\ ~Seen(line) THEN Started[0][line.segs] ELSE Starts(line)

NamedBy(some, line) == \A command \in Vetted(line) : \E rule \in some : Matches(rule, command)

\* A call that ran, of a line the Policy sees all of, starts no command a deny
\* rule names, whatever wrappers, paths and scripts it stands behind, and none
\* an ask rule names unless the person was asked or had allowed it always in
\* the same batch.  (split_command says that deny and ask rules see every
\* command; they do not see those behind a control word, in an expansion
\* within a word, and in scripts that are nested too deep or stand behind an
\* option with a value: Seen.)
\* If no one was asked, each command it starts is one the agent's or the
\* user's rules name, or the tool needs no approval in its sandbox.
RunsWhatIsAllowed(call) ==
    LET line == call.line
        named == NamedBy(Range(rules.allow) \cup allowed, line)
    IN /\ Seen(line) => ~StartsOneOf(rules.deny, line)
       /\ Seen(line) /\ call.by = "rule" => ~StartsOneOf(rules.ask, line)
       /\ call.by = "rule" =>
            IF isolated THEN auto \/ named
            ELSE /\ named
                 /\ \E seg \in Commands(line.segs), rule \in allowed : Matches(rule, Subject(seg.words, seg))
       /\ call.by = "batch" => NamedBy(allowed, line)

\* The person is asked for a reason: an ask rule, a command that neither
\* rules nor the person have allowed, a line that can not be read for
\* certain, or a line the agent's own rules cover on the host.
AskedForAReason(call) ==
    \/ AnyMatches(rules.ask, call.line) \/ ~Certain(call.line)
    \/ ~isolated /\ Covers(rules.allow, {}, call.line)
    \/ \E words \in Subjects(call.line) : ~\E rule \in allowed : Matches(rule, words)

\* "always allow" and the rules never run more than was agreed to, and never
\* ask again for what was.
PermissionsKept ==
    \A i \in DOMAIN calls :
        /\ calls[i].status = "ran" => RunsWhatIsAllowed(calls[i])
        /\ calls[i].status = "asked" /\ (\A j \in DOMAIN calls : calls[j].status # "approved")
             => AskedForAReason(calls[i])

=============================================================================
