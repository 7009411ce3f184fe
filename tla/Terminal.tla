------------------------------ MODULE Terminal ------------------------------
(***************************************************************************)
(* The command line (cli/app.py), a host of the agent: it owns the         *)
(* conversation, starts turns, takes messages while one runs, asks for     *)
(* approvals and answers, interrupts, and saves.                           *)
(*                                                                         *)
(* Turns and the /resume picker are workers of one exclusive group:        *)
(* starting one cancels the others, which then run their except and        *)
(* finally clauses beside it.  Keys, clicks and typed lines are handled by *)
(* the application's own task at any time.  One action is what happens     *)
(* between two awaits.  The agent is what the host sees of it: a run       *)
(* takes the inbox, pauses, ends, fails or is cancelled.                   *)
(***************************************************************************)
EXTENDS Naturals, FiniteSets

CONSTANTS
    HostWorkers,    \* bound: workers of the group "agent" alive at once
    HostSessions,   \* ids of conversations
    MaxTyped,       \* bound: messages the user sends
    MaxObjects,     \* bound: RunContext objects alive at once
    MaxAsked        \* bound: cards and questions of a pause

ASSUME TerminalConstants ==
    MaxTyped \in Nat /\ MaxObjects \in Nat \ {0} /\ MaxAsked \in Nat \ {0}

VARIABLES
    contexts,   \* the RunContext objects
    shown,      \* self.context
    saved,      \* what the store holds of each session, {} when it was never saved
    busy,       \* _busy
    cancel,     \* the worker whose token is _cancel, or Nobody
    token,      \* that token is cancelled
    waitFor,    \* _request_future, with its card or form
    job,        \* the workers: where each is, the context its run works on, its
                \* snapshot and task, the cards and questions its pause has left,
                \* and whether a worker started after it cancelled it
    shells,     \* commands entered with "!" that run
    typed,      \* messages sent so far
    givenUp,   \* messages taken back by an interrupt, a refused run or a switch
    unsaved,    \* the last save failed
    crossed     \* a menu entry was clicked while something ran, or a shell
                \* command began while /resume read the list

hostVars == <<contexts, shown, saved, busy, cancel, token, waitFor, job, shells,
              typed, givenUp, unsaved, crossed>>
logVars == <<typed, givenUp, unsaved, crossed>>

Objects == 1..MaxObjects
Nobody == "nobody"
TypedMessages == 1..MaxTyped
Conversation == [session : HostSessions, told : SUBSET TypedMessages, inbox : SUBSET TypedMessages]
Places == {"idle", "ready", "run", "ask", "wrap", "save", "saving",
           "list", "pick", "dropped", "load"}
NoRequest == [of |-> Nobody, kind |-> "none", state |-> "none", open |-> {}, tab |-> 0, typing |-> FALSE]
NoJob == [at |-> "idle", works |-> 1, before |-> {}, task |-> {}, cards |-> 0,
          questions |-> 0, killed |-> FALSE]

TerminalTypeOK ==
    /\ contexts \in [Objects -> Conversation]
    /\ shown \in Objects
    /\ saved \in [HostSessions -> SUBSET Conversation]
    /\ cancel \in HostWorkers \cup {Nobody}
    /\ token \in [HostWorkers -> BOOLEAN]
    /\ waitFor \in [of : HostWorkers \cup {Nobody}, kind : {"none", "card", "form"},
                    state : {"none", "open", "answered", "cancelled"},
                    open : SUBSET (1..MaxAsked), tab : 0..MaxAsked + 1, typing : BOOLEAN]
    /\ job \in [HostWorkers ->
            [at : Places, works : Objects, before : SUBSET Conversation,
             task : SUBSET TypedMessages, cards : 0..MaxAsked, questions : 0..MaxAsked,
             killed : BOOLEAN]]
    /\ shells \in 0..2 /\ typed \in 0..MaxTyped /\ givenUp \subseteq TypedMessages
    /\ {busy, unsaved, crossed} \subseteq BOOLEAN

TerminalInit ==
    \E s \in HostSessions :
        LET empty == [session |-> s, told |-> {}, inbox |-> {}] IN
        /\ contexts = [o \in Objects |-> empty]
        /\ shown = 1 /\ saved = [x \in HostSessions |-> {}]
        /\ busy = FALSE /\ cancel = Nobody /\ token = [w \in HostWorkers |-> FALSE]
        /\ waitFor = NoRequest /\ job = [w \in HostWorkers |-> NoJob]
        /\ shells = 0 /\ typed = 0 /\ givenUp = {} /\ unsaved = FALSE /\ crossed = FALSE

Shown == contexts[shown]
Held(c) == c.told \cup c.inbox
WaitsForUser == waitFor.state = "open"
FormOpen == waitFor.of # Nobody /\ waitFor.kind = "form"
Alive(w) == job[w].at # "idle"
Cancelled == cancel # Nobody /\ token[cancel]
(* an object nobody refers to *)
Unused(o) == o # shown /\ \A w \in HostWorkers : Alive(w) => job[w].works # o

(* work(exclusive=True, group="agent"): the new worker cancels the others *)
Spawn(w, place, task) ==
    /\ ~Alive(w)
    /\ job' = [v \in HostWorkers |->
                 IF v = w THEN [NoJob EXCEPT !.at = place, !.task = task, !.works = shown]
                 ELSE [job[v] EXCEPT !.killed = Alive(v)]]

Goes(w, place) == job' = [job EXCEPT ![w].at = place, ![w].killed = FALSE]
Over(w) == job' = [job EXCEPT ![w] = NoJob]

-----------------------------------------------------------------------------
(* The user: action_submit_prompt, _run_command, clicks and esc *)

(* a line typed while a model turn runs *)
SendToInbox ==
    /\ busy /\ ~WaitsForUser /\ cancel # Nobody /\ typed < MaxTyped
    /\ typed' = typed + 1
    /\ contexts' = [contexts EXCEPT ![shown].inbox = @ \cup {typed'}]
    /\ UNCHANGED <<shown, saved, busy, cancel, token, waitFor, job, shells, givenUp,
                   unsaved, crossed>>

(* a line, or a skill of the menu with its arguments, typed while nothing
   runs.  Keys are handled in order and each to its end, so the await that
   writes the block between the look at _busy and the worker is one step *)
SendTask(w) ==
    /\ ~busy /\ ~WaitsForUser /\ typed < MaxTyped
    /\ typed' = typed + 1 /\ busy' = TRUE /\ Spawn(w, "ready", {typed'})
    /\ UNCHANGED <<contexts, shown, saved, cancel, token, waitFor, shells, givenUp,
                   unsaved, crossed>>

Shell ==
    /\ ~busy /\ ~WaitsForUser /\ shells < 2
    /\ busy' = TRUE /\ shells' = shells + 1
    /\ crossed' = (crossed \/ \E w \in HostWorkers : Alive(w))
    /\ UNCHANGED <<contexts, shown, saved, cancel, token, waitFor, job, typed,
                   givenUp, unsaved>>

(* _run_shell ends, also when a later command of its group cancelled it *)
ShellEnds ==
    /\ shells > 0 /\ shells' = shells - 1 /\ busy' = FALSE
    /\ UNCHANGED <<contexts, shown, saved, cancel, token, waitFor, job, logVars>>

(* _switch_to: the conversation on the screen is another object *)
SwitchTo(o, c) ==
    /\ Unused(o)
    /\ contexts' = [contexts EXCEPT ![o] = c] /\ shown' = o
    /\ givenUp' = givenUp \cup Held(Shown)

(* A command is typed while nothing runs.  The entries of the slash menu,
   which opens at any time but beside a form, can also be clicked. *)
Commanded == /\ IF busy THEN ~FormOpen ELSE ~WaitsForUser
             /\ crossed' = (crossed \/ busy)

NewConversation(o, s) ==
    /\ Commanded
    /\ saved[s] = {} /\ s # Shown.session
    /\ SwitchTo(o, [session |-> s, told |-> {}, inbox |-> {}])
    /\ UNCHANGED <<saved, busy, cancel, token, waitFor, job, shells, typed, unsaved>>

(* /resume lists the sessions, /resume id loads at once; a click gives no id *)
ResumeCommand(w, place) ==
    /\ Commanded /\ (place = "load" => ~busy)
    /\ Spawn(w, place, {})
    /\ UNCHANGED <<contexts, shown, saved, busy, cancel, token, waitFor, shells,
                   typed, givenUp, unsaved>>

(* action_interrupt: it leaves the field of a form first; during a turn it
   cancels the token and the question that waits *)
Escape ==
    /\ IF FormOpen /\ waitFor.typing
         THEN /\ waitFor' = [waitFor EXCEPT !.typing = FALSE] /\ UNCHANGED token
         ELSE /\ busy /\ cancel # Nobody
              /\ token' = [token EXCEPT ![cancel] = TRUE]
              /\ waitFor' = IF WaitsForUser THEN [waitFor EXCEPT !.state = "cancelled"] ELSE waitFor
    /\ UNCHANGED <<contexts, shown, saved, busy, cancel, job, shells, logVars>>

(* a button, a digit or a line answers a card; another text asks again *)
AnswerCard ==
    /\ WaitsForUser /\ waitFor.kind = "card"
    /\ waitFor' = [waitFor EXCEPT !.state = "answered"]
    /\ UNCHANGED <<contexts, shown, saved, busy, cancel, token, job, shells, logVars>>

-----------------------------------------------------------------------------
(* The form of blocks.py: a tab per question and, beside more than one,
   a tab to review and submit *)

SubmitTab == MaxAsked + 1
Next1(S) == CHOOSE q \in S : \A p \in S : q <= p
Completes(f) == [f EXCEPT !.state = "answered"]

(* QuestionForm._answer *)
AnswerTab(f, single) ==
    LET now == [f EXCEPT !.open = @ \ {f.tab}, !.typing = FALSE] IN
    IF single THEN Completes(now)
    ELSE [now EXCEPT !.tab = IF now.open = {} THEN SubmitTab ELSE Next1(now.open)]

(* QuestionForm.enter, .pick, .pick_number, .switch *)
UseForm(n) ==
    /\ WaitsForUser /\ waitFor.kind = "form" /\ waitFor.of # Nobody
    /\ n = IF job[waitFor.of].at = "pick" THEN 1 ELSE job[waitFor.of].questions
    /\ \/ /\ waitFor.tab = SubmitTab
          /\ waitFor' = IF waitFor.open = {} THEN Completes(waitFor)
                        ELSE [waitFor EXCEPT !.tab = Next1(waitFor.open)]
       \/ /\ waitFor.tab # SubmitTab /\ waitFor' = AnswerTab(waitFor, n = 1)
       \/ /\ waitFor.tab # SubmitTab /\ ~waitFor.typing     \* "Other"
          /\ waitFor' = [waitFor EXCEPT !.typing = TRUE]
       \/ /\ n > 1
          /\ \E tab \in 1..n \cup {SubmitTab} : waitFor' = [waitFor EXCEPT !.tab = tab, !.typing = FALSE]
    /\ UNCHANGED <<contexts, shown, saved, busy, cancel, token, job, shells, logVars>>

Opens(w, kind, n) ==
    waitFor' = [of |-> w, kind |-> kind, state |-> "open", typing |-> FALSE,
                open |-> IF kind = "form" THEN 1..n ELSE {}, tab |-> IF kind = "form" THEN 1 ELSE 0]

-----------------------------------------------------------------------------
(* _run_turn and _turn *)

(* the run gets the messages of its task on the conversation that is shown *)
RunsOn(w, task, snapshot) ==
    /\ job' = [job EXCEPT ![w].at = "run", ![w].works = shown, ![w].task = task,
                          ![w].before = snapshot]
    /\ contexts' = [contexts EXCEPT ![shown].told = @ \cup task, ![shown].inbox = @ \ task]

Snapshot(w) == CHOOSE c \in job[w].before : TRUE

BeginTurn(w) ==
    /\ job[w].at = "ready" /\ ~job[w].killed
    /\ busy' = TRUE
    /\ cancel' = w /\ token' = [token EXCEPT ![w] = FALSE]
    /\ RunsOn(w, job[w].task, {Shown})
    /\ UNCHANGED <<shown, saved, waitFor, shells, logVars>>

(* the loop takes the inbox before a request *)
LoopLooks(w) ==
    /\ job[w].at = "run" /\ contexts[job[w].works].inbox # {}
    /\ contexts' = [contexts EXCEPT ![job[w].works].told = @ \cup contexts[job[w].works].inbox,
                                    ![job[w].works].inbox = {}]
    /\ UNCHANGED <<shown, saved, busy, cancel, token, waitFor, job, shells, logVars>>

(* the run pauses: _resolve_requests shows its conversation and asks *)
Pause(w, cards, questions) ==
    /\ job[w].at = "run" /\ ~job[w].killed /\ cards + questions > 0
    /\ job' = [job EXCEPT ![w].at = "ask", ![w].cards = cards, ![w].questions = questions]
    /\ shown' = job[w].works
    /\ UNCHANGED <<contexts, saved, busy, cancel, token, waitFor, shells, logVars>>

(* _request, and _ask_form when the cards are done *)
Ask(w) ==
    /\ job[w].at = "ask" /\ ~job[w].killed /\ waitFor.of # w
    /\ \/ job[w].cards > 0 /\ Opens(w, "card", 0)
       \/ job[w].cards = 0 /\ job[w].questions > 0 /\ Opens(w, "form", job[w].questions)
    /\ UNCHANGED <<contexts, shown, saved, busy, cancel, token, job, shells, logVars>>

(* "always allow" may cover the cards that follow *)
Applied(w, cards) ==
    /\ job[w].at = "ask" /\ ~job[w].killed /\ waitFor.of = w /\ waitFor.state = "answered"
    /\ waitFor' = NoRequest
    /\ LET questions == IF waitFor.kind = "card" THEN job[w].questions ELSE 0 IN
       /\ IF waitFor.kind = "card" THEN cards < job[w].cards ELSE cards = 0
       /\ job' = [job EXCEPT ![w].at = IF cards + questions = 0 THEN "run" ELSE "ask",
                             ![w].cards = cards, ![w].questions = questions]
    /\ UNCHANGED <<contexts, shown, saved, busy, cancel, token, shells, logVars>>

Finish(w) ==
    /\ job[w].at = "run" /\ ~job[w].killed
    /\ shown' = job[w].works /\ Goes(w, "wrap")
    /\ UNCHANGED <<contexts, saved, busy, cancel, token, waitFor, shells, logVars>>

(* Slip: the inbox is cleared with the turn it was for *)
DrainCleared(w) ==
    /\ job[w].at = "wrap" /\ ~job[w].killed /\ Goes(w, "save")
    /\ contexts' = [contexts EXCEPT ![shown].inbox = {}]
    /\ UNCHANGED <<shown, saved, busy, cancel, token, waitFor, shells, logVars>>

(* what came after the loop's last look is the next task *)
Drain(w) ==
    /\ job[w].at = "wrap" /\ ~job[w].killed
    /\ IF Shown.inbox = {}
         THEN Goes(w, "save") /\ UNCHANGED contexts
         ELSE RunsOn(w, Shown.inbox, job[w].before)
    /\ UNCHANGED <<shown, saved, busy, cancel, token, waitFor, shells, logVars>>

(* the run raises; it may have refused the task before it took it *)
RunFails(w, refused) ==
    /\ job[w].at = "run" /\ ~job[w].killed /\ Goes(w, "save")
    /\ contexts' = IF refused THEN [contexts EXCEPT ![job[w].works].told = @ \ job[w].task] ELSE contexts
    /\ givenUp' = IF refused THEN givenUp \cup job[w].task ELSE givenUp
    /\ UNCHANGED <<shown, saved, busy, cancel, token, waitFor, shells, typed, unsaved,
                   crossed>>

(* the conversation is the snapshot again; what came since is gone *)
RolledBack(w) ==
    shown' = job[w].works /\ contexts' = [contexts EXCEPT ![job[w].works] = Snapshot(w)]

(* CancelledError in _turn: by esc, or because another worker was started *)
TurnCancelled(w) ==
    /\ \/ job[w].at \in {"run", "ask", "wrap"} /\ job[w].killed
       \/ job[w].at = "run" /\ token[w]
       \/ job[w].at = "ask" /\ waitFor.of = w /\ waitFor.state = "cancelled"
    /\ Goes(w, "save")
    /\ waitFor' = IF waitFor.of = w THEN NoRequest ELSE waitFor
    /\ IF Cancelled
         THEN RolledBack(w) /\ givenUp' = givenUp \cup (Held(Shown) \ Held(Snapshot(w)))
         ELSE UNCHANGED <<contexts, shown, givenUp>>
    /\ UNCHANGED <<saved, busy, cancel, token, shells, typed, unsaved, crossed>>

(* _save_session, in the finally clause *)
SaveStarts(w, stored) ==
    /\ job[w].at = "save" /\ ~job[w].killed /\ Goes(w, "saving")
    /\ saved' = IF stored THEN [saved EXCEPT ![Shown.session] = {Shown}] ELSE saved
    /\ unsaved' = ~stored
    /\ UNCHANGED <<contexts, shown, busy, cancel, token, waitFor, shells, typed,
                   givenUp, crossed>>

TurnOver(w) ==
    /\ job[w].at = "saving" /\ ~job[w].killed /\ Over(w)
    /\ cancel' = Nobody /\ busy' = FALSE /\ waitFor' = NoRequest
    /\ UNCHANGED <<contexts, shown, saved, token, shells, logVars>>

(* cancelled before its first step or inside its finally clause, or while it
   reads from the store: the rest of the worker is skipped *)
CutShort(w) ==
    /\ job[w].killed /\ job[w].at \in {"ready", "save", "saving", "list", "load", "dropped"}
    /\ Over(w)
    /\ IF job[w].at = "dropped" THEN busy' = FALSE /\ cancel' = Nobody ELSE UNCHANGED <<busy, cancel>>
    /\ givenUp' = IF job[w].at = "ready" THEN givenUp \cup job[w].task ELSE givenUp
    /\ UNCHANGED <<contexts, shown, saved, token, waitFor, shells, typed, unsaved,
                   crossed>>

-----------------------------------------------------------------------------
(* _resume_picker *)

OtherSessions == {s \in HostSessions : saved[s] # {} /\ s # Shown.session}

Listed(w) ==
    /\ job[w].at = "list" /\ ~job[w].killed
    /\ IF OtherSessions = {}
         THEN Over(w) /\ UNCHANGED <<busy, cancel, token, waitFor>>
         ELSE /\ Goes(w, "pick") /\ busy' = TRUE
              /\ cancel' = w /\ token' = [token EXCEPT ![w] = FALSE] /\ Opens(w, "form", 1)
    /\ UNCHANGED <<contexts, shown, saved, shells, logVars>>

Picked(w) ==
    /\ job[w].at = "pick" /\ waitFor.of = w
    /\ \/ /\ waitFor.state = "answered" /\ ~job[w].killed /\ Goes(w, "load")
          /\ busy' = FALSE /\ cancel' = Nobody
       \/ /\ waitFor.state = "cancelled" \/ job[w].killed       \* by esc, or by a new worker
          /\ IF Cancelled
               THEN Goes(w, "dropped") /\ UNCHANGED <<busy, cancel>>
               ELSE Over(w) /\ busy' = FALSE /\ cancel' = Nobody
    /\ waitFor' = NoRequest
    /\ UNCHANGED <<contexts, shown, saved, token, shells, logVars>>

(* "Resume cancelled." is written, then the finally clause *)
Dropped(w) ==
    /\ job[w].at = "dropped" /\ ~job[w].killed /\ Over(w)
    /\ busy' = FALSE /\ cancel' = Nobody
    /\ UNCHANGED <<contexts, shown, saved, token, waitFor, shells, logVars>>

Loaded(w, o, s) ==
    /\ job[w].at = "load" /\ ~job[w].killed /\ Over(w)
    /\ IF saved[s] = {}
         THEN o = shown /\ UNCHANGED <<contexts, shown, givenUp>>
         ELSE \E c \in saved[s] : SwitchTo(o, c)
    /\ UNCHANGED <<saved, busy, cancel, token, waitFor, shells, typed, unsaved,
                   crossed>>

-----------------------------------------------------------------------------

TerminalNext ==
    \/ SendToInbox \/ Shell \/ ShellEnds \/ Escape \/ AnswerCard
    \/ \E n \in 1..MaxAsked : UseForm(n)
    \/ \E o \in Objects, s \in HostSessions : NewConversation(o, s)
    \/ \E w \in HostWorkers :
        \/ SendTask(w) \/ BeginTurn(w) \/ LoopLooks(w) \/ Ask(w) \/ Finish(w) \/ Drain(w)
        \/ TurnCancelled(w) \/ TurnOver(w) \/ CutShort(w)
        \/ Listed(w) \/ Picked(w) \/ Dropped(w)
        \/ \E place \in {"list", "load"} : ResumeCommand(w, place)
        \/ \E cards \in 0..MaxAsked : Applied(w, cards)
        \/ \E cards, questions \in 0..MaxAsked : cards + questions <= MaxAsked /\ Pause(w, cards, questions)
        \/ \E refused \in BOOLEAN : RunFails(w, refused) \/ SaveStarts(w, refused)
        \/ \E o \in Objects, s \in HostSessions : Loaded(w, o, s)

TerminalSpec == TerminalInit /\ [][TerminalNext]_hostVars

-----------------------------------------------------------------------------

TurnUnderWay(w) == job[w].at \in {"run", "ask", "wrap", "save", "saving"}
OneTurn == \A v, w \in HostWorkers : TurnUnderWay(v) /\ TurnUnderWay(w) => v = w
BusyForSomeone == busy => shells > 0 \/ \E w \in HostWorkers : Alive(w)
NothingLost ==
    1..typed \subseteq Held(Shown) \cup givenUp
                       \cup UNION {job[w].task : w \in {v \in HostWorkers : job[v].at = "ready"}}
SavedWhenIdle ==
    (\A w \in HostWorkers : ~TurnUnderWay(w)) /\ ~unsaved
        => IF saved[Shown.session] = {} THEN Shown.told = {}
           ELSE \A c \in saved[Shown.session] : c.told = Shown.told

(* Unless the user clicks a menu entry while something runs, or enters a
   shell command before the list of /resume is there, one turn runs
   at a time, the composer is blocked only while something runs, every
   message the user sent is in the conversation, in its inbox, about to be
   a task, or was given up by an interrupt, a refusal or a switch, and
   between turns the store has what the screen shows (app.py 461-501,
   1162-1198). *)
ConversationKept == ~crossed => OneTurn /\ BusyForSomeone /\ NothingLost /\ SavedWhenIdle
=============================================================================
